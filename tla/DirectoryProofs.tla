--------------------------- MODULE DirectoryProofs ---------------------------
(***************************************************************************)
(* Proofs about the directory of entities: the dashboard that edits and    *)
(* registers it (Directory), for any number of entities and administrators,*)
(* and the scripts that loaded the pilot (PilotImport), for any number of  *)
(* runs, files and edits.                                                  *)
(*                                                                         *)
(* Directory.  Rows stay, latest_version does not decrease, and what the   *)
(* outbox has confirmed it does not take back (Grows): so what a server    *)
(* action read stays true in the sense its later statements need           *)
(* (CallSound), although it is no longer what the tables say.  In          *)
(* particular a record that two relays project at once is at most one      *)
(* version ahead of the table, and every version in it carries the hash    *)
(* the registration was prepared with.                                     *)
(*                                                                         *)
(* PilotImport.  What a run read or wrote stays until it ends (Keeps), so  *)
(* every statement it made has its effect in the tables (Made), and when   *)
(* the plan is made the commit shows all of it.  An uncommitted            *)
(* participation holds a lock the e-mail script waits for (PartSound), so  *)
(* that script counts and changes committed rows only (TableAlone).        *)
(***************************************************************************)
EXTENDS Directory, PilotImport, FiniteSetTheorems, WellFoundedInduction, TLAPS

WithForm   == {"insertDetail", "updateDetail"}
WithId     == Steps \ {"idle"}
Projecting == {"readRecord", "readVersions", "saveRecord"}

\* A copy of entity i with its next version.
RecordSound(r, i) ==
  /\ r.latest \in 1 .. entity[i].latest + 1
  /\ \E v \in r.versions : v.n = r.latest
  /\ \A v \in r.versions :
       v.hash = intent[i] /\ (v.n <= entity[i].latest \/ v.n = r.latest)

\* What a server action holds at each of its statements.
HoldsSound(q) ==
  /\ q.at \in WithForm => q.form \in FormData
  /\ q.at \in WithId => q.id \in Ids /\ entity[q.id] # None
  /\ q.at = "fetchDetail" => q.row \in Entity
  /\ q.at = "prepare" => q.hash \in Payload
  /\ q.at \in {"post", "relay", "poll"} => offer[q.id] # "absent"
  /\ q.at \in Projecting => effect[q.id] = "success"
  /\ q.at \in {"readVersions", "saveRecord"} => q.record \in Record
  /\ q.at = "readVersions" => q.record.latest <= entity[q.id].latest
  /\ q.at = "saveRecord" => RecordSound(q.record, q.id)

CallSound(a) == HoldsSound(call[a])

OutboxSound ==
  \A i \in Ids :
    /\ offer[i] # "absent" => intent[i] \in Payload
    /\ effect[i] = "success" => offer[i] # "absent"
    /\ verdict[i] = "confirmed" => effect[i] = "success"

IInv ==
  /\ TypeOK
  /\ OutboxSound
  /\ AnchoredHistory
  /\ \A a \in Admins : CallSound(a)

------------------------------------------------------------------------------
(* What a step keeps.                                                       *)

Grows ==
  \A i \in Ids :
    /\ entity[i] # None => entity'[i] # None /\ entity[i].latest <= entity'[i].latest
    /\ offer[i] # "absent" => offer'[i] # "absent" /\ intent'[i] = intent[i]
    /\ effect[i] = "success" => effect'[i] = "success"

\* One administrator goes on; what the tables then say is still sound.
Sound(a) ==
  /\ TypeOK' /\ Grows /\ OutboxSound' /\ AnchoredHistory'
  /\ CallSound(a)'
  /\ \A b \in Admins \ {a} : call'[b] = call[b]

\* An idle call is a call, whatever the constants are.
LEMMA IdleTyped == Idle \in Call
BY DEF Idle, Call, Steps

\* Null is no row.
LEMMA NullTyped ==
  None \notin Ids /\ None \notin Kinds /\ None \notin FormData /\ None \notin Entity
    /\ None \notin Payload /\ None \notin Record /\ None \notin Details
BY DirectoryAssumption DEF DirectoryAssumption

\* A copy stays sound while the table advances.
LEMMA RecordKeeps ==
  ASSUME NEW r \in Record, NEW i \in Ids, RecordSound(r, i), intent'[i] = intent[i],
         entity[i].latest \in Nat, entity'[i].latest \in Nat,
         entity[i].latest <= entity'[i].latest
  PROVE  RecordSound(r, i)'
<1>1. r.latest \in Nat /\ \A v \in r.versions : v.n \in Nat
  BY DEF Record, Version
<1> QED  BY <1>1 DEF RecordSound

\* What a server action holds survives the steps of the others.
LEMMA CallKeeps ==
  ASSUME TypeOK, OutboxSound, TypeOK', Grows, NEW b \in Admins, CallSound(b), call'[b] = call[b]
  PROVE  CallSound(b)'
<1> DEFINE q == call[b]
<1>1. q \in Call
  BY DEF TypeOK
<1>2. q.at \in WithId => /\ q.id \in Ids /\ entity[q.id] # None
                         /\ entity'[q.id] # None /\ entity[q.id].latest <= entity'[q.id].latest
                         /\ entity[q.id].latest \in Nat /\ entity'[q.id].latest \in Nat
  BY DEF CallSound, HoldsSound, Grows, TypeOK, Entity
<1>3. q.at \in Projecting => effect[q.id] = "success" /\ effect'[q.id] = "success"
                             /\ intent'[q.id] = intent[q.id]
  BY <1>2 DEF CallSound, HoldsSound, Grows, OutboxSound, Projecting, WithId, Steps
<1>6. q.at \in {"post", "relay", "poll"} => offer'[q.id] # "absent"
  BY <1>2 DEF CallSound, HoldsSound, Grows, WithId, Steps
<1>4. q.at = "readVersions" => q.record \in Record /\ q.record.latest \in Nat
                               /\ q.record.latest <= entity'[q.id].latest
  BY <1>2 DEF CallSound, HoldsSound, Record, WithId, Steps
<1>5. q.at = "saveRecord" => RecordSound(q.record, q.id)'
  <2>1. SUFFICES ASSUME q.at = "saveRecord"  PROVE RecordSound(q.record, q.id)'
    OBVIOUS
  <2>2. RecordSound(q.record, q.id) /\ q.record \in Record /\ q.id \in Ids
    BY <1>2, <2>1 DEF CallSound, HoldsSound, WithId, Steps
  <2>3. /\ entity[q.id].latest <= entity'[q.id].latest
        /\ entity[q.id].latest \in Nat /\ entity'[q.id].latest \in Nat
        /\ intent'[q.id] = intent[q.id]
    BY <1>2, <1>3, <2>1 DEF WithId, Steps, Projecting
  <2> QED  BY <2>2, <2>3, RecordKeeps
<1> QED
  BY <1>1, <1>2, <1>3, <1>4, <1>5, <1>6 DEF CallSound, HoldsSound, WithId, Projecting, Steps

\* A step that only moves a server action on.
LEMMA CallMoves ==
  ASSUME IInv, UNCHANGED <<tables, outbox>>, deleted' \subseteq Ids,
         NEW a \in Admins, NEW q \in Call, call' = [call EXCEPT ![a] = q], HoldsSound(q)
  PROVE  Sound(a)
<1>1. TypeOK'
  BY DEF IInv, TypeOK, tables, outbox
<1>2. Grows
  BY DEF IInv, TypeOK, Entity, Grows, tables, outbox
<1>3. OutboxSound' /\ AnchoredHistory'
  BY DEF IInv, OutboxSound, AnchoredHistory, Exists, tables, outbox
<1>4. call'[a] = q /\ \A b \in Admins \ {a} : call'[b] = call[b]
  BY DEF IInv, TypeOK
<1>5. HoldsSound(q)'
  BY DEF HoldsSound, RecordSound, tables, outbox
<1> QED  BY <1>1, <1>2, <1>3, <1>4, <1>5 DEF Sound, CallSound

\* A server action that ends.
LEMMA ReturnSound ==
  ASSUME IInv, UNCHANGED <<tables, outbox>>, deleted' \subseteq Ids,
         NEW a \in Admins, Return(a)
  PROVE  Sound(a)
<1>1. call' = [call EXCEPT ![a] = Idle] /\ Idle.at = "idle"
  BY DEF Return, Idle
<1>2. HoldsSound(Idle)
  BY <1>1 DEF HoldsSound, WithForm, WithId, Projecting, Steps
<1> QED  BY <1>1, <1>2, IdleTyped, CallMoves

\* A server action that goes on to another statement with what it holds.
LEMMA GoToSound ==
  ASSUME IInv, UNCHANGED <<tables, outbox>>, deleted' \subseteq Ids,
         NEW a \in Admins, NEW s \in Steps, GoTo(a, s),
         HoldsSound([call[a] EXCEPT !.at = s])
  PROVE  Sound(a)
<1> DEFINE q == [call[a] EXCEPT !.at = s]
<1>1. call' = [call EXCEPT ![a] = q]
  BY DEF GoTo
<1>2. q \in Call
  BY DEF IInv, TypeOK, Call
<1>3. HoldsSound(q)
  OBVIOUS
<1> HIDE DEF q
<1> QED  BY <1>1, <1>2, <1>3, CallMoves

------------------------------------------------------------------------------
(* Creating, editing, deleting, relating.                                   *)

\* What a step must show when it changes rows but neither versions nor outbox.
LEMMA RowsChange ==
  ASSUME IInv, UNCHANGED <<version, outbox>>, TypeOK',
         NEW a \in Admins, NEW q \in Call, call' = [call EXCEPT ![a] = q], HoldsSound(q)',
         \A i \in Ids : IF entity[i] = None
                        THEN entity'[i] # None => entity'[i].latest = 0
                        ELSE entity'[i] # None /\ entity'[i].latest = entity[i].latest
  PROVE  Sound(a)
<1>1. Grows
  BY DEF IInv, TypeOK, Entity, Grows, outbox
<1>2. OutboxSound'
  BY DEF IInv, OutboxSound, outbox
<1>3. \A i \in Ids : (IF Exists(i) THEN entity[i].latest ELSE 0)'
                      = IF Exists(i) THEN entity[i].latest ELSE 0
  BY DEF Exists
<1>4. AnchoredHistory'
  BY <1>3 DEF IInv, AnchoredHistory, outbox
<1>5. call'[a] = q /\ \A b \in Admins \ {a} : call'[b] = call[b]
  BY DEF IInv, TypeOK
<1> QED  BY <1>1, <1>2, <1>4, <1>5 DEF Sound, CallSound

\* A new entity has no versions and no registration.
LEMMA InsertEntitySound ==
  ASSUME IInv, NEW a \in Admins, NEW flow \in AllFlows, NEW k \in FormKinds,
         NEW f \in Forms, InsertEntity(a, flow, k, f)
  PROVE  Sound(a)
<1>1. f \in FormData /\ k \in Kinds
  BY DirectoryAssumption DEF DirectoryAssumption, Kinds
<1> DEFINE n == NewEntity(k, f.common)
<1>2. PICK i \in Ids :
        /\ entity[i] = None
        /\ entity' = [entity EXCEPT ![i] = n]
        /\ call' = [call EXCEPT ![a] = [Idle EXCEPT
             !.at = "insertDetail", !.flow = flow, !.id = i, !.form = f]]
  BY DEF InsertEntity, Exists
<1>3. UNCHANGED <<detail, rel, version, outbox, deleted>>
  BY DEF InsertEntity
<1>4. n \in Entity /\ n.latest = 0
  BY <1>1 DEF NewEntity, Entity, FormData
<1>5. n # None
  BY <1>4, NullTyped
<1>6. PICK q \in Call : /\ call' = [call EXCEPT ![a] = q]
                        /\ q.at = "insertDetail" /\ q.id = i /\ q.form \in FormData
  <2> DEFINE c == [Idle EXCEPT !.at = "insertDetail", !.flow = flow, !.id = i, !.form = f]
  <2>1. c \in Call /\ c.at = "insertDetail" /\ c.id = i /\ c.form \in FormData
    BY <1>1, IdleTyped DEF Call, Idle, Steps
  <2> QED  BY <1>2, <2>1
<1> HIDE DEF n
<1>7. entity' \in [Ids -> Entity \cup {None}] /\ entity'[i] = n
      /\ \A j \in Ids \ {i} : entity'[j] = entity[j]
  BY <1>2, <1>4 DEF IInv, TypeOK
<1>8. TypeOK'
  BY <1>3, <1>6, <1>7 DEF IInv, TypeOK, outbox
<1>9. \A j \in Ids : IF entity[j] = None
                      THEN entity'[j] # None => entity'[j].latest = 0
                      ELSE entity'[j] # None /\ entity'[j].latest = entity[j].latest
  BY <1>2, <1>4, <1>5, <1>7
<1>10. HoldsSound(q)'
  BY <1>5, <1>6, <1>7 DEF HoldsSound, WithForm, WithId, Projecting, Steps
<1> QED  BY <1>3, <1>6, <1>8, <1>9, <1>10, RowsChange

\* The row of the kind table joins an entity that exists.
LEMMA InsertDetailSound ==
  ASSUME IInv, NEW a \in Admins, InsertDetail(a)
  PROVE  Sound(a)
<1>1. /\ call[a].at = "insertDetail" /\ call[a] \in Call /\ call[a].id \in Ids
      /\ entity[call[a].id] # None /\ call[a].form \in FormData
  BY DEF InsertDetail, IInv, TypeOK, CallSound, HoldsSound, WithForm, WithId, Steps
<1>2. UNCHANGED <<entity, rel, version, outbox, deleted>>
      /\ detail' \in [Ids -> Details \cup {None}]
  BY <1>1 DEF InsertDetail, IInv, TypeOK, FormData
<1>3. PICK q \in Call : /\ call' = [call EXCEPT ![a] = q]
                        /\ (q.at = "link" /\ q.id = call[a].id) \/ q.at = "idle"
  <2>1. CASE call[a].flow = "addToEvent"
    <3> DEFINE q == [call[a] EXCEPT !.at = "link", !.form = None]
    <3>1. q \in Call /\ q.at = "link" /\ q.id = call[a].id
      BY <1>1 DEF Call, Steps
    <3>2. call' = [call EXCEPT ![a] = q]
      BY <2>1 DEF InsertDetail
    <3> QED  BY <3>1, <3>2
  <2>2. CASE call[a].flow # "addToEvent"
    BY <2>2, IdleTyped DEF InsertDetail, Return, Idle
  <2> QED  BY <2>1, <2>2
<1>4. TypeOK'
  BY <1>2, <1>3 DEF IInv, TypeOK, outbox
<1>5. HoldsSound(q)'
  BY <1>1, <1>2, <1>3 DEF HoldsSound, WithForm, WithId, Projecting, Steps
<1> QED  BY <1>2, <1>3, <1>4, <1>5, RowsChange

\* Relationships join entities, and the insert raises as it stands.
LEMMA CreateRelationshipSound ==
  ASSUME IInv, NEW a \in Admins, CreateRelationship(a)
  PROVE  Sound(a)
<1>1. call[a].at = "link" /\ call[a].id \in Ids
  BY DEF CreateRelationship, IInv, TypeOK, CallSound, HoldsSound, WithId, Steps
<1>2. GetEventBySlug \subseteq Ids /\ ListEntities \subseteq Ids
  BY DEF GetEventBySlug, ListEntities, Rows
<1>3. rel' \subseteq Ids \X Ids
  BY <1>1, <1>2 DEF CreateRelationship, IInv, TypeOK
<1>4. call' = [call EXCEPT ![a] = Idle] /\ Idle.at = "idle"
      /\ UNCHANGED <<entity, detail, version, outbox, deleted>>
  BY DEF CreateRelationship, Return, Idle
<1>5. TypeOK'
  BY <1>3, <1>4, IdleTyped DEF IInv, TypeOK, outbox
<1>6. HoldsSound(Idle)'
  BY <1>4 DEF HoldsSound, WithForm, WithId, Projecting, Steps
<1> QED  BY <1>4, <1>5, <1>6, IdleTyped, RowsChange

\* The two updates of a form, and the deletion, keep latest_version.
LEMMA UpdateEntitySound ==
  ASSUME IInv, NEW a \in Admins, NEW i \in Ids, entity[i] # None,
         NEW f \in Forms, UpdateEntity(a, i, f)
  PROVE  Sound(a)
<1> DEFINE n == [entity[i] EXCEPT !.common = f.common, !.status = "verified"]
<1>1. entity[i] \in Entity /\ f \in FormData /\ "edit" \in AllFlows
  BY DirectoryAssumption DEF DirectoryAssumption, IInv, TypeOK, AllFlows
<1>2. entity' = [entity EXCEPT ![i] = n] /\ UNCHANGED <<detail, rel, version, outbox, deleted>>
  BY DEF UpdateEntity
<1>3. n \in Entity /\ n.latest = entity[i].latest /\ n # None
  BY <1>1, NullTyped DEF Entity, FormData
<1>4. PICK q \in Call : /\ call' = [call EXCEPT ![a] = q]
                        /\ q.at = "updateDetail" /\ q.id = i /\ q.form \in FormData
  <2> DEFINE c == [Idle EXCEPT !.at = "updateDetail", !.flow = "edit", !.id = i, !.form = f]
  <2>1. c \in Call /\ c.at = "updateDetail" /\ c.id = i /\ c.form \in FormData
    BY <1>1, IdleTyped DEF Call, Idle, Steps
  <2>2. call' = [call EXCEPT ![a] = c]
    BY DEF UpdateEntity
  <2> QED  BY <2>1, <2>2
<1> HIDE DEF n
<1>5. /\ entity' \in [Ids -> Entity \cup {None}] /\ entity'[i] = n
      /\ \A j \in Ids \ {i} : entity'[j] = entity[j]
  BY <1>1, <1>2, <1>3 DEF IInv, TypeOK
<1>6. TypeOK'
  BY <1>2, <1>4, <1>5 DEF IInv, TypeOK, outbox
<1>7. \A j \in Ids : IF entity[j] = None
                      THEN entity'[j] # None => entity'[j].latest = 0
                      ELSE entity'[j] # None /\ entity'[j].latest = entity[j].latest
  BY <1>3, <1>5
<1>8. HoldsSound(q)'
  BY <1>3, <1>4, <1>5 DEF HoldsSound, WithForm, WithId, Projecting, Steps
<1> QED  BY <1>2, <1>4, <1>6, <1>7, <1>8, RowsChange

\* An edit of the kind table leaves the history alone.
LEMMA UpdateDetailSound ==
  ASSUME IInv, NEW a \in Admins, UpdateDetail(a)
  PROVE  Sound(a)
<1>1. call[a].at = "updateDetail" /\ call[a].id \in Ids /\ call[a].form \in FormData
  BY DEF UpdateDetail, IInv, TypeOK, CallSound, HoldsSound, WithForm, WithId, Steps
<1>2. call' = [call EXCEPT ![a] = Idle] /\ Idle.at = "idle"
      /\ UNCHANGED <<entity, rel, version, outbox, deleted>>
      /\ detail' \in [Ids -> Details \cup {None}]
  BY <1>1 DEF UpdateDetail, Return, Idle, IInv, TypeOK, FormData
<1>3. TypeOK'
  BY <1>2, IdleTyped DEF IInv, TypeOK, outbox
<1>4. HoldsSound(Idle)'
  BY <1>2 DEF HoldsSound, WithForm, WithId, Projecting, Steps
<1> QED  BY <1>2, <1>3, <1>4, IdleTyped, RowsChange

\* A deletion leaves the history alone.
LEMMA DeactivateSound ==
  ASSUME IInv, NEW a \in Admins, NEW i \in Ids, entity[i] # None, Deactivate(a, i)
  PROVE  Sound(a)
<1> DEFINE n == [entity[i] EXCEPT !.active = FALSE, !.status = "archived"]
<1>0. PICK q \in Call : q = call[a] /\ q.at = "idle"
  BY DEF Deactivate, Begins, IInv, TypeOK
<1>1. entity[i] \in Entity
  BY DEF IInv, TypeOK
<1>2. entity' = [entity EXCEPT ![i] = n] /\ call' = [call EXCEPT ![a] = q]
      /\ UNCHANGED <<detail, rel, version, outbox>> /\ deleted' \subseteq Ids
  BY <1>0 DEF Deactivate, IInv, TypeOK
<1>3. n \in Entity /\ n.latest = entity[i].latest /\ n # None
  BY <1>1, NullTyped DEF Entity
<1> HIDE DEF n
<1>4. /\ entity' \in [Ids -> Entity \cup {None}] /\ entity'[i] = n
      /\ \A j \in Ids \ {i} : entity'[j] = entity[j]
  BY <1>2, <1>3 DEF IInv, TypeOK
<1>5. TypeOK'
  BY <1>1, <1>2, <1>4 DEF IInv, TypeOK, outbox
<1>6. \A j \in Ids : IF entity[j] = None
                      THEN entity'[j] # None => entity'[j].latest = 0
                      ELSE entity'[j] # None /\ entity'[j].latest = entity[j].latest
  BY <1>3, <1>4
<1>7. HoldsSound(q)'
  BY <1>0 DEF HoldsSound, WithForm, WithId, Projecting, Steps
<1> QED  BY <1>2, <1>5, <1>6, <1>7, RowsChange

------------------------------------------------------------------------------
(* Preparing and relaying a registration.                                   *)

\* A call that begins and writes nothing.
LEMMA BeginSound ==
  ASSUME IInv, NEW a \in Admins, NEW q \in Call, call' = [call EXCEPT ![a] = q],
         UNCHANGED <<tables, outbox, deleted>>,
         q.at \in {"link", "fetchDetail", "prepare"}, q.id \in Ids, entity[q.id] # None,
         q.at = "fetchDetail" => q.row \in Entity,
         q.at = "prepare" => q.hash \in Payload
  PROVE  Sound(a)
<1>1. deleted' \subseteq Ids
  BY DEF IInv, TypeOK
<1>2. HoldsSound(q)
  BY DEF HoldsSound, WithForm, WithId, Projecting, Steps
<1> QED  BY <1>1, <1>2, CallMoves

\* What a fetch returned is an entity row.
LEMMA FetchSound ==
  ASSUME IInv, NEW a \in Admins, NEW i \in Ids, FetchEntityWithKind(a, i)
  PROVE  Sound(a)
<1> DEFINE q == [Idle EXCEPT !.at = "fetchDetail", !.flow = "register", !.id = i,
                             !.row = entity[i]]
<1>1. entity[i] # None /\ entity[i] \in Entity
  BY DEF FetchEntityWithKind, Active, Exists, IInv, TypeOK
<1>2. q \in Call /\ q.at = "fetchDetail" /\ q.id = i /\ q.row = entity[i]
  BY <1>1, IdleTyped DEF Call, Idle, Steps, AllFlows
<1>3. call' = [call EXCEPT ![a] = q] /\ UNCHANGED <<tables, outbox, deleted>>
  BY DEF FetchEntityWithKind
<1> HIDE DEF q
<1> QED  BY <1>1, <1>2, <1>3, BeginSound

\* The manager of relationships holds the entity it is opened for.
LEMMA ManagerSound ==
  ASSUME IInv, NEW a \in Admins, RelationshipManager(a)
  PROVE  Sound(a)
<1>1. PICK i \in Ids :
        /\ entity[i] # None
        /\ call' = [call EXCEPT ![a] = [Idle EXCEPT !.at = "link", !.flow = "relate", !.id = i]]
        /\ UNCHANGED <<tables, outbox, deleted>>
  BY DEF RelationshipManager, Exists
<1> DEFINE q == [Idle EXCEPT !.at = "link", !.flow = "relate", !.id = i]
<1>2. q \in Call /\ q.at = "link" /\ q.id = i
  BY IdleTyped DEF Call, Idle, Steps, AllFlows
<1> HIDE DEF q
<1>3. call' = [call EXCEPT ![a] = q]
  BY <1>1 DEF q
<1> QED  BY <1>1, <1>2, <1>3, BeginSound

\* A payload made of typed rows is a payload.
LEMMA PayloadTyped ==
  ASSUME NEW shape \in {"entity", "organization"}, NEW e \in Entity, NEW d \in Details
  PROVE  PayloadOf(shape, e, d) \in Payload
BY DEF PayloadOf, Payload, Entity

\* A payload is built from rows that were read: one by one,
LEMMA BuildSound ==
  ASSUME IInv, NEW a \in Admins, BuildPayload(a)
  PROVE  Sound(a)
<1> DEFINE i == call[a].id
           h == PayloadOf("entity", call[a].row, detail[i])
           c == [call[a] EXCEPT !.at = "prepare", !.row = None, !.hash = h]
<1>1. UNCHANGED <<tables, outbox>> /\ deleted' \subseteq Ids
  BY DEF BuildPayload, IInv, TypeOK
<1>2. /\ call[a] \in Call /\ i \in Ids /\ entity[i] # None /\ call[a].row \in Entity
  BY DEF BuildPayload, IInv, TypeOK, CallSound, HoldsSound, WithId, Steps
<1>3. CASE Return(a)
  BY <1>1, <1>3, ReturnSound
<1>4. CASE ~ Return(a)
  <2>1. detail[i] \in Details /\ call' = [call EXCEPT ![a] = c]
    BY <1>2, <1>4 DEF BuildPayload, IInv, TypeOK
  <2>2. h \in Payload
    BY <1>2, <2>1, PayloadTyped
  <2> HIDE DEF h
  <2>3. c \in Call /\ c.at = "prepare" /\ c.id = i /\ c.hash = h
    BY <1>2, <2>2 DEF Call, Steps
  <2> HIDE DEF c
  <2>4. HoldsSound(c)
    BY <1>2, <2>2, <2>3 DEF HoldsSound, WithForm, WithId, Projecting, Steps
  <2> QED  BY <1>1, <2>1, <2>3, <2>4, CallMoves
<1> QED  BY <1>3, <1>4

\* or both at once.
LEMMA BuildOrganizationSound ==
  ASSUME IInv, NEW a \in Admins, NEW i \in Ids, BuildOrganizationPayload(a, i)
  PROVE  Sound(a)
<1> DEFINE h == PayloadOf("organization", entity[i], detail[i])
           q == [Idle EXCEPT !.at = "prepare", !.flow = "register", !.id = i, !.hash = h]
<1>1. entity[i] # None /\ entity[i] \in Entity /\ detail[i] \in Details
  BY DEF BuildOrganizationPayload, ListOrganizations, Rows, Joined, Exists, IInv, TypeOK
<1>2. h \in Payload
  BY <1>1, PayloadTyped
<1>3. call' = [call EXCEPT ![a] = q] /\ UNCHANGED <<tables, outbox, deleted>>
  BY DEF BuildOrganizationPayload
<1> HIDE DEF h
<1>4. q \in Call /\ q.at = "prepare" /\ q.id = i /\ q.hash = h
  BY <1>2, IdleTyped DEF Call, Idle, Steps, AllFlows
<1> HIDE DEF q
<1> QED  BY <1>1, <1>2, <1>3, <1>4, BeginSound

\* A version was confirmed, so its intent was fixed long ago.
LEMMA HistoryStays ==
  ASSUME TypeOK, OutboxSound, AnchoredHistory, Grows, UNCHANGED tables
  PROVE  AnchoredHistory'
BY DEF TypeOK, OutboxSound, AnchoredHistory, Grows, Exists, tables

\* What a step must show when it changes the outbox and no table.
LEMMA OutboxChange ==
  ASSUME IInv, UNCHANGED tables, TypeOK', Grows, OutboxSound',
         NEW a \in Admins, NEW q \in Call, call' = [call EXCEPT ![a] = q], HoldsSound(q)'
  PROVE  Sound(a)
<1>1. AnchoredHistory'
  BY HistoryStays DEF IInv
<1>2. call'[a] = q /\ \A b \in Admins \ {a} : call'[b] = call[b]
  BY DEF IInv, TypeOK
<1> QED  BY <1>1, <1>2 DEF Sound, CallSound

\* A registration is offered with the payload of its call, once.
LEMMA PrepareRegisterSound ==
  ASSUME IInv, NEW a \in Admins, PrepareRegister(a)
  PROVE  Sound(a)
<1> DEFINE i == call[a].id
           c == [call[a] EXCEPT !.at = "post", !.hash = None]
<1>1. /\ call[a] \in Call /\ call[a].at = "prepare" /\ i \in Ids /\ entity[i] # None
      /\ call[a].hash \in Payload
  BY DEF PrepareRegister, IInv, TypeOK, CallSound, HoldsSound, WithId, Steps
<1>2. UNCHANGED tables /\ deleted' = deleted /\ deleted' \subseteq Ids
  BY DEF PrepareRegister, IInv, TypeOK
<1>3. c \in Call /\ c.at = "post" /\ c.id = i
  BY <1>1 DEF Call, Steps
<1>4. CASE offer[i] # "absent"
  <2>1. UNCHANGED <<tables, outbox>>
    BY <1>2, <1>4 DEF PrepareRegister
  <2>2. CASE Return(a)
    BY <1>2, <2>1, <2>2, ReturnSound
  <2>3. CASE ~ Return(a)
    <3>1. call' = [call EXCEPT ![a] = c]
      BY <1>4, <2>3 DEF PrepareRegister
    <3>2. HoldsSound(c)
      BY <1>1, <1>3, <1>4 DEF HoldsSound, WithForm, WithId, Projecting, Steps
    <3> HIDE DEF c
    <3> QED  BY <1>2, <1>3, <2>1, <3>1, <3>2, CallMoves
  <2> QED  BY <2>2, <2>3
<1>5. CASE offer[i] = "absent"
  <2>1. /\ intent' = [intent EXCEPT ![i] = call[a].hash] /\ effect' = effect
        /\ \E o \in {"open", "refused"} : offer' = [offer EXCEPT ![i] = o]
        /\ verdict' = verdict \/ verdict' = [verdict EXCEPT ![i] = "failed_terminal"]
    BY <1>5 DEF PrepareRegister, Outbox!Save
  <2>2. PICK q \in Call : /\ call' = [call EXCEPT ![a] = q]
                          /\ (q.at = "post" /\ q.id = i) \/ q.at = "idle"
    <3>1. CASE Return(a)
      BY <3>1, IdleTyped DEF Return, Idle
    <3>2. CASE ~ Return(a)
      <4>1. call' = [call EXCEPT ![a] = c]
        BY <1>5, <3>2 DEF PrepareRegister
      <4> QED  BY <1>3, <4>1
    <3> QED  BY <3>1, <3>2
  <2>3. TypeOK'
    BY <1>1, <1>2, <2>1, <2>2 DEF IInv, TypeOK, tables
  <2>4. Grows
    BY <1>1, <1>2, <1>5, <2>1 DEF IInv, TypeOK, Entity, Grows, tables
  <2>5. OutboxSound'
    BY <1>1, <1>5, <2>1 DEF IInv, TypeOK, OutboxSound
  <2>6. offer'[i] # "absent"
    BY <1>1, <2>1 DEF IInv, TypeOK
  <2>7. HoldsSound(q)'
    BY <1>1, <1>2, <2>2, <2>6 DEF HoldsSound, WithForm, WithId, Projecting, Steps, tables
  <2> QED  BY <1>2, <2>2, <2>3, <2>4, <2>5, <2>7, OutboxChange
<1> QED  BY <1>4, <1>5

\* A posted registration was offered.
LEMMA PostSound ==
  ASSUME IInv, NEW a \in Admins, Post(a)
  PROVE  Sound(a)
<1>1. UNCHANGED <<tables, outbox>> /\ deleted' \subseteq Ids
  BY DEF Post, IInv, TypeOK
<1>2. /\ call[a] \in Call /\ call[a].at = "post"
      /\ call[a].id \in Ids /\ entity[call[a].id] # None /\ offer[call[a].id] # "absent"
  BY DEF Post, IInv, TypeOK, CallSound, HoldsSound, WithId, Steps
<1>3. HoldsSound([call[a] EXCEPT !.at = "relay"])
  BY <1>2 DEF HoldsSound, Call, WithForm, WithId, Projecting, Steps
<1> QED  BY <1>1, <1>3, GoToSound, ReturnSound DEF Post, Steps

\* A relayed registration keeps its intent.
LEMMA RelaySound ==
  ASSUME IInv, NEW a \in Admins, Relay(a)
  PROVE  Sound(a)
<1> DEFINE c == [call[a] EXCEPT !.at = "poll"]
<1>1. /\ call[a] \in Call /\ call[a].at = "relay"
      /\ call[a].id \in Ids /\ entity[call[a].id] # None
  BY DEF Relay, IInv, TypeOK, CallSound, HoldsSound, WithId, Steps
<1>2. UNCHANGED <<tables, intent, verdict, effect, deleted>>
      /\ offer' = [offer EXCEPT ![call[a].id] = "signed"]
  BY DEF Relay
<1>3. PICK q \in Call : call' = [call EXCEPT ![a] = q] /\ q.at = "poll" /\ q.id = call[a].id
  <2>1. c \in Call /\ c.at = "poll" /\ c.id = call[a].id
    BY <1>1 DEF Call, Steps
  <2>2. call' = [call EXCEPT ![a] = c]
    BY DEF Relay, GoTo
  <2> QED  BY <2>1, <2>2
<1>4. TypeOK'
  BY <1>1, <1>2, <1>3 DEF IInv, TypeOK, tables
<1>5. HoldsSound(q)'
  <2>1. offer'[call[a].id] = "signed"
    BY <1>1, <1>2 DEF IInv, TypeOK
  <2> QED  BY <1>1, <1>2, <1>3, <2>1 DEF HoldsSound, WithForm, WithId, Projecting, Steps, tables
<1>6. Grows
  BY <1>1, <1>2 DEF IInv, TypeOK, Entity, Grows, tables
<1>7. OutboxSound'
  <2>1. offer[call[a].id] # "absent"
    BY <1>1 DEF IInv, CallSound, HoldsSound
  <2> QED  BY <1>1, <1>2, <2>1 DEF IInv, TypeOK, OutboxSound
<1> QED  BY <1>2, <1>3, <1>4, <1>5, <1>6, <1>7, OutboxChange

\* Only a confirmed registration is projected.
LEMMA PollSound ==
  ASSUME IInv, NEW a \in Admins, Poll(a)
  PROVE  Sound(a)
<1> DEFINE i == call[a].id
           c == [call[a] EXCEPT !.at = "readRecord"]
<1>1. /\ call[a] \in Call /\ call[a].at = "poll" /\ i \in Ids /\ entity[i] # None
      /\ offer[i] # "absent"
  BY DEF Poll, IInv, TypeOK, CallSound, HoldsSound, WithId, Steps
<1>2. UNCHANGED <<tables, offer, intent, deleted>> /\ effect' = effect
      /\ \E v \in Outbox!Verdicts :
           /\ verdict' = [verdict EXCEPT ![i] = v]
           /\ v = "confirmed" => effect[i] = "success"
  BY DEF Poll, Outbox!Save
<1>3. PICK q \in Call :
        /\ call' = [call EXCEPT ![a] = q]
        /\ \/ q.at = "readRecord" /\ q.id = i /\ effect[i] = "success"
           \/ q.at = "idle"
  <2>1. CASE Return(a)
    BY <2>1, IdleTyped DEF Return, Idle
  <2>2. CASE ~ Return(a)
    <3>1. call' = [call EXCEPT ![a] = c]
      BY <2>2 DEF Poll, GoTo
    <3>2. c \in Call /\ c.at = "readRecord" /\ c.id = i
      BY <1>1 DEF Call, Steps
    <3>3. effect[i] = "success"
      BY <1>1, <2>2 DEF Poll, Outbox!Save
    <3> QED  BY <3>1, <3>2, <3>3
  <2> QED  BY <2>1, <2>2
<1>4. TypeOK'
  BY <1>1, <1>2, <1>3 DEF IInv, TypeOK, Outbox!Verdicts, tables
<1>5. Grows /\ OutboxSound'
  BY <1>1, <1>2 DEF IInv, TypeOK, Entity, Grows, OutboxSound, tables
<1>6. HoldsSound(q)'
  BY <1>1, <1>2, <1>3 DEF HoldsSound, WithForm, WithId, Projecting, Steps, tables
<1> QED  BY <1>2, <1>3, <1>4, <1>5, <1>6, OutboxChange

------------------------------------------------------------------------------
(* Projecting it.                                                           *)

\* The copy that is read is not ahead of the table.
LEMMA ReadRecordSound ==
  ASSUME IInv, NEW a \in Admins, ReadRecord(a)
  PROVE  Sound(a)
<1> DEFINE i == call[a].id
           r == [active |-> entity[i].active, latest |-> entity[i].latest, versions |-> {}]
           q == [call[a] EXCEPT !.at = "readVersions", !.record = r]
<1>1. /\ call[a] \in Call /\ call[a].at = "readRecord" /\ i \in Ids /\ entity[i] # None
      /\ entity[i] \in Entity /\ effect[i] = "success"
  BY DEF ReadRecord, IInv, TypeOK, CallSound, HoldsSound, WithId, Projecting, Steps
<1>2. r \in Record /\ r.latest = entity[i].latest /\ entity[i].latest \in Nat
  BY <1>1 DEF Entity, Record
<1>3. UNCHANGED <<tables, outbox>> /\ deleted' \subseteq Ids /\ call' = [call EXCEPT ![a] = q]
  BY DEF ReadRecord, IInv, TypeOK
<1> HIDE DEF r
<1>4. q \in Call /\ q.at = "readVersions" /\ q.id = i /\ q.record = r
  BY <1>1, <1>2 DEF Call, Steps
<1> HIDE DEF q
<1>5. HoldsSound(q)
  BY <1>1, <1>2, <1>4 DEF HoldsSound, WithForm, WithId, Projecting, Steps
<1> QED  BY <1>3, <1>4, <1>5, CallMoves

\* The copy of a row that is not newer than its versions is, with its next
\* version, a sound record.
LEMMA AppendSound ==
  ASSUME IInv, NEW i \in Ids, entity[i] # None, effect[i] = "success",
         NEW r \in Record, r.latest <= entity[i].latest
  PROVE  /\ AppendVersion(r, version[i], intent[i]) \in Record
         /\ RecordSound(AppendVersion(r, version[i], intent[i]), i)
<1> DEFINE u == [n |-> r.latest + 1, hash |-> intent[i]]
           s == AppendVersion(r, version[i], intent[i])
<1>1. r.latest \in Nat /\ entity[i].latest \in Nat /\ intent[i] \in Payload
  BY DEF IInv, TypeOK, OutboxSound, Entity, Record
<1>2. u \in Version /\ u.n = r.latest + 1 /\ u.hash = intent[i]
  BY <1>1 DEF Version
<1> HIDE DEF u
<1>3. s.latest = r.latest + 1 /\ s.versions = version[i] \cup {u} /\ s.active = r.active
  BY DEF AppendVersion, Record, u
<1>4. s \in Record
  <2>1. version[i] \cup {u} \in SUBSET Version
    BY <1>2 DEF IInv, TypeOK
  <2>2. s = [r EXCEPT !.latest = @ + 1, !.versions = version[i] \cup {u}]
    BY DEF AppendVersion, u
  <2>3. \A n \in Nat, W \in SUBSET Version : [r EXCEPT !.latest = n, !.versions = W] \in Record
    BY DEF Record
  <2>4. r.latest + 1 \in Nat /\ s = [r EXCEPT !.latest = r.latest + 1, !.versions = version[i] \cup {u}]
    BY <1>1, <2>2
  <2> HIDE DEF s
  <2> QED  BY <2>1, <2>3, <2>4
<1>5. \A v \in version[i] : v.n \in 1 .. entity[i].latest /\ v.hash = intent[i]
  BY DEF IInv, AnchoredHistory, Exists
<1> HIDE DEF s
<1>6. RecordSound(s, i)
  BY <1>1, <1>2, <1>3, <1>5 DEF RecordSound
<1> QED  BY <1>4, <1>6 DEF s

\* The copy gets one version more, with the hash of the intent.
LEMMA ReadVersionsSound ==
  ASSUME IInv, NEW a \in Admins, ReadVersions(a)
  PROVE  Sound(a)
<1> DEFINE i == call[a].id
           s == AppendVersion(call[a].record, version[i], intent[i])
           q == [call[a] EXCEPT !.at = "saveRecord", !.record = s]
<1>1. /\ call[a] \in Call /\ call[a].at = "readVersions" /\ i \in Ids /\ entity[i] # None
      /\ effect[i] = "success" /\ call[a].record \in Record
      /\ call[a].record.latest <= entity[i].latest
  BY DEF ReadVersions, IInv, TypeOK, CallSound, HoldsSound, WithId, Projecting, Steps
<1>2. s \in Record /\ RecordSound(s, i)
  BY <1>1, AppendSound
<1>3. UNCHANGED <<tables, outbox>> /\ deleted' \subseteq Ids /\ call' = [call EXCEPT ![a] = q]
  BY DEF ReadVersions, IInv, TypeOK
<1> HIDE DEF s
<1>4. q \in Call /\ q.at = "saveRecord" /\ q.id = i /\ q.record = s
  BY <1>1, <1>2 DEF Call, Steps
<1> HIDE DEF q
<1>5. HoldsSound(q)
  BY <1>1, <1>2, <1>4 DEF HoldsSound, WithForm, WithId, Projecting, Steps
<1> QED  BY <1>3, <1>4, <1>5, CallMoves

\* Two relays may project one registration: the slower record is either as
\* new as the row, and adds nothing, or one version ahead of it.
LEMMA SaveRecordSound ==
  ASSUME IInv, NEW a \in Admins, SaveEntityRecord(a)
  PROVE  Sound(a)
<1> DEFINE i == call[a].id
           r == call[a].record
           e == [entity[i] EXCEPT !.active = r.active, !.latest = r.latest]
           w == version[i] \cup {v \in r.versions : \A u \in version[i] : u.n # v.n}
<1>1. /\ call[a].at = "saveRecord" /\ i \in Ids /\ entity[i] # None /\ entity[i] \in Entity
      /\ effect[i] = "success" /\ r \in Record /\ RecordSound(r, i)
  BY DEF SaveEntityRecord, IInv, TypeOK, CallSound, HoldsSound, WithId, Projecting, Steps
<1>2. Return(a) /\ UNCHANGED <<detail, rel, outbox, deleted>> /\ deleted' \subseteq Ids
  BY DEF SaveEntityRecord, IInv, TypeOK
<1>3. CASE ~ MayAdvance(i, r)
  BY <1>2, <1>3, ReturnSound DEF SaveEntityRecord, tables
<1>4. CASE MayAdvance(i, r)
  <2>1. entity' = [entity EXCEPT ![i] = e] /\ version' = [version EXCEPT ![i] = w]
        /\ call' = [call EXCEPT ![a] = Idle] /\ Idle.at = "idle"
    BY <1>2, <1>4 DEF SaveEntityRecord, Return, Idle
  <2>2. e \in Entity /\ e.latest = r.latest /\ e # None
    BY <1>1, NullTyped DEF Entity, Record
  <2>3. version[i] \in SUBSET Version /\ r.versions \in SUBSET Version
        /\ entity[i].latest \in Nat /\ r.latest \in Nat /\ entity[i].latest <= r.latest
    BY <1>1, <1>4 DEF IInv, TypeOK, Record, Entity, MayAdvance
  <2>4. \A v \in Version : v.n \in Nat \ {0}
    BY DEF Version
  <2>5. {v.n : v \in version[i]} = 1 .. entity[i].latest /\ \A v \in version[i] : v.hash = intent[i]
    BY <1>1 DEF IInv, AnchoredHistory, Exists
  <2>6. w \in SUBSET Version /\ \A v \in w : v.hash = intent[i]
    BY <1>1, <2>3, <2>5 DEF RecordSound
  <2>7. {v.n : v \in w} = 1 .. r.latest
    <3>1. r.latest = entity[i].latest \/ r.latest = entity[i].latest + 1
      BY <1>1, <2>3 DEF RecordSound
    <3>2. \A v \in w : v.n \in 1 .. r.latest
      BY <1>1, <2>3, <2>4, <2>5 DEF RecordSound
    <3>3. ASSUME NEW k \in 1 .. r.latest  PROVE \E v \in w : v.n = k
      <4>1. CASE k \in 1 .. entity[i].latest
        BY <2>5, <4>1
      <4>2. CASE k = r.latest /\ k = entity[i].latest + 1
        <5>1. PICK v \in r.versions : v.n = k
          BY <1>1, <4>2 DEF RecordSound
        <5>2. \A u \in version[i] : u.n # k
          BY <2>3, <2>5, <4>2
        <5> QED  BY <5>1, <5>2
      <4> QED  BY <2>3, <3>1, <3>3, <4>1, <4>2
    <3> QED  BY <3>2, <3>3
  <2> HIDE DEF e, w
  <2>8. /\ entity' \in [Ids -> Entity \cup {None}] /\ entity'[i] = e
        /\ version' \in [Ids -> SUBSET Version] /\ version'[i] = w
        /\ \A j \in Ids \ {i} : entity'[j] = entity[j] /\ version'[j] = version[j]
    BY <1>1, <2>1, <2>2, <2>6 DEF IInv, TypeOK
  <2>9. TypeOK'
    BY <1>2, <2>1, <2>8, IdleTyped DEF IInv, TypeOK, outbox
  <2>10. Grows
    BY <1>1, <1>2, <2>2, <2>3, <2>8 DEF IInv, TypeOK, Entity, Grows, outbox
  <2>11. OutboxSound'
    BY <1>2 DEF IInv, OutboxSound, outbox
  <2>12. AnchoredHistory'
    <3> SUFFICES ASSUME NEW j \in Ids
        PROVE /\ {v.n : v \in version'[j]} = 1 .. (IF entity'[j] # None THEN entity'[j].latest ELSE 0)
              /\ \A v \in version'[j] : effect'[j] = "success" /\ v.hash = intent'[j]
      BY DEF AnchoredHistory, Exists
    <3>1. CASE j = i
      BY <1>1, <1>2, <2>2, <2>6, <2>7, <2>8, <3>1 DEF outbox
    <3>2. CASE j # i
      BY <1>2, <2>8, <3>2 DEF IInv, AnchoredHistory, Exists, outbox
    <3> QED  BY <3>1, <3>2
  <2>13. CallSound(a)' /\ \A b \in Admins \ {a} : call'[b] = call[b]
    <3>1. call'[a] = Idle /\ \A b \in Admins \ {a} : call'[b] = call[b]
      BY <2>1 DEF IInv, TypeOK
    <3> QED  BY <2>1, <3>1 DEF CallSound, HoldsSound, WithForm, WithId, Projecting, Steps
  <2> QED  BY <2>9, <2>10, <2>11, <2>12, <2>13 DEF Sound
<1> QED  BY <1>3, <1>4

------------------------------------------------------------------------------
(* The invariant.                                                           *)

\* Effects, and saves that no administrator waits for.
LEMMA OutboxStepSound ==
  ASSUME IInv, OutboxStep
  PROVE  TypeOK' /\ Grows /\ OutboxSound' /\ AnchoredHistory' /\ call' = call
<1>1. PICK i \in Ids : LedgerActs(i) \/ OutboxSaves(i)
  BY DEF OutboxStep
<1>2. /\ UNCHANGED <<tables, offer, intent, deleted, call>> /\ offer[i] = "signed"
      /\ \/ /\ effect[i] = "none" /\ verdict' = verdict
            /\ \E o \in {"success", "failed"} : effect' = [effect EXCEPT ![i] = o]
         \/ /\ effect' = effect
            /\ \E v \in Outbox!Verdicts :
                 /\ verdict' = [verdict EXCEPT ![i] = v]
                 /\ v = "confirmed" => effect[i] = "success"
  BY <1>1 DEF LedgerActs, OutboxSaves, Outbox!TakeEffect, Outbox!Save
<1>3. TypeOK'
  BY <1>2 DEF IInv, TypeOK, Outbox!Verdicts, tables
<1>4. Grows /\ OutboxSound'
  BY <1>2 DEF IInv, TypeOK, Entity, Grows, OutboxSound, tables
<1>5. AnchoredHistory'
  BY <1>2, <1>4, HistoryStays DEF IInv
<1> QED  BY <1>2, <1>3, <1>4, <1>5

\* Every step of an administrator keeps the invariant.
LEMMA AdminStepSound ==
  ASSUME IInv, NEW a \in Admins, AdminStep(a)
  PROVE  Sound(a)
<1>1. FormKinds = {"person", "organization", "provider"}
      /\ "add" \in AllFlows /\ "addToEvent" \in AllFlows
  BY DEF FormKinds, AllFlows
<1>2. \A k : \A i \in Rows(k) : i \in Ids /\ entity[i] # None
  BY DEF Rows, Joined, Exists
<1>3. ASSUME NEW flow \in AllFlows, NEW k \in FormKinds, CreateRow(a, flow, k)
      PROVE  Sound(a)
  BY <1>3, InsertEntitySound, InsertDetailSound DEF CreateRow
<1>4. ASSUME NEW k, UpdateRow(a, k)  PROVE Sound(a)
  BY <1>2, <1>4, UpdateEntitySound, UpdateDetailSound DEF UpdateRow
<1>5. ASSUME NEW k, NEW i \in Rows(k), Deactivate(a, i)  PROVE Sound(a)
  BY <1>2, <1>5, DeactivateSound
<1>6. ASSUME NEW S \in SUBSET Ids, PrepareEntityForStellar(a, S)  PROVE Sound(a)
  BY <1>6, FetchSound DEF PrepareEntityForStellar
<1>7. ASSUME NEW k, PrepareEntityForStellar(a, Rows(k))  PROVE Sound(a)
  <2>1. Rows(k) \in SUBSET Ids
    BY <1>2
  <2> QED  BY <1>6, <1>7, <2>1
<1>8. CASE PersonasPage(a) \/ ProveedoresPage(a)
  BY <1>1, <1>3, <1>4, <1>5, <1>7, <1>8
  DEF PersonasPage, ProveedoresPage, CreatePerson, CreateProvider, UpdatePerson,
      UpdateProvider, DeletePerson, DeleteProvider
<1>9. CASE OrganizacionesPage(a)
  <2>1. CASE PrepareOrganizationForStellar(a, Rows("organization"))
    BY <1>2, <2>1, BuildOrganizationSound DEF PrepareOrganizationForStellar
  <2> QED
    BY <1>1, <1>3, <1>4, <1>5, <1>9, <2>1
    DEF OrganizacionesPage, CreateOrganization, UpdateOrganization, DeleteOrganization
<1>10. CASE EventoPage(a)
  <2>1. CASE AddToEvent(a)
    BY <1>1, <1>3, <2>1 DEF AddToEvent, CreatePerson, CreateOrganization, CreateProvider
  <2>2. CASE RegisterPending(a)
    BY <1>6, <2>2 DEF RegisterPending
  <2> QED  BY <1>10, <2>1, <2>2 DEF EventoPage
<1>11. CASE RelationshipManager(a) \/ CreateRelationship(a)
  BY <1>11, ManagerSound, CreateRelationshipSound
<1>12. CASE BuildPayload(a) \/ PrepareRegister(a)
  BY <1>12, BuildSound, PrepareRegisterSound
<1>13. CASE Post(a) \/ Relay(a) \/ Poll(a)
  BY <1>13, PostSound, RelaySound, PollSound
<1>14. CASE ProjectRegistration(a)
  BY <1>14, ReadRecordSound, ReadVersionsSound, SaveRecordSound DEF ProjectRegistration
<1>15. CASE Abort(a)
  BY <1>15, ReturnSound DEF Abort, IInv, TypeOK
<1> QED
  BY <1>8, <1>9, <1>10, <1>11, <1>12, <1>13, <1>14, <1>15 DEF AdminStep

\* The imported entities have no history.
LEMMA InitSound == Init => IInv
<1> SUFFICES ASSUME Init PROVE IInv
  OBVIOUS
<1>1. PICK f \in Forms, slugOf \in [DOMAIN Imported -> Slugs] :
        /\ entity = [i \in Ids |-> IF i \in DOMAIN Imported
             THEN NewEntity(Imported[i], [f.common EXCEPT !.slug = slugOf[i]]) ELSE None]
        /\ detail = [i \in Ids |-> IF i \in DOMAIN Imported THEN f.detail ELSE None]
  BY DEF Init
<1>2. f \in FormData
  BY DirectoryAssumption DEF DirectoryAssumption
<1>3. \A i \in DOMAIN Imported :
        LET n == NewEntity(Imported[i], [f.common EXCEPT !.slug = slugOf[i]])
        IN n \in Entity /\ n.latest = 0
  <2> TAKE i \in DOMAIN Imported
  <2>1. [f.common EXCEPT !.slug = slugOf[i]] \in Common /\ Imported[i] \in Kinds
    BY <1>2, DirectoryAssumption DEF DirectoryAssumption, FormData, Common
  <2> QED  BY <2>1 DEF NewEntity, Entity
<1>4. entity \in [Ids -> Entity \cup {None}]
      /\ \A i \in Ids : entity[i] # None => entity[i].latest = 0
  BY <1>1, <1>3
<1>5. detail \in [Ids -> Details \cup {None}]
  BY <1>1, <1>2 DEF FormData
<1>6. rel \subseteq Ids \X Ids
  <2>1. rel = {r \in (DOMAIN Imported) \X (DOMAIN Imported) :
                 Imported[r[1]] # "event" /\ Imported[r[2]] = "event"}
    BY DEF Init
  <2> QED  BY <2>1, DirectoryAssumption DEF DirectoryAssumption
<1>7. /\ version = [i \in Ids |-> {}] /\ offer = [i \in Ids |-> "absent"]
      /\ intent = [i \in Ids |-> None] /\ deleted = {} /\ call = [a \in Admins |-> Idle]
      /\ verdict = [i \in Ids |-> "open"] /\ effect = [i \in Ids |-> "none"]
  BY DEF Init, Outbox!Init
<1>8. TypeOK
  BY <1>4, <1>5, <1>6, <1>7, IdleTyped DEF TypeOK
<1>9. OutboxSound
  BY <1>7 DEF OutboxSound
<1>10. AnchoredHistory
  <2>1. \A i \in Ids : (IF Exists(i) THEN entity[i].latest ELSE 0) = 0 /\ version[i] = {}
    BY <1>4, <1>7 DEF Exists
  <2>2. 1 .. 0 = {} /\ {v.n : v \in {}} = {}
    OBVIOUS
  <2> QED  BY <2>1, <2>2 DEF AnchoredHistory
<1>11. \A a \in Admins : CallSound(a)
  BY <1>7 DEF CallSound, HoldsSound, Idle, WithForm, WithId, Projecting, Steps
<1> QED  BY <1>8, <1>9, <1>10, <1>11 DEF IInv

\* Every step keeps the invariant.
LEMMA StepSound == IInv /\ [Next]_vars => IInv'
<1> SUFFICES ASSUME IInv, [Next]_vars PROVE IInv'
  OBVIOUS
<1>1. CASE \E a \in Admins : AdminStep(a)
  <2>1. PICK a \in Admins : AdminStep(a)
    BY <1>1
  <2>2. Sound(a)
    BY <2>1, AdminStepSound
  <2>3. \A b \in Admins \ {a} : CallSound(b)'
    BY <2>2, CallKeeps DEF Sound, IInv
  <2> QED  BY <2>2, <2>3 DEF Sound, IInv
<1>2. CASE OutboxStep
  <2>1. TypeOK' /\ Grows /\ OutboxSound' /\ AnchoredHistory' /\ call' = call
    BY <1>2, OutboxStepSound
  <2>2. \A b \in Admins : CallSound(b)'
    BY <2>1, CallKeeps DEF IInv
  <2> QED  BY <2>1, <2>2 DEF IInv
<1>3. CASE UNCHANGED vars
  BY <1>3 DEF vars, tables, outbox, IInv, TypeOK, OutboxSound, AnchoredHistory, Exists,
              CallSound, HoldsSound, RecordSound
<1> QED  BY <1>1, <1>2, <1>3 DEF Next

\* The invariant holds for ever.
LEMMA Invariance == Spec => []IInv
<1> QED  BY InitSound, StepSound, PTL DEF Spec

------------------------------------------------------------------------------
(* Theorems.                                                                *)

\* Every row, copy and call keeps its shape, whatever the actions of several
\* administrators interleave to (the tables of the migrations).
THEOREM TypeCorrect == Spec => []TypeOK
<1>1. IInv => TypeOK
  BY DEF IInv
<1> QED  BY Invariance, <1>1, PTL

\* However many relays project one registration, the versions of an entity
\* are numbered without gaps and carry the hash that was confirmed
\* (saveEntityRecord).
THEOREM HistoryAnchored == Spec => []AnchoredHistory
<1>1. IInv => AnchoredHistory
  BY DEF IInv
<1> QED  BY Invariance, <1>1, PTL

\* An entity that a page calls registered has an effect on the ledger.
LEMMA RegisteredSound ==
  ASSUME IInv, NEW i \in Ids, DeriveStellarStatus(Phase(i)) = "registered"
  PROVE  effect[i] = "success"
<1>1. /\ offer[i] \in {"absent", "open", "signed", "refused"}
      /\ verdict[i] \in {"open", "confirmed", "failed_terminal"}
  BY DEF IInv, TypeOK
<1>2. Phase(i) \in {None, "awaiting_signature", "failed_terminal", "submitted", "confirmed"}
  BY <1>1 DEF Phase
<1>3. Phase(i) = "confirmed"
  BY <1>2 DEF DeriveStellarStatus
<1>4. verdict[i] = "confirmed"
  BY <1>1, <1>3, DirectoryAssumption DEF Phase
<1> QED  BY <1>4 DEF IInv, OutboxSound

\* Whatever a page shows is the view of an active entity.
LEMMA ShownAreViews ==
  ASSUME NEW v \in Shown
  PROVE  \E i \in Ids : Active(i) /\ v = EntityView(i)
<1>1. \A u \in GetPublicEntities : \E i \in Ids : Active(i) /\ u = EntityView(i)
  BY DEF GetPublicEntities
<1>2. \A k, s : /\ \A i \in BySlug(k, s) : i \in Ids /\ Active(i)
                /\ \A i \in PublicRows(k) : i \in Ids /\ Active(i)
  BY DEF BySlug, PublicRows
<1> DEFINE IsView(u) == \E i \in Ids : Active(i) /\ u.entity = EntityView(i)
<1>3. \A i \in Ids : PublicView(i).entity = EntityView(i)
  BY DEF PublicView
<1>4. \A s : /\ \A u \in GetPublicPersonByEntitySlug(s) : IsView(u)
             /\ \A u \in GetPublicOrganizationByEntitySlug(s) : IsView(u)
             /\ \A u \in GetPublicProviderByEntitySlug(s) : IsView(u)
             /\ \A u \in GetPublicEventBySlug(s) : IsView(u)
  BY <1>2, <1>3 DEF GetPublicPersonByEntitySlug, GetPublicOrganizationByEntitySlug,
       GetPublicProviderByEntitySlug, GetPublicEventBySlug, PersonView, OrganizationView,
       ProviderView, EventView
<1>5. \A i : /\ \A u \in GetPublicPersonByEntityId(i) : IsView(u)
             /\ \A u \in GetPublicOrganizationByEntityId(i) : IsView(u)
             /\ \A u \in GetPublicProviderByEntityId(i) : IsView(u)
  BY <1>2, <1>3 DEF GetPublicPersonByEntityId, GetPublicOrganizationByEntityId,
       GetPublicProviderByEntityId, PersonView, OrganizationView, ProviderView
<1> DEFINE Honest(p) == \A u \in p.profile \cup p.linked : IsView(u)
<1>6. \A s : Honest(PassportPage(s))
  BY <1>4, <1>5 DEF PassportPage
<1>7. \A s : Honest(OrganizationPage(s))
  BY <1>4, <1>5 DEF OrganizationPage
<1>8. \A s : Honest(ProviderPage(s))
  BY <1>4 DEF ProviderPage
<1>9. \A s : Honest(EventPage(s))
  BY <1>4, <1>5 DEF EventPage
<1> HIDE DEF Honest, IsView
<1>10. CASE v \in HomePage
  BY <1>1, <1>10 DEF HomePage
<1>11. CASE v \notin HomePage
  <2>0. PICK s \in Slugs :
          \E p \in {PassportPage(s), OrganizationPage(s), ProviderPage(s), EventPage(s)} :
            \E u \in p.profile \cup p.linked : v = u.entity
    BY <1>11 DEF Shown
  <2>1. PICK p \in {PassportPage(s), OrganizationPage(s), ProviderPage(s), EventPage(s)} :
          \E u \in p.profile \cup p.linked : v = u.entity
    BY <2>0
  <2>2. Honest(p)
    BY <1>6, <1>7, <1>8, <1>9
  <2>3. PICK u \in p.profile \cup p.linked : v = u.entity
    BY <2>1
  <2>4. IsView(u)
    BY <2>2 DEF Honest
  <2> QED  BY <2>3, <2>4 DEF IsView
<1> QED  BY <1>10, <1>11

\* The dashboard counts only entities the registry holds.
LEMMA CountSound ==
  ASSUME IInv
  PROVE  DashboardStats.registered <= Cardinality({i \in Ids : effect[i] = "success"})
<1> DEFINE R == {i \in Ids : Phase(i) = "confirmed"}
           E == {i \in Ids : effect[i] = "success"}
<1>1. ASSUME NEW i \in Ids, Phase(i) = "confirmed"
      PROVE  effect[i] = "success"
  <2>1. /\ offer[i] \in {"absent", "open", "signed", "refused"}
        /\ verdict[i] \in {"open", "confirmed", "failed_terminal"}
    BY DEF IInv, TypeOK
  <2>2. verdict[i] = "confirmed"
    BY <1>1, <2>1, DirectoryAssumption DEF Phase
  <2> QED  BY <2>2 DEF IInv, OutboxSound
<1>2. R \subseteq E /\ E \subseteq Ids
  BY <1>1
<1>3. IsFiniteSet(E)
  BY <1>2, FS_Subset, DirectoryAssumption
<1>4. Cardinality(R) <= Cardinality(E)
  BY <1>2, <1>3, FS_Subset
<1>5. DashboardStats.registered = Cardinality(R)
  BY DEF DashboardStats
<1> QED  BY <1>4, <1>5

\* Every page of the site and the dashboard's count agree with the registry:
\* the projection reads rows and versions in two queries, the worker settles
\* in between, and still nothing unconfirmed is shown as registered.
THEOREM PagesAnchored == Spec => []PagesShowAnchored
<1>1. IInv => PagesShowAnchored
  <2> SUFFICES ASSUME IInv PROVE PagesShowAnchored
    OBVIOUS
  <2>1. ASSUME NEW v \in Shown
        PROVE  /\ v.stellar_status = "registered" => effect[v.id] = "success"
               /\ \A h \in v.metadata_hash : effect[v.id] = "success" /\ h = intent[v.id]
    <3>1. PICK i \in Ids : v = EntityView(i)
      BY <2>1, ShownAreViews
    <3>2. /\ v.id = i /\ v.metadata_hash = LatestHash(i)
          /\ v.stellar_status = DeriveStellarStatus(Phase(i))
      BY <3>1 DEF EntityView
    <3>3. \A h \in LatestHash(i) : effect[i] = "success" /\ h = intent[i]
      BY DEF LatestHash, IInv, AnchoredHistory
    <3> QED  BY <3>2, <3>3, RegisteredSound
  <2>2. DashboardStats.registered <= Cardinality({i \in Ids : effect[i] = "success"})
    BY CountSound
  <2> QED  BY <2>1, <2>2 DEF PagesShowAnchored
<1> QED  BY Invariance, <1>1, PTL

------------------------------------------------------------------------------
(* What becomes of a deletion.                                              *)

\* The copies of a row that saveEntityRecord may still write.
Copying == {"readVersions", "saveRecord"}

\* A deletion is undone for some entities only: one that was deleted and
\* is active again, or shown again, is an entity the registry holds.
DeletedSound ==
  \A i \in deleted : Exists(i) /\ (entity[i].active => effect[i] = "success")

RevivedAreRegistered ==
  /\ \A v \in Shown : v.id \in deleted => effect[v.id] = "success"
  /\ \A i \in Listed \cap deleted : effect[i] = "success"

\* What becomes of the flag of a row: it stays, or the row is deleted, or it
\* takes the flag of a copy.
FlagsKept(S) ==
  \A i \in Ids \ S : Exists(i) => entity'[i] # None /\ entity'[i].active = entity[i].active
FlagsStay == deleted' = deleted /\ FlagsKept({})

DeletesOne(a) ==
  \E i \in Ids :
    /\ deleted' = deleted \cup {i} /\ FlagsKept({i})
    /\ entity'[i] # None /\ entity'[i].active = FALSE
    /\ call'[a].at = "idle"

WritesCopy(a) ==
  LET i == call[a].id IN
  /\ call[a].at = "saveRecord" /\ i \in Ids /\ effect[i] = "success"
  /\ deleted' = deleted /\ FlagsKept({i})
  /\ entity'[i] # None /\ entity'[i].active = call[a].record.active

\* A copy has the flag it had, or the one the table has now.
CopyKept(a) ==
  call'[a].at \in Copying =>
    /\ call'[a].id = call[a].id
    /\ \/ /\ call[a].at \in Copying
          /\ call'[a].record.active = call[a].record.active
       \/ /\ call[a].id \in Ids /\ Exists(call[a].id)
          /\ call'[a].record.active = entity[call[a].id].active

FlagStep(a) ==
  /\ FlagsStay \/ DeletesOne(a) \/ WritesCopy(a)
  /\ CopyKept(a)

LEMMA FlagStepOf ==
  ASSUME IInv, NEW a \in Admins, AdminStep(a)
  PROVE  FlagStep(a)
<1> DEFINE i == call[a].id
<1>0. /\ call \in [Admins -> Call] /\ entity \in [Ids -> Entity \cup {None}]
      /\ call[a].at \in WithId => i \in Ids /\ entity[i] # None /\ entity[i] \in Entity
  BY DEF IInv, TypeOK, CallSound, HoldsSound
<1>1. ASSUME NEW q, call' = [call EXCEPT ![a] = q], q.at \notin Copying
      PROVE  CopyKept(a)
  BY <1>0, <1>1 DEF CopyKept
<1>2. ASSUME NEW s, GoTo(a, s), s \notin Copying
      PROVE  CopyKept(a)
  BY <1>0, <1>2 DEF GoTo, CopyKept, Call
<1>3. ASSUME Return(a)  PROVE CopyKept(a)
  BY <1>1, <1>3 DEF Return, Idle, Copying
<1>4. ASSUME UNCHANGED <<entity, deleted>>  PROVE FlagsStay
  BY <1>4 DEF FlagsStay, FlagsKept, Exists
<1>5. ASSUME NEW q, call' = [call EXCEPT ![a] = q], q.at \notin Copying,
             UNCHANGED <<entity, deleted>>
      PROVE  FlagStep(a)
  BY <1>1, <1>4, <1>5 DEF FlagStep
<1>6. ASSUME NEW flow, NEW k, NEW f, InsertEntity(a, flow, k, f)  PROVE FlagStep(a)
  <2>1. deleted' = deleted /\ \A j \in Ids : Exists(j) => entity'[j] = entity[j]
    BY <1>0, <1>6 DEF InsertEntity, Exists
  <2>2. PICK j \in Ids : call' = [call EXCEPT ![a] = [Idle EXCEPT
          !.at = "insertDetail", !.flow = flow, !.id = j, !.form = f]]
    BY <1>6 DEF InsertEntity
  <2>3. CopyKept(a)
    BY <1>1, <2>2 DEF Idle, Copying
  <2> QED  BY <2>1, <2>3 DEF FlagStep, FlagsStay, FlagsKept, Exists
<1>7. CASE InsertDetail(a)
  <2>1. CopyKept(a)
    BY <1>0, <1>3, <1>7 DEF InsertDetail, CopyKept, Copying, Call
  <2> QED  BY <1>4, <1>7, <2>1 DEF FlagStep, InsertDetail
<1>8. CASE CreateRelationship(a) \/ UpdateDetail(a) \/ Abort(a)
  BY <1>3, <1>4, <1>8 DEF CreateRelationship, UpdateDetail, Abort, FlagStep, tables
<1>9. ASSUME NEW j \in Ids, entity[j] # None, NEW f \in Forms, UpdateEntity(a, j, f)
      PROVE  FlagStep(a)
  <2>1. entity[j] \in Entity /\ f \in FormData
    BY <1>0, <1>9, DirectoryAssumption DEF DirectoryAssumption
  <2> DEFINE n == [entity[j] EXCEPT !.common = f.common, !.status = "verified"]
  <2>2. deleted' = deleted /\ entity' = [entity EXCEPT ![j] = n]
    BY <1>9 DEF UpdateEntity
  <2>3. n.active = entity[j].active /\ n # None
    BY <2>1, NullTyped, ZenonT(60) DEF Entity, FormData
  <2> HIDE DEF n
  <2>4. FlagsStay
    BY <1>0, <2>1, <2>2, <2>3 DEF FlagsStay, FlagsKept, Exists
  <2>5. CopyKept(a)
    BY <1>1, <1>9 DEF UpdateEntity, Idle, Copying
  <2> QED  BY <2>4, <2>5 DEF FlagStep
<1>10. ASSUME NEW j \in Ids, entity[j] # None, Deactivate(a, j)  PROVE FlagStep(a)
  <2>1. entity[j] \in Entity /\ call[a].at = "idle"
    BY <1>0, <1>10 DEF Deactivate, Begins
  <2> DEFINE n == [entity[j] EXCEPT !.active = FALSE, !.status = "archived"]
  <2>2. deleted' = deleted \cup {j} /\ entity' = [entity EXCEPT ![j] = n] /\ call' = call
    BY <1>10 DEF Deactivate
  <2>3. n.active = FALSE /\ n # None
    BY <2>1, NullTyped DEF Entity
  <2> HIDE DEF n
  <2>4. DeletesOne(a)
    BY <1>0, <2>1, <2>2, <2>3 DEF DeletesOne, FlagsKept, Exists
  <2> QED  BY <2>1, <2>2, <2>4 DEF FlagStep, CopyKept, Copying
<1>11. CASE \/ \E j \in Ids : FetchEntityWithKind(a, j) \/ BuildOrganizationPayload(a, j)
            \/ RelationshipManager(a) \/ BuildPayload(a) \/ PrepareRegister(a)
  <2>1. UNCHANGED <<entity, deleted>>
    BY <1>11 DEF FetchEntityWithKind, BuildPayload, BuildOrganizationPayload,
       RelationshipManager, PrepareRegister, tables
  <2>2. call'[a].at \notin Copying
    <3>1. CASE \E j \in Ids : FetchEntityWithKind(a, j) \/ BuildOrganizationPayload(a, j)
      BY <1>0, <3>1 DEF FetchEntityWithKind, BuildOrganizationPayload, Idle, Copying
    <3>2. CASE RelationshipManager(a)
      BY <1>0, <3>2 DEF RelationshipManager, Idle, Copying
    <3>3. CASE BuildPayload(a) \/ PrepareRegister(a)
      BY <1>0, <3>3 DEF BuildPayload, PrepareRegister, Return, Idle, Call, Copying
    <3> QED  BY <1>11, <3>1, <3>2, <3>3
  <2> QED  BY <1>4, <2>1, <2>2 DEF FlagStep, CopyKept
<1>12. CASE Post(a) \/ Relay(a) \/ Poll(a)
  BY <1>2, <1>3, <1>4, <1>12 DEF Post, Relay, Poll, FlagStep, tables, Copying
<1>13. CASE ReadRecord(a)
  <2>1. call[a].at = "readRecord" /\ i \in Ids /\ entity[i] # None
    BY <1>0, <1>13 DEF ReadRecord, WithId, Steps
  <2>2. call'[a].id = i /\ call'[a].record.active = entity[i].active
    BY <1>0, <1>13 DEF ReadRecord, Call
  <2> QED  BY <1>4, <1>13, <2>1, <2>2 DEF FlagStep, CopyKept, Exists, ReadRecord, tables
<1>14. CASE ReadVersions(a)
  <2>1. call[a].at \in Copying /\ call[a].record \in Record
    BY <1>14 DEF ReadVersions, Copying, IInv, CallSound, HoldsSound
  <2>2. call'[a].id = i
        /\ call'[a].record = AppendVersion(call[a].record, version[i], intent[i])
    BY <1>0, <1>14 DEF ReadVersions, Call
  <2>3. call'[a].record.active = call[a].record.active
    BY <2>1, <2>2 DEF AppendVersion, Record
  <2> QED  BY <1>4, <1>14, <2>1, <2>2, <2>3 DEF FlagStep, CopyKept, ReadVersions, tables
<1>15. CASE SaveEntityRecord(a)
  <2>1. /\ call[a].at = "saveRecord" /\ i \in Ids /\ entity[i] \in Entity /\ entity[i] # None
        /\ call[a].record \in Record /\ effect[i] = "success"
    BY <1>0, <1>15 DEF SaveEntityRecord, IInv, CallSound, HoldsSound, Projecting, WithId, Steps
  <2> DEFINE n == [entity[i] EXCEPT !.active = call[a].record.active,
                                    !.latest = call[a].record.latest]
  <2>2. /\ deleted' = deleted /\ Return(a)
        /\ entity' = entity \/ entity' = [entity EXCEPT ![i] = n]
    BY <1>15 DEF SaveEntityRecord
  <2>3. n.active = call[a].record.active /\ n # None
    BY <2>1, NullTyped DEF Entity, Record
  <2> HIDE DEF n
  <2>4. CASE entity' = entity
    BY <1>3, <1>4, <2>2, <2>4 DEF FlagStep
  <2>5. CASE entity' = [entity EXCEPT ![i] = n]
    <3>1. WritesCopy(a)
      BY <1>0, <2>1, <2>2, <2>3, <2>5 DEF WritesCopy, FlagsKept, Exists
    <3> QED  BY <1>3, <2>2, <3>1 DEF FlagStep
  <2> QED  BY <2>2, <2>4, <2>5
<1>16. \A k : \A j \in Rows(k) : j \in Ids /\ entity[j] # None
  BY DEF Rows, Joined, Exists
<1>17. ASSUME NEW flow, NEW k, CreateRow(a, flow, k)  PROVE FlagStep(a)
  BY <1>6, <1>7, <1>17 DEF CreateRow
<1>18. ASSUME NEW k, UpdateRow(a, k)  PROVE FlagStep(a)
  BY <1>8, <1>9, <1>16, <1>18 DEF UpdateRow
<1>19. ASSUME NEW k, NEW j \in Rows(k), Deactivate(a, j)  PROVE FlagStep(a)
  BY <1>10, <1>16, <1>19
<1>20. CASE PersonasPage(a) \/ OrganizacionesPage(a) \/ ProveedoresPage(a)
  BY <1>11, <1>16, <1>17, <1>18, <1>19, <1>20
  DEF PersonasPage, OrganizacionesPage, ProveedoresPage, CreatePerson, CreateOrganization,
      CreateProvider, UpdatePerson, UpdateOrganization, UpdateProvider, DeletePerson,
      DeleteOrganization, DeleteProvider, PrepareEntityForStellar, PrepareOrganizationForStellar
<1>21. CASE EventoPage(a)
  BY <1>11, <1>17, <1>21
  DEF EventoPage, AddToEvent, RegisterPending, CreatePerson, CreateOrganization,
      CreateProvider, PrepareEntityForStellar
<1> QED
  BY <1>8, <1>11, <1>12, <1>13, <1>14, <1>15, <1>20, <1>21 DEF AdminStep, ProjectRegistration

\* The effects of registrations stay, whoever steps.
LEMMA StepGrows == ASSUME IInv, [Next]_vars PROVE Grows
<1>1. CASE \E a \in Admins : AdminStep(a)
  BY <1>1, AdminStepSound DEF Sound
<1>2. CASE OutboxStep
  BY <1>2, OutboxStepSound
<1>3. CASE UNCHANGED vars
  BY <1>3 DEF vars, tables, outbox, IInv, TypeOK, Entity, Grows
<1> QED  BY <1>1, <1>2, <1>3 DEF Next

\* Only the steps of administrators touch rows and copies.
LEMMA StepFlags ==
  ASSUME IInv, [Next]_vars
  PROVE  \/ UNCHANGED <<entity, deleted, call>>
         \/ \E a \in Admins : /\ FlagStep(a)
                              /\ \A b \in Admins \ {a} : call'[b] = call[b]
<1>1. CASE \E a \in Admins : AdminStep(a)
  BY <1>1, AdminStepSound, FlagStepOf DEF Sound
<1>2. CASE OutboxStep
  BY <1>2 DEF OutboxStep, LedgerActs, OutboxSaves, tables
<1>3. CASE UNCHANGED vars
  BY <1>3 DEF vars, tables
<1> QED  BY <1>1, <1>2, <1>3 DEF Next

\* A copy is only written for an entity whose registration took effect, so a
\* deletion is undone only for an entity that the registry holds: for the
\* others the soft delete is final (deletePerson, saveEntityRecord).
THEOREM RevivedRegistered == Spec => []RevivedAreRegistered
<1>1. Init => DeletedSound
  BY DEF Init, DeletedSound
<1>2. IInv /\ DeletedSound /\ [Next]_vars => DeletedSound'
  <2> SUFFICES ASSUME IInv, DeletedSound, [Next]_vars PROVE DeletedSound'
    OBVIOUS
  <2>1. deleted \subseteq Ids /\ Grows
    BY StepGrows DEF IInv, TypeOK
  <2>2. CASE UNCHANGED <<entity, deleted, call>>
    BY <2>1, <2>2 DEF DeletedSound, Exists, Grows
  <2>3. CASE \E a \in Admins : FlagsStay \/ DeletesOne(a) \/ WritesCopy(a)
    BY <2>1, <2>3 DEF DeletedSound, Exists, Grows, FlagsStay, DeletesOne, WritesCopy, FlagsKept
  <2> QED  BY <2>2, <2>3, StepFlags DEF FlagStep
<1>3. DeletedSound => RevivedAreRegistered
  <2> SUFFICES ASSUME DeletedSound PROVE RevivedAreRegistered
    OBVIOUS
  <2>1. \A v \in Shown : \E i \in Ids : Active(i) /\ v.id = i
    BY ShownAreViews DEF EntityView
  <2>2. \A i \in Listed : Active(i)
    BY DEF Listed, ListPeople, ListOrganizations, ListProviders
  <2> QED  BY <2>1, <2>2 DEF DeletedSound, RevivedAreRegistered, Active
<1> QED  BY <1>1, <1>2, <1>3, Invariance, PTL DEF Spec

\* What is inactive is in no list and on no page.
InactiveAreHidden ==
  \A i \in Ids : ~ Active(i) => Unseen(i)

LEMMA InactiveHidden == InactiveAreHidden
<1>1. \A v \in Shown : \E j \in Ids : Active(j) /\ v.id = j
  BY ShownAreViews DEF EntityView
<1>2. \A j \in Listed : Active(j)
  BY DEF Listed, ListPeople, ListOrganizations, ListProviders
<1> QED  BY <1>1, <1>2 DEF InactiveAreHidden, Unseen

\* A step of an administrator leaves a deletion that is over as it is: the
\* only writes of the flag are a deletion and a copy, and a copy taken from
\* now on says inactive.
LEMMA BuriedStays ==
  ASSUME IInv, NEW a \in Admins, FlagStep(a), \A b \in Admins \ {a} : call'[b] = call[b],
         NEW i \in Ids, Buried(i)
  PROVE  Buried(i)'
<1>0. deleted \subseteq Ids /\ call \in [Admins -> Call]
  BY DEF IInv, TypeOK
<1>1. i \in deleted' /\ entity'[i] # None /\ ~ entity'[i].active
  <2>1. CASE FlagsStay
    BY <2>1 DEF Buried, FlagsStay, FlagsKept, Exists
  <2>2. CASE DeletesOne(a)
    BY <2>2 DEF Buried, DeletesOne, FlagsKept, Exists
  <2>3. CASE WritesCopy(a)
    <3>1. call[a].id = i => ~ call[a].record.active
      BY <2>3 DEF WritesCopy, Buried
    <3> QED  BY <2>3, <3>1 DEF Buried, WritesCopy, FlagsKept, Exists
  <2> QED  BY <2>1, <2>2, <2>3 DEF FlagStep
<1>2. ASSUME NEW b \in Admins, call'[b].at \in Copying, call'[b].id = i
      PROVE  ~ call'[b].record.active
  <2>1. CASE b # a
    BY <1>2, <2>1 DEF Buried, Copying
  <2>2. CASE b = a /\ call[a].at \in Copying /\ call'[a].record.active = call[a].record.active
    BY <1>2, <2>2 DEF FlagStep, CopyKept, Buried, Copying
  <2>3. CASE /\ b = a /\ call[a].id \in Ids /\ Exists(call[a].id)
             /\ call'[a].record.active = entity[call[a].id].active
    BY <1>2, <2>3 DEF FlagStep, CopyKept, Buried
  <2> QED  BY <1>2, <2>1, <2>2, <2>3 DEF FlagStep, CopyKept
<1> QED  BY <1>1, <1>2 DEF Buried, Exists, Copying

\* Once a deletion is over, with no projection under way that read the row
\* before it, the entity stays inactive for ever, in no list and on no page:
\* editing it, registering it and projecting it do not bring it back
\* (deletePerson, updatePerson, saveEntityRecord).
THEOREM DeletionsStay == Spec => DeletionsSettle
<1>1. ASSUME IInv, [Next]_vars, NEW i \in Ids, Buried(i)
      PROVE  Buried(i)' /\ Unseen(i)'
  <2>1. Buried(i)'
    <3>1. CASE UNCHANGED <<entity, deleted, call>>
      BY <1>1, <3>1 DEF Buried, Exists
    <3>2. ASSUME NEW a \in Admins, FlagStep(a), \A b \in Admins \ {a} : call'[b] = call[b]
          PROVE  Buried(i)'
      BY <1>1, <3>2, BuriedStays
    <3> QED  BY <1>1, <3>1, <3>2, StepFlags
  <2>2. InactiveAreHidden'
    BY InactiveHidden, PTL
  <2>3. Unseen(i)'
    BY <2>1, <2>2 DEF InactiveAreHidden, Buried, Active
  <2> QED  BY <2>1, <2>3
<1>2. IInv /\ [Next]_vars =>
        [\A i \in Ids : Buried(i) => Buried(i)' /\ Unseen(i)']_vars
  BY <1>1
<1> QED  BY <1>2, Invariance, PTL DEF Spec, DeletionsSettle

------------------------------------------------------------------------------
(* The scripts that load the pilot: the inductive invariant.                *)

\* A run is where its script can be, with the locks its script has taken.
ShapeSound(r) ==
  LET q == run[r] IN
  \/ q = NotRunning
  \/ /\ q.job = "import" /\ q.at \in {"select", "insert"}
     /\ q.file \in DOMAIN Plan /\ q.left \subseteq Plan[q.file]
     /\ q.lock \in {"none", "rows"} /\ \A i \in EntityIds : q.update[i] = Null
  \/ /\ q.job = "emails" /\ q.file \in Files /\ q.mails \in MailFiles
     /\ \/ q.at = "select" /\ q.lock = "none" /\ \A i \in EntityIds : q.update[i] = Null
        \/ q.at = "write" /\ q.lock = "table" /\ q.left \subseteq ByNumber[q.file]

\* The rows a run looked up or wrote are there, and its own if not committed.
HasRow(r, a) ==
  LET i == run[r].ids[a] IN
  i # Null => /\ row[i] # Null /\ Mine(r, row[i])
              /\ edits = 0 => row[i].slug = a[2]

\* What a statement of the import left in the tables.
Effect(r, st) ==
  LET ids == run[r].ids IN
  /\ ids[st.key] # Null
  /\ st.do = "relate" =>
       /\ ids[st.to] # Null
       /\ \/ ids[st.key] = ids[st.to] /\ st.type # "participant_of"
          \/ \E b \in {Null, r} : [from |-> ids[st.key], to |-> ids[st.to],
                                   type |-> st.type, by |-> b] \in link
  /\ st.do = "participate" => /\ part[ids[st.key]] # Null
                              /\ Mine(r, part[ids[st.key]])

Made(r) ==
  LET q == run[r]
      made == Plan[q.file] \ q.left
  IN q.job = "import" =>
       /\ \A st \in made : Effect(r, st)
       /\ (\E e \in q.left : e.do = "ensure") => \A st \in made : st.do = "ensure"

\* A code comes with the slug the table of the e-mail script gives it.
Fits(i, c) ==
  /\ c.mail => c.code # Null
  /\ edits = 0 /\ c.code # Null =>
       \E k \in DOMAIN SubjectOf : k[1] = c.code /\ SubjectOf[k] = row[i].slug

\* A participation has its entity, which is no younger; while it is not
\* committed its run holds a lock against the e-mail script.
PartSound(i) ==
  part[i] # Null =>
    /\ row[i] # Null /\ row[i].by \in {Null, part[i].by}
    /\ part[i].by # Null => part[i].contact = Blank /\ run[part[i].by].lock = "rows"
    /\ Fits(i, part[i].contact)

\* What the e-mail script changed is a participation that has an entity.
UpdateSound(r) ==
  \A i \in EntityIds : run[r].update[i] # Null =>
    /\ run[r].lock = "table" /\ part[i] # Null
    /\ run[r].update[i].code # Null /\ Fits(i, run[r].update[i])

Alone == \A r, q \in Runs : r # q /\ run[r].lock = "table" => run[q].lock = "none"

RunSound(r) ==
  ShapeSound(r) /\ (\A a \in Keys : HasRow(r, a)) /\ Made(r) /\ UpdateSound(r)

PilotIInv ==
  /\ PilotTypeOK
  /\ Alone
  /\ \A r \in Runs : RunSound(r)
  /\ \A i \in EntityIds : PartSound(i)
  /\ ContactsComplete

------------------------------------------------------------------------------
(* What the plan of an import holds.                                        *)

Ensured(f, a) == \E e \in Plan[f] : e.do = "ensure" /\ e.key = a

\* The entities come first, and everything else is about them.
InLoops1to5(st) ==
  st.do = "ensure" /\ st.at[1] \in 1 .. 5 /\ st.key \in Keys

InLoops6to8(f, st) ==
  /\ st.at[1] \in 6 .. 8 /\ st.key \in Keys /\ Ensured(f, st.key)
  /\ \/ st.do = "participate"
     \/ /\ st.do = "relate" /\ st.type \in LinkTypes
        /\ st.to \in Keys /\ Ensured(f, st.to)

LEMMA LeastElement ==
  ASSUME NEW T \in SUBSET Nat, T # {}
  PROVE  \E n \in T : \A m \in T : n <= m
<1> DEFINE R == OpToRel(<, Nat)
<1>1. IsWellFoundedOn(R, Nat)
  BY NatLessThanWellFounded
<1>2. \A m, n \in Nat : m < n => <<m, n>> \in R
  BY DEF OpToRel
<1> HIDE DEF R
<1>3. PICK n \in T : \A m \in T : ~ (<<m, n>> \in R)
  BY <1>1, WFMin
<1>4. \A m \in T : ~ (m < n)
  BY <1>2, <1>3
<1> QED  BY <1>4

\* Entities of one kind and one loop.
Entries(S, c, map) ==
  c \in Nat /\ \A e \in S : \E m \in Nat, s \in Names : e = Ensure(<<c, m, 0>>, map, s)

\* A catalog that keeps the first entry of a key keeps one for each.
LEMMA OnceCovers ==
  ASSUME NEW S, NEW c, NEW map, Entries(S, c, map), NEW e \in S
  PROVE  \E q \in Once(S) : q.do = "ensure" /\ q.key = e.key
<1> DEFINE T == {m \in Nat : Ensure(<<c, m, 0>>, map, e.key[2]) \in S}
<1>1. PICK n \in T : \A m \in T : n <= m
  <2>1. PICK m \in Nat, s \in Names : e = Ensure(<<c, m, 0>>, map, s)
    BY DEF Entries
  <2>2. e.key = <<map, s>>
    BY <2>1 DEF Ensure
  <2>3. m \in T
    BY <2>1, <2>2
  <2> HIDE DEF T
  <2>4. T \in SUBSET Nat
    BY DEF T
  <2> QED  BY <2>3, <2>4, LeastElement
<1> DEFINE q == Ensure(<<c, n, 0>>, map, e.key[2])
<1>2. q \in S
  OBVIOUS
<1>3. ASSUME NEW p \in S, [p EXCEPT !.at = q.at] = q
      PROVE  ~ Before(p.at, q.at)
  <2>1. PICK m \in Nat, s \in Names : p = Ensure(<<c, m, 0>>, map, s)
    BY DEF Entries
  <2>2. s = e.key[2]
    BY <1>3, <2>1 DEF Ensure
  <2>3. n <= m
    BY <1>1, <2>1, <2>2
  <2>4. p.at = <<c, m, 0>> /\ q.at = <<c, n, 0>>
    BY <2>1 DEF Ensure
  <2> QED  BY <2>3, <2>4 DEF Before, Entries
<1>4. q \in Once(S)
  BY <1>2, <1>3 DEF Once
<1>5. e.key = <<map, e.key[2]>>
  BY DEF Entries, Ensure
<1> QED  BY <1>4, <1>5 DEF Ensure

LEMMA FileTyped ==
  ASSUME NEW f \in DOMAIN Plan
  PROVE  /\ f \in Files /\ f \in Seq(Presentation) /\ Importable(f)
         /\ Plan[f] = NormalizePilotData(f)
         /\ DOMAIN f \subseteq Nat /\ Len(f) \in Nat
         /\ \A k \in DOMAIN f : f[k] \in Presentation
<1>1. f \in Files /\ Importable(f) /\ Plan[f] = NormalizePilotData(f)
  BY DEF Plan
<1>2. f \in Seq(Presentation)
  BY <1>1, PilotAssumption
<1> QED  BY <1>1, <1>2

LEMMA NamesTyped ==
  ASSUME NEW p \in Presentation
  PROVE  /\ Person(p) \in Names /\ <<"person", Person(p)>> \in Keys
         /\ Known(p.escuela) => p.escuela \in Names /\ <<"school", p.escuela>> \in Keys
         /\ HasGroup(p) => GroupSlug(p) \in Names /\ <<"group", GroupSlug(p)>> \in Keys
<1>1. Person(p) \in Names
  BY PilotAssumption DEF Person, Presentation
<1>2. Known(p.escuela) => p.escuela \in Names
  BY DEF Known, Presentation
<1>3. HasGroup(p) => GroupSlug(p) \in Names
  BY PilotAssumption DEF HasGroup, GroupSlug, Presentation
<1> QED  BY <1>1, <1>2, <1>3 DEF Keys, KindIn

LEMMA SchoolEnsured ==
  ASSUME NEW f \in DOMAIN Plan, NEW k \in Schooled(f)
  PROVE  Ensured(f, <<"school", f[k].escuela>>)
<1> DEFINE S == {Ensure(<<3, j, 0>>, "school", f[j].escuela) : j \in Schooled(f)}
           e == Ensure(<<3, k, 0>>, "school", f[k].escuela)
<1>1. Entries(S, 3, "school")
  BY FileTyped, NamesTyped DEF Schooled, Entries
<1>2. e \in S /\ e.key = <<"school", f[k].escuela>>
  BY DEF Ensure
<1>3. Once(S) \subseteq Plan[f]
  BY FileTyped DEF NormalizePilotData, SchoolsCatalog
<1> HIDE DEF S, e
<1>4. \E q \in Once(S) : q.do = "ensure" /\ q.key = e.key
  BY <1>1, <1>2, OnceCovers
<1> QED  BY <1>2, <1>3, <1>4 DEF Ensured

LEMMA GroupEnsured ==
  ASSUME NEW f \in DOMAIN Plan, NEW k \in DOMAIN f, HasGroup(f[k])
  PROVE  Ensured(f, <<"group", GroupSlug(f[k])>>)
<1> DEFINE G == {j \in DOMAIN f : HasGroup(f[j])}
           S == {Ensure(<<4, j, 0>>, "group", GroupSlug(f[j])) : j \in G}
           e == Ensure(<<4, k, 0>>, "group", GroupSlug(f[k]))
<1>1. Entries(S, 4, "group")
  BY FileTyped, NamesTyped DEF Entries
<1>2. e \in S /\ e.key = <<"group", GroupSlug(f[k])>>
  BY DEF Ensure
<1>3. Once(S) \subseteq Plan[f]
  BY FileTyped DEF NormalizePilotData, GroupsCatalog
<1> HIDE DEF S, e
<1>4. \E q \in Once(S) : q.do = "ensure" /\ q.key = e.key
  BY <1>1, <1>2, OnceCovers
<1> QED  BY <1>2, <1>3, <1>4 DEF Ensured

LEMMA PersonEnsured ==
  ASSUME NEW f \in DOMAIN Plan
  PROVE  /\ \A k \in DOMAIN f : Ensured(f, <<"person", Person(f[k])>>)
         /\ \A k \in DOMAIN AlsoNamed : Ensured(f, <<"person", AlsoNamed[k]>>)
<1> DEFINE A == {Ensure(<<5, k, 0>>, "person", Person(f[k])) : k \in DOMAIN f}
           B == {Ensure(<<5, Len(f) + k, 0>>, "person", AlsoNamed[k]) : k \in DOMAIN AlsoNamed}
           S == A \cup B
<1>1. Entries(S, 5, "person")
  <2>1. Entries(A, 5, "person")
    BY FileTyped, NamesTyped DEF Entries
  <2>2. \A k \in DOMAIN AlsoNamed : Len(f) + k \in Nat /\ AlsoNamed[k] \in Names
    BY FileTyped, PilotAssumption
  <2>3. Entries(B, 5, "person")
    BY <2>2 DEF Entries
  <2> HIDE DEF A, B
  <2> QED  BY <2>1, <2>3 DEF Entries
<1>2. Once(S) \subseteq Plan[f]
  BY FileTyped DEF NormalizePilotData, PeopleCatalog
<1>3. ASSUME NEW e \in S
      PROVE  Ensured(f, e.key)
  <2> HIDE DEF S
  <2>1. \E q \in Once(S) : q.do = "ensure" /\ q.key = e.key
    BY <1>1, OnceCovers
  <2> QED  BY <1>2, <2>1 DEF Ensured
<1>4. ASSUME NEW k \in DOMAIN f
      PROVE  Ensured(f, <<"person", Person(f[k])>>)
  <2>1. PICK e \in S : e = Ensure(<<5, k, 0>>, "person", Person(f[k]))
    OBVIOUS
  <2> QED  BY <1>3, <2>1 DEF Ensure
<1>5. ASSUME NEW k \in DOMAIN AlsoNamed
      PROVE  Ensured(f, <<"person", AlsoNamed[k]>>)
  <2>1. PICK e \in S : e = Ensure(<<5, Len(f) + k, 0>>, "person", AlsoNamed[k])
    OBVIOUS
  <2> QED  BY <1>3, <2>1 DEF Ensure
<1> QED  BY <1>4, <1>5

LEMMA SubjectEnsured ==
  ASSUME NEW f \in DOMAIN Plan, NEW k \in DOMAIN f
  PROVE  Subject(f[k]) \in Keys /\ Ensured(f, Subject(f[k]))
<1>1. Solo(f[k]) \/ HasGroup(f[k])
  BY FileTyped DEF Importable
<1>2. CASE Solo(f[k])
  BY <1>2, FileTyped, NamesTyped, PersonEnsured DEF Subject
<1>3. CASE ~ Solo(f[k])
  BY <1>1, <1>3, FileTyped, NamesTyped, GroupEnsured DEF Subject
<1> QED  BY <1>2, <1>3

LEMMA EventEnsured ==
  ASSUME NEW f \in DOMAIN Plan
  PROVE  EventKey \in Keys /\ Ensured(f, EventKey)
<1>1. Ensure(<<2, 0, 0>>, "event", Event) \in Plan[f]
  BY FileTyped DEF NormalizePilotData
<1> QED  BY <1>1, PilotAssumption DEF Ensured, Ensure, EventKey, Keys, KindIn

\* A teacher of a school is the person of a presentation or one of the named.
LEMMA TeacherEnsured ==
  ASSUME NEW f \in DOMAIN Plan, NEW k \in DOMAIN f, f[k].num \in DOMAIN RelationsOf,
         NEW j \in DOMAIN RelationsOf[f[k].num]
  PROVE  LET t == RelationsOf[f[k].num][j]
         IN <<"person", t[1]>> \in Keys /\ t[2] \in LinkTypes /\ Ensured(f, <<"person", t[1]>>)
<1> DEFINE n == f[k].num
           t == RelationsOf[n][j]
<1>1. RelationsOf[n] \in Seq(Names \X LinkTypes) /\ n \in DOMAIN PersonOf
      /\ (t[1] = PersonOf[n] \/ \E a \in DOMAIN AlsoNamed : t[1] = AlsoNamed[a])
  BY PilotAssumption
<1>2. t \in Names \X LinkTypes
  BY <1>1
<1>3. Person(f[k]) = PersonOf[n]
  BY <1>1 DEF Person
<1>4. Ensured(f, <<"person", t[1]>>)
  BY <1>1, <1>3, PersonEnsured
<1> QED  BY <1>2, <1>4 DEF Keys, KindIn

LEMMA PlanShape ==
  ASSUME NEW f \in DOMAIN Plan, NEW st \in Plan[f]
  PROVE  InLoops1to5(st) \/ InLoops6to8(f, st)
<1>1. CASE st \in {Ensure(<<1, 0, 0>>, "organizer", Organizer), Ensure(<<2, 0, 0>>, "event", Event)}
  BY <1>1, PilotAssumption DEF InLoops1to5, Ensure, Keys, KindIn
<1>2. CASE st \in SchoolsCatalog(f)
  <2>1. PICK k \in Schooled(f) : st = Ensure(<<3, k, 0>>, "school", f[k].escuela)
    BY <1>2 DEF SchoolsCatalog, Once
  <2>2. st.do = "ensure" /\ st.at[1] = 3 /\ st.key = <<"school", f[k].escuela>>
    BY <2>1 DEF Ensure
  <2>3. st.key \in Keys
    BY <2>2, FileTyped, NamesTyped DEF Schooled
  <2> QED  BY <2>2, <2>3 DEF InLoops1to5
<1>3. CASE st \in GroupsCatalog(f)
  <2>1. PICK k \in DOMAIN f : HasGroup(f[k])
                              /\ st = Ensure(<<4, k, 0>>, "group", GroupSlug(f[k]))
    BY <1>3 DEF GroupsCatalog, Once
  <2>2. st.do = "ensure" /\ st.at[1] = 4 /\ st.key = <<"group", GroupSlug(f[k])>>
    BY <2>1 DEF Ensure
  <2>3. st.key \in Keys
    BY <2>1, <2>2, FileTyped, NamesTyped
  <2> QED  BY <2>2, <2>3 DEF InLoops1to5
<1>4. CASE st \in PeopleCatalog(f)
  <2>1. \/ \E k \in DOMAIN f : st = Ensure(<<5, k, 0>>, "person", Person(f[k]))
        \/ \E k \in DOMAIN AlsoNamed : st = Ensure(<<5, Len(f) + k, 0>>, "person", AlsoNamed[k])
    BY <1>4 DEF PeopleCatalog, Once
  <2>2. \A k \in DOMAIN AlsoNamed : <<"person", AlsoNamed[k]>> \in Keys
    BY PilotAssumption DEF Keys, KindIn
  <2>3. st.do = "ensure" /\ st.at[1] = 5
    BY <2>1 DEF Ensure
  <2>4. \/ \E k \in DOMAIN f : st.key = <<"person", Person(f[k])>>
        \/ \E k \in DOMAIN AlsoNamed : st.key = <<"person", AlsoNamed[k]>>
    BY <2>1 DEF Ensure
  <2>5. st.key \in Keys
    BY <2>2, <2>4, FileTyped, NamesTyped
  <2> QED  BY <2>3, <2>5 DEF InLoops1to5
<1>5. CASE st \in GroupSchoolRelationships(f)
  <2>1. PICK g \in GroupsCatalog(f) :
          /\ g.at[2] \in Schooled(f)
          /\ st = Relate(<<6, g.at[2], 0>>, g.key, <<"school", f[g.at[2]].escuela>>, "member_of")
    BY <1>5 DEF GroupSchoolRelationships
  <2>2. PICK k \in DOMAIN f : HasGroup(f[k])
                              /\ g = Ensure(<<4, k, 0>>, "group", GroupSlug(f[k]))
    BY DEF GroupsCatalog, Once
  <2>3. g.at[2] = k /\ g.key = <<"group", GroupSlug(f[k])>>
    BY <2>2 DEF Ensure
  <2>4. Ensured(f, g.key) /\ g.key \in Keys
    BY <2>2, <2>3, GroupEnsured, FileTyped, NamesTyped
  <2>5. Ensured(f, <<"school", f[k].escuela>>) /\ <<"school", f[k].escuela>> \in Keys
    BY <2>1, <2>3, SchoolEnsured, FileTyped, NamesTyped DEF Schooled
  <2> QED  BY <2>1, <2>3, <2>4, <2>5 DEF InLoops6to8, Relate, LinkTypes
<1>6. CASE st \in PersonSchoolRelationships(f)
  <2>1. PICK k \in Schooled(f) :
          /\ f[k].num \in DOMAIN RelationsOf
          /\ \E j \in DOMAIN RelationsOf[f[k].num] :
               st = Relate(<<7, k, j>>, <<"person", RelationsOf[f[k].num][j][1]>>,
                           <<"school", f[k].escuela>>, RelationsOf[f[k].num][j][2])
    BY <1>6 DEF PersonSchoolRelationships, Once
  <2>2. PICK j \in DOMAIN RelationsOf[f[k].num] :
               st = Relate(<<7, k, j>>, <<"person", RelationsOf[f[k].num][j][1]>>,
                           <<"school", f[k].escuela>>, RelationsOf[f[k].num][j][2])
    BY <2>1
  <2>3. k \in DOMAIN f /\ Known(f[k].escuela)
    BY DEF Schooled
  <2>4. Ensured(f, <<"school", f[k].escuela>>) /\ <<"school", f[k].escuela>> \in Keys
    BY <2>3, SchoolEnsured, FileTyped, NamesTyped
  <2> QED  BY <2>1, <2>2, <2>3, <2>4, TeacherEnsured DEF InLoops6to8, Relate
<1>7. CASE st \in Participations(f)
  <2>1. PICK k \in DOMAIN f :
          \/ st = Relate(<<8, k, 1>>, Subject(f[k]), EventKey, "participant_of")
          \/ st = Participate(<<8, k, 2>>, Subject(f[k]))
    BY <1>7 DEF Participations
  <2> QED  BY <2>1, SubjectEnsured, EventEnsured
              DEF InLoops6to8, Relate, Participate, LinkTypes
<1> QED  BY <1>1, <1>2, <1>3, <1>4, <1>5, <1>6, <1>7, FileTyped DEF NormalizePilotData

\* While a script goes through the loops after the fifth, it has all entities.
LEMMA EnsuresFirst ==
  ASSUME NEW f \in DOMAIN Plan, NEW e \in Plan[f], InLoops1to5(e),
         NEW st \in Plan[f], InLoops6to8(f, st)
  PROVE  Before(e.at, st.at)
BY DEF InLoops1to5, InLoops6to8, Before

------------------------------------------------------------------------------
(* What every step needs of the types.                                      *)

LEMMA Nulls ==
  /\ Null \notin Runs /\ Null \notin Nat /\ Null \notin EntityIds
  /\ Null \notin Row /\ Null \notin Participation /\ Null \notin Contact
  /\ Null \notin Names /\ Null # "import" /\ Null # "emails"
<1>1. EntityIds \subseteq Nat
  BY FS_CardinalityType, PilotAssumption DEF EntityIds
<1> QED  BY <1>1, NullAssumption, PilotAssumption DEF Jobs

LEMMA BlankTyped == Blank \in Contact
BY DEF Blank, Contact

LEMMA NotRunningTyped ==
  /\ NotRunning \in Run
  /\ NotRunning.at = "idle" /\ NotRunning.job = Null /\ NotRunning.lock = "none"
  /\ NotRunning.left = {}
  /\ \A a \in Keys : NotRunning.ids[a] = Null
  /\ \A i \in EntityIds : NotRunning.update[i] = Null
BY DEF NotRunning, Run

LEMMA PilotTyped ==
  ASSUME PilotTypeOK
  PROVE  /\ \A i \in EntityIds : row[i] # Null => row[i] \in Row
         /\ \A i \in EntityIds : part[i] # Null => part[i] \in Participation
         /\ \A r \in Runs : run[r] \in Run
BY DEF PilotTypeOK

LEMMA RunFields ==
  ASSUME NEW v \in Run
  PROVE  /\ v.ids \in [Keys -> EntityIds \cup {Null}]
         /\ v.update \in [EntityIds -> Contact \cup {Null}]
         /\ v.left \subseteq Statements /\ v.at \in {"idle", "select", "insert", "write"}
         /\ v.lock \in {"none", "rows", "table"}
BY DEF Run

LEMMA PlanStated ==
  /\ \A f \in DOMAIN Plan : Plan[f] \subseteq Statements
  /\ \A f \in Files : ByNumber[f] \subseteq Statements
BY DEF Statements

\* An import is at a statement of the plan of its file.
LEMMA AtPlan ==
  ASSUME PilotIInv, NEW r \in Runs, run[r].job = "import"
  PROVE  /\ run[r].at \in {"select", "insert"} /\ run[r].file \in DOMAIN Plan
         /\ run[r].left \subseteq Plan[run[r].file] /\ run[r].lock \in {"none", "rows"}
         /\ \A i \in EntityIds : run[r].update[i] = Null
<1>1. run[r] # NotRunning
  BY Nulls, NotRunningTyped
<1> QED  BY <1>1 DEF PilotIInv, RunSound, ShapeSound

\* The e-mail script writes alone.
LEMMA AtMails ==
  ASSUME PilotIInv, NEW r \in Runs, run[r].job = "emails"
  PROVE  /\ run[r].at \in {"select", "write"} /\ run[r].file \in Files
         /\ run[r].mails \in MailFiles
         /\ run[r].at = "select" =>
              run[r].lock = "none" /\ \A i \in EntityIds : run[r].update[i] = Null
         /\ run[r].at = "write" =>
              run[r].lock = "table" /\ run[r].left \subseteq ByNumber[run[r].file]
<1>1. run[r] # NotRunning
  BY Nulls, NotRunningTyped
<1> QED  BY <1>1 DEF PilotIInv, RunSound, ShapeSound

LEMMA AtRest ==
  ASSUME PilotIInv, NEW r \in Runs, run[r].at = "idle"
  PROVE  run[r] = NotRunning
BY DEF PilotIInv, RunSound, ShapeSound

\* A row and its participation of a run that holds the table are committed.
LEMMA TableAlone ==
  ASSUME PilotIInv, NEW r \in Runs, run[r].lock = "table",
         NEW i \in EntityIds, part[i] # Null
  PROVE  part[i].by = Null /\ row[i] # Null /\ row[i].by = Null
<1>1. part[i].by \in Runs \cup {Null}
  BY PilotTyped DEF PilotIInv, Participation
<1>2. ASSUME part[i].by # Null
      PROVE  FALSE
  <2>1. run[part[i].by].lock = "rows" /\ part[i].by \in Runs
    BY <1>1, <1>2 DEF PilotIInv, PartSound
  <2> QED  BY <2>1 DEF PilotIInv, Alone
<1> QED  BY <1>2 DEF PilotIInv, PartSound

------------------------------------------------------------------------------
(* What a step of one run leaves of the others.                             *)

\* What run q reads or wrote stays, under the same slug unless renamed.
Keeps(q) ==
  /\ \A i \in EntityIds : row[i] # Null /\ Mine(q, row[i]) =>
       /\ row'[i] # Null /\ Mine(q, row'[i])
       /\ edits' = 0 => row'[i].slug = row[i].slug
  /\ \A i \in EntityIds : part[i] # Null /\ Mine(q, part[i]) =>
       part'[i] # Null /\ Mine(q, part'[i])
  /\ \A x, y \in EntityIds, k \in LinkTypes :
       (\E b \in {Null, q} : [from |-> x, to |-> y, type |-> k, by |-> b] \in link) =>
       (\E b \in {Null, q} : [from |-> x, to |-> y, type |-> k, by |-> b] \in link')
  /\ edits' = 0 => edits = 0

LEMMA EffectKept ==
  ASSUME PilotIInv, NEW q \in Runs, Keeps(q),
         NEW f \in DOMAIN Plan, NEW st \in Plan[f], Effect(q, st),
         run'[q].ids = run[q].ids
  PROVE  Effect(q, st)'
<1> DEFINE ids == run[q].ids
<1>1. ids \in [Keys -> EntityIds \cup {Null}]
  BY PilotTyped, RunFields DEF PilotIInv
<1>2. st.key \in Keys /\ ids[st.key] \in EntityIds /\ run'[q].ids[st.key] = ids[st.key]
  BY <1>1, PlanShape DEF Effect, InLoops1to5, InLoops6to8
<1>3. ASSUME st.do = "relate"
      PROVE  /\ run'[q].ids[st.to] # Null
             /\ \/ run'[q].ids[st.key] = run'[q].ids[st.to] /\ st.type # "participant_of"
                \/ \E b \in {Null, q} : [from |-> run'[q].ids[st.key], to |-> run'[q].ids[st.to],
                                         type |-> st.type, by |-> b] \in link'
  <2>1. st.to \in Keys /\ st.type \in LinkTypes
    BY <1>3, PlanShape DEF InLoops1to5, InLoops6to8
  <2>2. ids[st.to] \in EntityIds /\ run'[q].ids[st.to] = ids[st.to]
    BY <1>1, <1>3, <2>1 DEF Effect
  <2>3. CASE ids[st.key] = ids[st.to] /\ st.type # "participant_of"
    BY <1>2, <2>2, <2>3, Nulls
  <2>4. CASE \E b \in {Null, q} : [from |-> ids[st.key], to |-> ids[st.to],
                                   type |-> st.type, by |-> b] \in link
    BY <1>2, <2>1, <2>2, <2>4, Nulls DEF Keeps
  <2> QED  BY <1>3, <2>3, <2>4 DEF Effect
<1>4. ASSUME st.do = "participate"
      PROVE  part'[run'[q].ids[st.key]] # Null /\ Mine(q, part'[run'[q].ids[st.key]])
  BY <1>2, <1>4 DEF Effect, Keeps
<1> QED  BY <1>2, <1>3, <1>4, Nulls DEF Effect

LEMMA FitsKept ==
  ASSUME NEW i \in EntityIds, NEW c, Fits(i, c),
         edits' = 0 => edits = 0 /\ row'[i].slug = row[i].slug
  PROVE  Fits(i, c)'
BY DEF Fits

LEMMA HasRowKept ==
  ASSUME PilotIInv, NEW q \in Runs, Keeps(q), NEW a \in Keys,
         run'[q].ids[a] = run[q].ids[a]
  PROVE  HasRow(q, a)'
<1>1. run[q].ids[a] \in EntityIds \cup {Null}
  BY PilotTyped, RunFields DEF PilotIInv
<1>2. HasRow(q, a)
  BY DEF PilotIInv, RunSound
<1> QED  BY <1>1, <1>2 DEF HasRow, Keeps

LEMMA RunKept ==
  ASSUME PilotIInv, NEW q \in Runs, Keeps(q), run'[q] = run[q]
  PROVE  RunSound(q)'
<1>1. ShapeSound(q)'
  BY DEF PilotIInv, RunSound, ShapeSound
<1>2. \A a \in Keys : HasRow(q, a)'
  BY HasRowKept
<1>3. Made(q)'
  <2>1. CASE run[q].job = "import"
    <3>1. run[q].file \in DOMAIN Plan
      BY <2>1, AtPlan
    <3>2. \A st \in Plan[run[q].file] \ run[q].left : Effect(q, st)'
      BY <2>1, <3>1, EffectKept DEF PilotIInv, RunSound, Made
    <3> QED  BY <2>1, <3>2 DEF PilotIInv, RunSound, Made
  <2>2. CASE run[q].job # "import"
    BY <2>2 DEF Made
  <2> QED  BY <2>1, <2>2
<1>4. UpdateSound(q)'
  <2> SUFFICES ASSUME NEW i \in EntityIds, run[q].update[i] # Null
               PROVE  /\ run[q].lock = "table" /\ part'[i] # Null
                      /\ run[q].update[i].code # Null /\ Fits(i, run[q].update[i])'
    BY DEF UpdateSound, Fits
  <2>1. /\ run[q].lock = "table" /\ part[i] # Null
        /\ run[q].update[i].code # Null /\ Fits(i, run[q].update[i])
    BY DEF PilotIInv, RunSound, UpdateSound
  <2>2. part[i].by = Null /\ row[i] # Null /\ row[i].by = Null
    BY <2>1, TableAlone
  <2>3. part'[i] # Null /\ (edits' = 0 => edits = 0 /\ row'[i].slug = row[i].slug)
    BY <2>1, <2>2 DEF Keeps, Mine
  <2>4. PICK c : c = run[q].update[i]
    OBVIOUS
  <2>5. Fits(i, c)'
    BY <2>1, <2>3, <2>4, FitsKept
  <2> QED  BY <2>1, <2>3, <2>4, <2>5 DEF Fits
<1> QED  BY <1>1, <1>2, <1>3, <1>4 DEF RunSound

------------------------------------------------------------------------------
(* Putting a step together.                                                 *)

LEMMA IdleSound ==
  ASSUME NEW r \in Runs, run'[r] = NotRunning
  PROVE  RunSound(r)'
<1>1. ShapeSound(r)' /\ Made(r)' /\ UpdateSound(r)'
  BY NotRunningTyped, Nulls DEF ShapeSound, Made, UpdateSound
<1>2. \A a \in Keys : HasRow(r, a)'
  BY NotRunningTyped DEF HasRow
<1> QED  BY <1>1, <1>2 DEF RunSound

\* A run takes the table alone, and keeps its rows to the end.
LockMoves(r) ==
  \/ run'[r].lock = run[r].lock
  \/ run'[r].lock = "none"
  \/ run'[r].lock = "rows" /\ \A q \in Runs \ {r} : run[q].lock # "table"
  \/ run'[r].lock = "table" /\ \A q \in Runs \ {r} : run[q].lock = "none"

LEMMA Assemble ==
  ASSUME PilotIInv, NEW r \in Runs,
         \A q \in Runs \ {r} : run'[q] = run[q] /\ Keeps(q),
         LockMoves(r), RunSound(r)', PilotTypeOK',
         \A i \in EntityIds : PartSound(i)', ContactsComplete'
  PROVE  PilotIInv'
<1>1. Alone'
  <2> SUFFICES ASSUME NEW p \in Runs, NEW q \in Runs, p # q, run'[p].lock = "table"
               PROVE  run'[q].lock = "none"
    BY DEF Alone
  <2>1. p # r => run[p].lock = "table"
    OBVIOUS
  <2>2. q # r => run'[q] = run[q]
    OBVIOUS
  <2>3. \A s \in Runs : s # p /\ run[p].lock = "table" => run[s].lock = "none"
    BY DEF PilotIInv, Alone
  <2>4. CASE p = r
    <3>1. run[r].lock = "table" \/ \A s \in Runs \ {r} : run[s].lock = "none"
      BY <2>4 DEF LockMoves
    <3> QED  BY <2>2, <2>3, <2>4, <3>1
  <2>5. CASE p # r /\ q = r
    BY <2>1, <2>3, <2>5 DEF LockMoves
  <2>6. CASE p # r /\ q # r
    BY <2>1, <2>2, <2>3, <2>6
  <2> QED  BY <2>4, <2>5, <2>6
<1>2. \A q \in Runs \ {r} : RunSound(q)'
  BY RunKept
<1> QED  BY <1>1, <1>2 DEF PilotIInv

\* A code leads to a slug, and a slug to one entity.
LEMMA CodesDistinct ==
  ASSUME PilotTypeOK', \A i \in EntityIds : PartSound(i)', edits' = 0,
         NEW i \in EntityIds, part'[i] # Null, part'[i].contact.code # Null,
         NEW j \in EntityIds, part'[j] # Null, part'[j].contact.code # Null,
         part'[i].contact.code = part'[j].contact.code
  PROVE  i = j
<1>1. PICK k \in DOMAIN SubjectOf :
        k[1] = part'[i].contact.code /\ SubjectOf[k] = row'[i].slug
  BY DEF PartSound, Fits
<1>2. PICK l \in DOMAIN SubjectOf :
        l[1] = part'[j].contact.code /\ SubjectOf[l] = row'[j].slug
  BY DEF PartSound, Fits
<1>3. k = l
  BY <1>1, <1>2, PilotAssumption
<1>4. row'[i] # Null /\ row'[j] # Null /\ row'[i].slug = row'[j].slug
  BY <1>1, <1>2, <1>3 DEF PartSound
<1> QED  BY <1>4 DEF PilotTypeOK

\* Which participations show a code changes in one step only.
LEMMA CodedStays ==
  ASSUME PilotIInv, PilotTypeOK', \A i \in EntityIds : PartSound(i)',
         \A i \in EntityIds :
           /\ Published(part'[i]) /\ part'[i].contact.code # Null
              <=> Published(part[i]) /\ part[i].contact.code # Null
           /\ Published(part[i]) /\ part[i].contact.code # Null
              => part'[i].contact = part[i].contact
  PROVE  ContactsComplete'
<1> DEFINE coded == {i \in EntityIds : Published(part[i]) /\ part[i].contact.code # Null}
           coded2 == {i \in EntityIds : Published(part'[i]) /\ part'[i].contact.code # Null}
<1>1. coded2 = coded
  OBVIOUS
<1>2. Cardinality(coded) \in {0, Expected.total} /\ \A i \in coded : part[i].contact.mail
  BY DEF PilotIInv, ContactsComplete
<1>3. \A i \in coded2 : part'[i].contact.mail
  BY <1>1, <1>2
<1>4. edits' = 0 => \A i, j \in coded2 : part'[i].contact.code = part'[j].contact.code => i = j
  BY CodesDistinct DEF Published
<1> QED
  <2> HIDE DEF coded
  <2>1. Cardinality(coded2) \in {0, Expected.total}
    BY <1>1, <1>2
  <2> QED  BY <1>3, <1>4, <2>1 DEF ContactsComplete

\* A step that changes one run and maybe adds relationships.
LEMMA OnlyRun ==
  ASSUME PilotIInv, NEW r \in Runs, NEW v \in Run, run' = [run EXCEPT ![r] = v],
         starts' \in 0 .. MaxStarts, UNCHANGED <<row, part, edits>>,
         link \subseteq link', link' \subseteq Link,
         LockMoves(r), run[r].lock = "rows" => v.lock = "rows", RunSound(r)'
  PROVE  PilotIInv'
<1>1. run'[r] = v /\ \A q \in Runs \ {r} : run'[q] = run[q]
  BY DEF PilotIInv, PilotTypeOK
<1>2. \A q \in Runs : Keeps(q)
  BY DEF Keeps
<1>3. PilotTypeOK'
  BY DEF PilotIInv, PilotTypeOK
<1>4. ASSUME NEW i \in EntityIds
      PROVE  PartSound(i)'
  <2>1. part[i] # Null => part[i].by \in Runs \cup {Null}
    BY PilotTyped DEF PilotIInv, Participation
  <2>2. PartSound(i)
    BY DEF PilotIInv
  <2>3. \A q \in Runs : run[q].lock = "rows" => run'[q].lock = "rows"
    BY <1>1
  <2> QED  BY <2>1, <2>2, <2>3 DEF PartSound, Fits
<1>5. ContactsComplete'
  BY DEF PilotIInv, ContactsComplete
<1> QED  BY <1>1, <1>2, <1>3, <1>4, <1>5, Assemble

------------------------------------------------------------------------------
(* A statement of the import.                                               *)

\* Past the loops of entities, the import has the ids of all of them.
LEMMA HasIds ==
  ASSUME PilotIInv, NEW r \in Runs, run[r].job = "import", NEW st \in run[r].left,
         IsNext(r, st), NEW a \in Keys, Ensured(run[r].file, a), st.do # "ensure"
  PROVE  run[r].ids[a] \in EntityIds
<1>1. run[r].file \in DOMAIN Plan /\ run[r].left \subseteq Plan[run[r].file]
  BY AtPlan
<1>2. PICK e \in Plan[run[r].file] : e.do = "ensure" /\ e.key = a
  BY DEF Ensured
<1>3. Before(e.at, st.at)
  BY <1>1, <1>2, PlanShape, EnsuresFirst DEF InLoops1to5, InLoops6to8
<1>4. e \notin run[r].left
  BY <1>3 DEF IsNext
<1>5. Effect(r, e)
  BY <1>2, <1>4 DEF PilotIInv, RunSound, Made
<1>6. run[r].ids[a] \in EntityIds \cup {Null}
  BY PilotTyped, RunFields DEF PilotIInv
<1> QED  BY <1>2, <1>5, <1>6 DEF Effect

\* The statement it is at, and the effect of the statement when it goes on.
LEMMA ImportGoesOn ==
  ASSUME PilotIInv, NEW r \in Runs, run[r].job = "import", NEW st \in run[r].left,
         IsNext(r, st), NEW v \in Run, run'[r] = v,
         v.job = "import", v.file = run[r].file, v.at \in {"select", "insert"},
         v.left = run[r].left \ {st},
         v.lock \in {"none", "rows"}, v.update = run[r].update,
         st.do # "ensure" => v.ids = run[r].ids,
         \A a \in Keys : run[r].ids[a] # Null => v.ids[a] # Null,
         Keeps(r), \A a \in Keys : HasRow(r, a)', Effect(r, st)'
  PROVE  RunSound(r)'
<1> DEFINE f == run[r].file
           made == Plan[f] \ run[r].left
           made2 == Plan[f] \ v.left
<1>1. f \in DOMAIN Plan /\ run[r].left \subseteq Plan[f]
      /\ \A i \in EntityIds : run[r].update[i] = Null
  BY AtPlan
<1>2. ShapeSound(r)'
  BY <1>1 DEF ShapeSound
<1>3. UpdateSound(r)'
  BY <1>1 DEF UpdateSound
<1>4. made2 = made \cup {st}
  BY <1>1
<1>5. (\A p \in made : Effect(r, p))
      /\ ((\E e \in run[r].left : e.do = "ensure") => \A p \in made : p.do = "ensure")
  BY DEF PilotIInv, RunSound, Made
<1>6. ASSUME NEW p \in made
      PROVE  Effect(r, p)'
  <2>1. CASE st.do # "ensure"
    BY <1>1, <1>5, <2>1, EffectKept
  <2>2. CASE st.do = "ensure"
    <3>1. p.do = "ensure" /\ Effect(r, p)
      BY <1>5, <2>2
    <3>2. p.key \in Keys
      BY <1>1, PlanShape DEF InLoops1to5, InLoops6to8
    <3> QED  BY <3>1, <3>2 DEF Effect
  <2> QED  BY <2>1, <2>2
<1>7. ASSUME NEW e \in v.left, e.do = "ensure", NEW p \in made2
      PROVE  p.do = "ensure"
  <2>1. st.do = "ensure"
    <3>1. ~ Before(e.at, st.at) /\ e \in Plan[f] /\ st \in Plan[f]
      BY <1>1, <1>7 DEF IsNext
    <3> QED  BY <1>1, <1>7, <3>1, PlanShape, EnsuresFirst DEF InLoops1to5, InLoops6to8
  <2> QED  BY <1>4, <1>5, <1>7, <2>1
<1>8. Made(r)'
  BY <1>4, <1>6, <1>7 DEF Made
<1> QED  BY <1>2, <1>3, <1>8 DEF RunSound

------------------------------------------------------------------------------
(* A rollback, and a commit.                                                *)

LEMMA RollbackSound ==
  ASSUME PilotIInv, NEW r \in Runs, Rollback(r), UNCHANGED <<starts, edits>>
  PROVE  PilotIInv'
<1>1. /\ run' = [run EXCEPT ![r] = NotRunning] /\ run'[r] = NotRunning
      /\ \A q \in Runs \ {r} : run'[q] = run[q]
  BY DEF Rollback, PilotIInv, PilotTypeOK
<1>2. \A i \in EntityIds :
        /\ row'[i] = IF row[i] # Null /\ row[i].by = r THEN Null ELSE row[i]
        /\ part'[i] = IF part[i] # Null /\ part[i].by = r THEN Null ELSE part[i]
  BY DEF Rollback
<1>3. link' = {l \in link : l.by # r}
  BY DEF Rollback
<1>4. PilotTypeOK'
  <2>1. row' \in [EntityIds -> Row \cup {Null}] /\ part' \in [EntityIds -> Participation \cup {Null}]
    BY DEF Rollback, PilotIInv, PilotTypeOK
  <2>2. link' \subseteq Link /\ run' \in [Runs -> Run]
    BY <1>1, <1>3, NotRunningTyped DEF PilotIInv, PilotTypeOK
  <2>3. ASSUME NEW i \in EntityIds, NEW j \in EntityIds,
               row'[i] # Null, row'[j] # Null, row'[i].slug = row'[j].slug
        PROVE  i = j
    BY <1>2, <2>3 DEF PilotIInv, PilotTypeOK
  <2> QED  BY <2>1, <2>2, <2>3 DEF PilotIInv, PilotTypeOK
<1>5. ASSUME NEW q \in Runs \ {r}
      PROVE  Keeps(q)
  <2>1. r # Null
    BY Nulls
  <2> QED  BY <1>2, <1>3, <2>1 DEF Keeps, Mine
<1>6. RunSound(r)'
  BY <1>1, IdleSound
<1>7. ASSUME NEW i \in EntityIds
      PROVE  PartSound(i)'
  <2> SUFFICES ASSUME part'[i] # Null
               PROVE  PartSound(i)'
    BY DEF PartSound
  <2>1. part'[i] = part[i] /\ part[i] # Null /\ part[i].by # r
    BY <1>2
  <2>2. PartSound(i) /\ part[i].by \in Runs \cup {Null}
    BY <2>1, PilotTyped DEF PilotIInv, Participation
  <2>3. row[i] # Null /\ row[i].by # r
    BY <2>1, <2>2, Nulls DEF PartSound
  <2>4. row'[i] = row[i]
    BY <1>2, <2>3
  <2> QED  BY <1>1, <2>1, <2>2, <2>4 DEF PartSound, Fits
<1>8. ContactsComplete'
  <2>1. \A i \in EntityIds : Published(part'[i]) <=> Published(part[i])
    BY <1>2, Nulls DEF Published
  <2>2. \A i \in EntityIds : Published(part[i]) => part'[i] = part[i]
    BY <1>2, Nulls DEF Published
  <2> QED  BY <1>4, <1>7, <2>1, <2>2, CodedStays
<1> QED  BY <1>1, <1>4, <1>5, <1>6, <1>7, <1>8, NotRunningTyped, Assemble DEF LockMoves

\* What the commit of a run makes of the tables.
LEMMA Committed ==
  ASSUME PilotIInv, NEW r \in Runs, Commit(r), UNCHANGED <<starts, edits>>
  PROVE  /\ run' = [run EXCEPT ![r] = NotRunning] /\ run'[r] = NotRunning
         /\ \A q \in Runs \ {r} : run'[q] = run[q] /\ Keeps(q)
         /\ RunSound(r)' /\ LockMoves(r) /\ PilotTypeOK'
         /\ \A i \in EntityIds :
              /\ row[i] = Null => row'[i] = Null
              /\ row[i] # Null =>
                   /\ row'[i] # Null /\ row'[i].slug = row[i].slug
                   /\ row'[i].by = IF row[i].by = r THEN Null ELSE row[i].by
              /\ part[i] = Null => part'[i] = Null
              /\ part[i] # Null =>
                   /\ part'[i] # Null
                   /\ part'[i].by = IF part[i].by = r THEN Null ELSE part[i].by
                   /\ part'[i].contact = IF run[r].update[i] = Null THEN part[i].contact
                                         ELSE run[r].update[i]
<1> USE DEF Commit
<1>1. /\ run' = [run EXCEPT ![r] = NotRunning] /\ run'[r] = NotRunning
      /\ \A q \in Runs \ {r} : run'[q] = run[q]
  BY DEF PilotIInv, PilotTypeOK
<1>2. ASSUME NEW i \in EntityIds
      PROVE  /\ row[i] = Null => row'[i] = Null
             /\ row[i] # Null =>
                  /\ row'[i] \in Row /\ row'[i].slug = row[i].slug
                  /\ row'[i].by = IF row[i].by = r THEN Null ELSE row[i].by
  <2>1. row'[i] = IF row[i] # Null /\ row[i].by = r THEN [row[i] EXCEPT !.by = Null] ELSE row[i]
    OBVIOUS
  <2>2. CASE row[i] = Null
    BY <2>1, <2>2
  <2>3. CASE row[i] # Null
    <3>1. row[i] \in Row
      BY <2>3, PilotTyped DEF PilotIInv
    <3> QED  BY <2>1, <2>3, <3>1 DEF Row
  <2> QED  BY <2>2, <2>3
<1>3. ASSUME NEW i \in EntityIds
      PROVE  /\ part[i] = Null => part'[i] = Null
             /\ part[i] # Null =>
                  /\ part'[i] \in Participation
                  /\ part'[i].by = IF part[i].by = r THEN Null ELSE part[i].by
                  /\ part'[i].contact = IF run[r].update[i] = Null THEN part[i].contact
                                        ELSE run[r].update[i]
  <2> DEFINE p == part[i]
             q == IF p # Null /\ p.by = r THEN [p EXCEPT !.by = Null] ELSE p
             u == run[r].update[i]
  <2>1. part'[i] = IF u = Null THEN q ELSE [q EXCEPT !.contact = u]
    OBVIOUS
  <2>2. u \in Contact \cup {Null} /\ (u # Null => p # Null)
    BY PilotTyped, RunFields DEF PilotIInv, RunSound, UpdateSound
  <2>3. CASE p = Null
    BY <2>1, <2>2, <2>3
  <2>4. CASE p # Null
    <3>1. p \in Participation
      BY <2>4, PilotTyped DEF PilotIInv
    <3>2. q \in Participation /\ q.contact = p.contact
          /\ q.by = IF p.by = r THEN Null ELSE p.by
      BY <2>4, <3>1 DEF Participation
    <3> HIDE DEF q, p, u
    <3> QED  BY <2>1, <2>2, <2>4, <3>2 DEF Participation, p, u
  <2> QED  BY <2>3, <2>4
<1>4. ASSUME NEW l \in link
      PROVE  /\ l.by # r => l \in link'
             /\ l.by = r => [l EXCEPT !.by = Null] \in link'
  OBVIOUS
<1>5. link' \subseteq Link
  <2>1. link \subseteq Link
    BY DEF PilotIInv, PilotTypeOK
  <2> QED  BY <2>1 DEF Link
<1>6. row' \in [EntityIds -> Row \cup {Null}] /\ part' \in [EntityIds -> Participation \cup {Null}]
  <2>1. DOMAIN row' = EntityIds /\ DOMAIN part' = EntityIds
        /\ row' = [i \in EntityIds |-> row'[i]] /\ part' = [i \in EntityIds |-> part'[i]]
    OBVIOUS
  <2>2. \A i \in EntityIds : row'[i] \in Row \cup {Null} /\ part'[i] \in Participation \cup {Null}
    BY <1>2, <1>3
  <2> HIDE DEF Commit
  <2> QED  BY <2>1, <2>2
<1> HIDE DEF Commit
<1>7. PilotTypeOK'
  <2>1. run' \in [Runs -> Run]
    BY <1>1, NotRunningTyped DEF PilotIInv, PilotTypeOK
  <2>2. ASSUME NEW i \in EntityIds, NEW j \in EntityIds,
               row'[i] # Null, row'[j] # Null, row'[i].slug = row'[j].slug
        PROVE  i = j
    BY <1>2, <2>2 DEF PilotIInv, PilotTypeOK
  <2> QED  BY <1>5, <1>6, <2>1, <2>2 DEF PilotIInv, PilotTypeOK
<1>8. ASSUME NEW q \in Runs \ {r}
      PROVE  Keeps(q)
  <2>1. r # Null
    BY Nulls
  <2>2. ASSUME NEW x \in EntityIds, NEW y \in EntityIds, NEW k \in LinkTypes, NEW b \in {Null, q},
               [from |-> x, to |-> y, type |-> k, by |-> b] \in link
        PROVE  [from |-> x, to |-> y, type |-> k, by |-> b] \in link'
    BY <1>4, <2>1, <2>2
  <2> QED  BY <1>2, <1>3, <2>1, <2>2, Nulls DEF Keeps, Mine
<1>9. RunSound(r)' /\ LockMoves(r)
  BY <1>1, IdleSound, NotRunningTyped DEF LockMoves
<1> QED  BY <1>1, <1>2, <1>3, <1>7, <1>8, <1>9, Nulls

LEMMA CommitImportSound ==
  ASSUME PilotIInv, NEW r \in Runs, CommitImport(r)
  PROVE  PilotIInv'
<1>1. run[r].job = "import" /\ Commit(r) /\ UNCHANGED <<starts, edits>>
  BY DEF CommitImport
<1>2. \A i \in EntityIds : run[r].update[i] = Null
  BY <1>1, AtPlan
<1>3. ASSUME NEW i \in EntityIds
      PROVE  PartSound(i)'
  <2> SUFFICES ASSUME part'[i] # Null
               PROVE  PartSound(i)'
    BY DEF PartSound
  <2>1. part[i] # Null /\ part[i].by \in Runs \cup {Null} /\ PartSound(i)
    BY <1>1, Committed, PilotTyped DEF PilotIInv, Participation
  <2>2. row[i] # Null /\ row[i].by \in {Null, part[i].by}
    BY <2>1 DEF PartSound
  <2>3. /\ row'[i] # Null /\ row'[i].slug = row[i].slug
        /\ row'[i].by = IF row[i].by = r THEN Null ELSE row[i].by
        /\ part'[i].by = IF part[i].by = r THEN Null ELSE part[i].by
        /\ part'[i].contact = part[i].contact
    BY <1>1, <1>2, <2>1, <2>2, Committed
  <2>4. part'[i].by # Null => run'[part'[i].by] = run[part[i].by]
    BY <1>1, <2>1, <2>3, Committed
  <2> QED  BY <1>1, <2>1, <2>2, <2>3, <2>4 DEF PartSound, Fits
<1>4. ContactsComplete'
  <2>1. ASSUME NEW i \in EntityIds
        PROVE  /\ Published(part'[i]) /\ part'[i].contact.code # Null
                  <=> Published(part[i]) /\ part[i].contact.code # Null
               /\ Published(part[i]) /\ part[i].contact.code # Null
                  => part'[i].contact = part[i].contact
    <3>1. CASE part[i] = Null
      BY <1>1, <3>1, Committed DEF Published
    <3>2. CASE part[i] # Null
      <4>1. part[i].by # Null => part[i].contact.code = Null
        BY <3>2 DEF PilotIInv, PartSound, Blank
      <4> QED  BY <1>1, <1>2, <3>2, <4>1, Committed DEF Published
    <3> QED  BY <3>1, <3>2
  <2>2. PilotTypeOK'
    BY <1>1, Committed
  <2> QED  BY <1>3, <2>1, <2>2, CodedStays
<1> QED  BY <1>1, <1>3, <1>4, Committed, Assemble

LEMMA CheckAndCommitSound ==
  ASSUME PilotIInv, NEW r \in Runs, CheckAndCommit(r)
  PROVE  PilotIInv'
<1>1. CASE ~ Complete(r)
  BY <1>1, RollbackSound DEF CheckAndCommit
<1>2. CASE Complete(r)
  <2>1. run[r].job = "emails" /\ run[r].at = "write" /\ Commit(r) /\ UNCHANGED <<starts, edits>>
    BY <1>2 DEF CheckAndCommit, AtEmails
  <2>2. run[r].lock = "table"
    BY <2>1, AtMails
  <2> DEFINE After(i) == IF run[r].update[i] # Null THEN run[r].update[i]
                         ELSE IF part[i] # Null THEN part[i].contact ELSE Blank
             code == {i \in EntityIds : After(i).code # Null}
             mail == {i \in EntityIds : After(i).mail}
  <2>3. Cardinality(code) = Expected.total /\ Cardinality(mail) = Expected.total
    BY <1>2 DEF Complete
  <2>4. \A i \in EntityIds : run[r].update[i] # Null =>
          part[i] # Null /\ Fits(i, run[r].update[i])
    BY DEF PilotIInv, RunSound, UpdateSound
  <2>5. ASSUME NEW i \in EntityIds
        PROVE  /\ part[i] = Null => part'[i] = Null /\ After(i) = Blank
               /\ part[i] # Null =>
                    /\ part'[i] # Null /\ part'[i].by = Null /\ part'[i].contact = After(i)
                    /\ After(i).mail => After(i).code # Null
                    /\ PartSound(i)'
    <3>1. CASE part[i] = Null
      BY <2>1, <2>4, <3>1, Committed
    <3>2. CASE part[i] # Null
      <4>1. part[i].by = Null /\ row[i] # Null /\ row[i].by = Null /\ Fits(i, part[i].contact)
        BY <2>2, <3>2, TableAlone DEF PilotIInv, PartSound
      <4>2. /\ row'[i] # Null /\ row'[i].slug = row[i].slug /\ row'[i].by = Null
            /\ part'[i] # Null /\ part'[i].by = Null /\ part'[i].contact = After(i)
        BY <2>1, <3>2, <4>1, Committed
      <4>3. PICK c : c = After(i)
        OBVIOUS
      <4>4. Fits(i, c)
        BY <2>4, <3>2, <4>1, <4>3
      <4>5. Fits(i, c)'
        BY <2>1, <4>2, <4>4, FitsKept
      <4>6. PartSound(i)' /\ (After(i).mail => After(i).code # Null)
        BY <4>2, <4>3, <4>4, <4>5 DEF PartSound, Fits
      <4> QED  BY <3>2, <4>2, <4>6
    <3> QED  BY <3>1, <3>2
  <2>6. \A i \in EntityIds : PartSound(i)'
    BY <2>5 DEF PartSound
  <2>7. PilotTypeOK'
    BY <2>1, Committed
  <2> DEFINE coded2 == {i \in EntityIds : Published(part'[i]) /\ part'[i].contact.code # Null}
  <2>8. coded2 = code
    BY <2>5 DEF Published, Blank
  <2>9. mail = code
    <3>1. IsFiniteSet(EntityIds)
      BY FS_Interval, FS_CardinalityType, PilotAssumption DEF EntityIds
    <3>2. code \in SUBSET EntityIds
      OBVIOUS
    <3>3. mail \in SUBSET code
      BY <2>5 DEF Blank
    <3> HIDE DEF code, mail
    <3>4. IsFiniteSet(code)
      BY <3>1, <3>2, FS_Subset
    <3> QED  BY <2>3, <3>3, <3>4, FS_Subset
  <2>10. \A i \in coded2 : part'[i].contact.mail
    <3>1. \A i \in coded2 : After(i).mail
      BY <2>8, <2>9
    <3> QED  BY <2>5, <3>1 DEF Published
  <2>11. edits' = 0 => \A i, j \in coded2 : part'[i].contact.code = part'[j].contact.code => i = j
    BY <2>6, <2>7, CodesDistinct DEF Published
  <2>12. ContactsComplete'
    <3>1. Cardinality(coded2) = Expected.total
      BY <2>3, <2>8
    <3> QED  BY <2>10, <2>11, <3>1 DEF ContactsComplete
  <2> QED  BY <2>1, <2>6, <2>12, Committed, Assemble
<1> QED  BY <1>1, <1>2

------------------------------------------------------------------------------
(* The statements of the import.                                            *)

LEMMA StartImportSound ==
  ASSUME PilotIInv, NEW r \in Runs, NEW f \in Files, StartImport(r, f)
  PROVE  PilotIInv'
<1> DEFINE v == [NotRunning EXCEPT !.at = "select", !.job = "import", !.file = f,
                                   !.left = Plan[f]]
<1>1. run[r] = NotRunning /\ f \in DOMAIN Plan
  BY AtRest DEF StartImport
<1>2. run' = [run EXCEPT ![r] = v] /\ starts' \in 0 .. MaxStarts
      /\ UNCHANGED <<row, link, part, edits>>
  BY PilotAssumption DEF StartImport, PilotIInv, PilotTypeOK
<1>3. v \in Run
  BY <1>1, PlanStated DEF Run, NotRunning, Jobs
<1>4. /\ v.at = "select" /\ v.job = "import" /\ v.file = f /\ v.left = Plan[f]
      /\ v.lock = "none" /\ v.ids = NotRunning.ids /\ v.update = NotRunning.update
  BY DEF NotRunning
<1> HIDE DEF v
<1>5. run'[r] = v
  BY <1>2 DEF PilotIInv, PilotTypeOK
<1>6. ShapeSound(r)' /\ UpdateSound(r)'
  BY <1>1, <1>4, <1>5, NotRunningTyped DEF ShapeSound, UpdateSound
<1>7. Made(r)'
  BY <1>4, <1>5 DEF Made
<1>8. \A a \in Keys : HasRow(r, a)'
  BY <1>4, <1>5, NotRunningTyped DEF HasRow
<1>9. RunSound(r)'
  BY <1>6, <1>7, <1>8 DEF RunSound
<1>10. link \subseteq link' /\ link' \subseteq Link
  BY <1>2 DEF PilotIInv, PilotTypeOK
<1> QED  BY <1>1, <1>2, <1>3, <1>4, <1>5, <1>9, <1>10, NotRunningTyped, OnlyRun DEF LockMoves

LEMMA SelectEntitySound ==
  ASSUME PilotIInv, NEW r \in Runs, NEW st \in run[r].left, SelectEntity(r, st)
  PROVE  PilotIInv'
<1> DEFINE a == st.key
<1>1. /\ run[r].job = "import" /\ run[r].at = "select" /\ IsNext(r, st) /\ st.do = "ensure"
      /\ UNCHANGED <<row, link, part, starts, edits>>
  BY DEF SelectEntity, AtImport
<1>2. /\ run[r].file \in DOMAIN Plan /\ st \in Plan[run[r].file]
      /\ run[r].lock \in {"none", "rows"} /\ \A i \in EntityIds : run[r].update[i] = Null
      /\ run[r].left \subseteq Plan[run[r].file] /\ run[r] \in Run
  BY <1>1, AtPlan, PilotTyped DEF PilotIInv
<1>3. a \in Keys
  BY <1>2, PlanShape DEF InLoops1to5, InLoops6to8
<1>4. /\ link \subseteq link' /\ link' \subseteq Link /\ starts' \in 0 .. MaxStarts
      /\ UNCHANGED <<row, part, edits>>
  BY <1>1 DEF PilotIInv, PilotTypeOK
<1>5. Keeps(r)
  BY <1>1 DEF Keeps
<1>6. CASE Readable(r, a[2]) = {}
  <2> DEFINE v == [run[r] EXCEPT !.at = "insert"]
  <2>1. run' = [run EXCEPT ![r] = v]
    BY <1>6 DEF SelectEntity
  <2>2. v \in Run /\ v.lock = run[r].lock /\ v.ids = run[r].ids /\ v.left = run[r].left
        /\ v.job = "import" /\ v.file = run[r].file /\ v.update = run[r].update /\ v.at = "insert"
    BY <1>1, <1>2 DEF Run
  <2> HIDE DEF v
  <2>3. run'[r] = v
    BY <2>1 DEF PilotIInv, PilotTypeOK
  <2>4. ShapeSound(r)' /\ UpdateSound(r)'
    BY <1>2, <2>2, <2>3 DEF ShapeSound, UpdateSound
  <2>5. \A b \in Keys : HasRow(r, b)'
    BY <1>5, <2>2, <2>3, HasRowKept
  <2>6. \A p \in Plan[run[r].file] \ run[r].left : Effect(r, p)'
    BY <1>1, <1>2, <1>5, <2>2, <2>3, EffectKept DEF PilotIInv, RunSound, Made
  <2>7. Made(r)'
    BY <1>1, <2>2, <2>3, <2>6 DEF PilotIInv, RunSound, Made
  <2> QED  BY <1>4, <2>1, <2>2, <2>3, <2>4, <2>5, <2>7, OnlyRun DEF LockMoves, RunSound
<1>7. CASE Readable(r, a[2]) # {}
  <2>1. PICK i \in Readable(r, a[2]) : Done(r, st, [run[r] EXCEPT !.ids[st.key] = i])
    BY <1>7 DEF SelectEntity
  <2> DEFINE v == [run[r] EXCEPT !.ids[st.key] = i, !.left = @ \ {st}, !.at = "select"]
  <2>2. i \in EntityIds /\ row[i] # Null /\ row[i].slug = a[2] /\ Mine(r, row[i])
    BY DEF Readable, WithSlug
  <2>3. run' = [run EXCEPT ![r] = v]
    BY <2>1 DEF Done
  <2>4. /\ v \in Run /\ v.lock = run[r].lock /\ v.left = run[r].left \ {st}
        /\ v.job = "import" /\ v.file = run[r].file /\ v.update = run[r].update
        /\ v.at = "select" /\ v.ids = [run[r].ids EXCEPT ![a] = i]
    BY <1>1, <1>2, <1>3, <2>2 DEF Run
  <2> HIDE DEF v
  <2>5. run'[r] = v
    BY <2>3 DEF PilotIInv, PilotTypeOK
  <2>6. v.ids[a] = i /\ \A b \in Keys \ {a} : v.ids[b] = run[r].ids[b]
    BY <1>2, <1>3, <2>4, RunFields
  <2>7. \A b \in Keys : HasRow(r, b)'
    <3>1. HasRow(r, a)'
      BY <1>1, <2>2, <2>5, <2>6 DEF HasRow
    <3> QED  BY <1>5, <2>5, <2>6, <3>1, HasRowKept
  <2>8. Effect(r, st)'
    BY <1>1, <2>2, <2>5, <2>6, Nulls DEF Effect
  <2>9. \A b \in Keys : run[r].ids[b] # Null => v.ids[b] # Null
    BY <2>2, <2>6, Nulls
  <2>10. /\ v.at \in {"select", "insert"} /\ v.lock \in {"none", "rows"}
         /\ st.do # "ensure" => v.ids = run[r].ids
    BY <1>1, <1>2, <2>4
  <2>11. RunSound(r)'
    BY <1>1, <1>5, <2>4, <2>5, <2>7, <2>8, <2>9, <2>10, ImportGoesOn, ZenonT(60)
  <2> QED  BY <1>4, <2>3, <2>4, <2>5, <2>11, OnlyRun DEF LockMoves
<1> QED  BY <1>6, <1>7

\* There are as many ids as slugs: one of them is free.
LEMMA FreeId ==
  ASSUME PilotTypeOK, NEW s \in Names, WithSlug(s) = {}
  PROVE  \E j \in EntityIds : row[j] = Null
<1> SUFFICES ASSUME \A j \in EntityIds : row[j] # Null
             PROVE  FALSE
  OBVIOUS
<1> DEFINE g == [j \in EntityIds |-> row[j].slug]
           T == Names \ {s}
<1>1. \A j \in EntityIds : row[j].slug \in T
  BY PilotTyped DEF Row, WithSlug
<1>2. g \in [EntityIds -> T]
  BY <1>1
<1>3. /\ Cardinality(Names) \in Nat
      /\ IsFiniteSet(EntityIds) /\ Cardinality(EntityIds) = Cardinality(Names)
      /\ IsFiniteSet(T) /\ Cardinality(T) = Cardinality(Names) - 1
  <2>1. Cardinality(Names) \in Nat
    BY FS_CardinalityType, PilotAssumption
  <2>2. IsFiniteSet(T) /\ Cardinality(T) = Cardinality(Names) - 1
    BY FS_RemoveElement, PilotAssumption
  <2>3. IsFiniteSet(EntityIds) /\ Cardinality(EntityIds) = Cardinality(Names)
    <3>1. Cardinality(1 .. Cardinality(Names))
            = IF 1 > Cardinality(Names) THEN 0 ELSE Cardinality(Names) - 1 + 1
      BY <2>1, FS_Interval
    <3> QED  BY <2>1, <3>1, FS_Interval DEF EntityIds
  <2> QED  BY <2>1, <2>2, <2>3
<1> HIDE DEF T
<1>4. PICK x, y \in EntityIds : x # y /\ g[x] = g[y]
  <2> HIDE DEF g
  <2> QED  BY <1>2, <1>3, FS_PigeonHole
<1>5. row[x].slug = row[y].slug
  BY <1>4
<1> QED  BY <1>4, <1>5 DEF PilotTypeOK

\* A new row disturbs nobody: nothing was said about its id.
LEMMA RowAdded ==
  ASSUME PilotIInv, NEW i \in EntityIds, row[i] = Null,
         NEW n \in Row, WithSlug(n.slug) = {}, row' = [row EXCEPT ![i] = n],
         run' \in [Runs -> Run], \A q \in Runs : run'[q].lock = run[q].lock,
         UNCHANGED <<link, part>>, starts' \in 0 .. MaxStarts, edits' \in edits .. MaxEdits
  PROVE  /\ PilotTypeOK' /\ \A q \in Runs : Keeps(q)
         /\ \A j \in EntityIds : PartSound(j)'
         /\ ContactsComplete'
<1>1. row'[i] = n /\ n # Null /\ \A j \in EntityIds \ {i} : row'[j] = row[j]
  BY Nulls DEF PilotIInv, PilotTypeOK
<1>2. edits \in Nat /\ edits' \in Nat /\ edits <= edits' /\ edits' \in 0 .. MaxEdits
  BY PilotAssumption DEF PilotIInv, PilotTypeOK
<1>3. PilotTypeOK'
  <2>1. row' \in [EntityIds -> Row \cup {Null}]
    BY DEF PilotIInv, PilotTypeOK
  <2>2. ASSUME NEW j \in EntityIds, NEW k \in EntityIds,
               row'[j] # Null, row'[k] # Null, row'[j].slug = row'[k].slug
        PROVE  j = k
    BY <1>1, <2>2 DEF PilotIInv, PilotTypeOK, WithSlug
  <2> QED  BY <1>2, <2>1, <2>2 DEF PilotIInv, PilotTypeOK
<1>4. \A q \in Runs : Keeps(q)
  BY <1>1, <1>2 DEF Keeps
<1>5. ASSUME NEW j \in EntityIds
      PROVE  PartSound(j)'
  <2> SUFFICES ASSUME part[j] # Null
               PROVE  PartSound(j)'
    BY DEF PartSound
  <2>1. PartSound(j) /\ part[j].by \in Runs \cup {Null}
    BY PilotTyped DEF PilotIInv, Participation
  <2>2. row'[j] = row[j]
    BY <1>1, <2>1 DEF PartSound
  <2> QED  BY <1>2, <2>1, <2>2 DEF PartSound, Fits
<1>6. ContactsComplete'
  BY <1>3, <1>5, CodedStays
<1> QED  BY <1>3, <1>4, <1>5, <1>6

LEMMA InsertMissingSound ==
  ASSUME PilotIInv, NEW r \in Runs, NEW st \in run[r].left, InsertMissing(r, st)
  PROVE  PilotIInv'
<1> DEFINE a == st.key
           free == CHOOSE j \in EntityIds : row[j] = Null
<1>1. /\ run[r].job = "import" /\ run[r].at = "insert" /\ IsNext(r, st) /\ st.do = "ensure"
      /\ UNCHANGED <<starts, edits>>
  BY DEF InsertMissing, AtImport
<1>2. CASE WithSlug(a[2]) # {}
  BY <1>1, <1>2, RollbackSound DEF InsertMissing
<1>3. CASE WithSlug(a[2]) = {}
  <2>1. run[r].file \in DOMAIN Plan /\ st \in Plan[run[r].file]
        /\ run[r].lock \in {"none", "rows"} /\ run[r] \in Run
    BY <1>1, AtPlan, PilotTyped DEF PilotIInv
  <2>2. a \in Keys /\ a[1] \in DOMAIN KindIn /\ a[2] \in Names /\ KindIn[a[1]] \in RowKinds
    <3>1. a \in Keys
      BY <2>1, PlanShape DEF InLoops1to5, InLoops6to8
    <3>2. a[1] \in DOMAIN KindIn /\ a[2] \in Names
      BY <3>1 DEF Keys
    <3> QED  BY <3>1, <3>2 DEF KindIn, RowKinds
  <2>3. PICK i \in EntityIds : i = free /\ row[i] = Null
    BY <1>3, <2>2, FreeId DEF PilotIInv
  <2> DEFINE n == [slug |-> a[2], kind |-> KindIn[a[1]], by |-> r]
             v == [run[r] EXCEPT !.ids[st.key] = i, !.left = @ \ {st}, !.at = "select"]
  <2>4. row' = [row EXCEPT ![i] = n] /\ run' = [run EXCEPT ![r] = v]
        /\ UNCHANGED <<link, part, starts, edits>>
    BY <1>1, <1>3, <2>3 DEF InsertMissing, Done
  <2>5. /\ v \in Run /\ v.lock = run[r].lock /\ v.left = run[r].left \ {st}
        /\ v.job = "import" /\ v.file = run[r].file /\ v.update = run[r].update
        /\ v.at = "select" /\ v.ids = [run[r].ids EXCEPT ![a] = i]
    BY <1>1, <2>1, <2>2 DEF Run
  <2>6. n \in Row /\ n.slug = a[2] /\ n.by = r
    BY <2>2 DEF Row
  <2> HIDE DEF v, n
  <2>7. run'[r] = v /\ run' \in [Runs -> Run] /\ \A q \in Runs \ {r} : run'[q] = run[q]
    BY <2>4, <2>5 DEF PilotIInv, PilotTypeOK
  <2>8. row'[i] = n /\ n # Null
    BY <2>4, <2>6, Nulls DEF PilotIInv, PilotTypeOK
  <2>9. starts' \in 0 .. MaxStarts /\ edits' \in edits .. MaxEdits
    BY <1>1, PilotAssumption DEF PilotIInv, PilotTypeOK
  <2>10. /\ PilotTypeOK' /\ \A q \in Runs : Keeps(q)
         /\ \A j \in EntityIds : PartSound(j)'
         /\ ContactsComplete'
    BY <1>3, <2>3, <2>4, <2>5, <2>6, <2>7, <2>9, RowAdded
  <2>11. v.ids[a] = i /\ \A b \in Keys \ {a} : v.ids[b] = run[r].ids[b]
    BY <2>1, <2>2, <2>5, RunFields
  <2>12. \A b \in Keys : HasRow(r, b)'
    <3>1. HasRow(r, a)'
      BY <2>6, <2>7, <2>8, <2>11 DEF HasRow, Mine
    <3> QED  BY <2>7, <2>10, <2>11, <3>1, HasRowKept
  <2>13. Effect(r, st)'
    BY <1>1, <2>7, <2>11, Nulls DEF Effect
  <2>14. RunSound(r)'
    BY <1>1, <2>1, <2>5, <2>7, <2>10, <2>11, <2>12, <2>13, Nulls, ImportGoesOn, ZenonT(60)
  <2> QED  BY <2>5, <2>7, <2>10, <2>14, Assemble DEF LockMoves
<1> QED  BY <1>2, <1>3

LEMMA InsertRelationshipSound ==
  ASSUME PilotIInv, NEW r \in Runs, NEW st \in run[r].left, InsertRelationship(r, st)
  PROVE  PilotIInv'
<1> DEFINE from == run[r].ids[st.key]
           to == run[r].ids[st.to]
           same == {l \in link : l.from = from /\ l.to = to /\ l.type = st.type}
           skipped == from = to /\ st.type # "participant_of"
           n == [from |-> from, to |-> to, type |-> st.type, by |-> r]
           v == [run[r] EXCEPT !.left = @ \ {st}, !.at = "select"]
<1>1. /\ run[r].job = "import" /\ IsNext(r, st) /\ st.do = "relate"
      /\ UNCHANGED <<starts, edits>> /\ \A l \in same : ~ ByOther(r, l)
  BY DEF InsertRelationship, AtImport
<1>2. run[r].file \in DOMAIN Plan /\ st \in Plan[run[r].file]
      /\ run[r].lock \in {"none", "rows"} /\ run[r] \in Run
  BY <1>1, AtPlan, PilotTyped DEF PilotIInv
<1>3. /\ st.key \in Keys /\ Ensured(run[r].file, st.key) /\ st.type \in LinkTypes
      /\ st.to \in Keys /\ Ensured(run[r].file, st.to)
  BY <1>1, <1>2, PlanShape DEF InLoops1to5, InLoops6to8
<1>4. from \in EntityIds /\ to \in EntityIds
  BY <1>1, <1>3, HasIds
<1>5. CASE Rollback(r)
  BY <1>1, <1>5, RollbackSound
<1>6. CASE ~ Rollback(r)
  <2>1. /\ run' = [run EXCEPT ![r] = v] /\ UNCHANGED <<row, part>>
        /\ \/ (skipped \/ same # {}) /\ link' = link
           \/ same = {} /\ link' = link \cup {n}
    BY <1>6 DEF InsertRelationship, Done
  <2>2. /\ v \in Run /\ v.lock = run[r].lock /\ v.left = run[r].left \ {st}
        /\ v.job = "import" /\ v.file = run[r].file /\ v.update = run[r].update
        /\ v.at = "select" /\ v.ids = run[r].ids
    BY <1>1, <1>2 DEF Run
  <2>3. n \in Link
    BY <1>3, <1>4 DEF Link
  <2> HIDE DEF v
  <2>4. run'[r] = v
    BY <2>1 DEF PilotIInv, PilotTypeOK
  <2>5. link \subseteq link' /\ link' \subseteq Link /\ starts' \in 0 .. MaxStarts
    BY <1>1, <2>1, <2>3 DEF PilotIInv, PilotTypeOK
  <2>6. Keeps(r)
    BY <1>1, <2>1, <2>5 DEF Keeps
  <2>7. \A b \in Keys : HasRow(r, b)'
    BY <2>2, <2>4, <2>6, HasRowKept
  <2>8. skipped \/ \E b \in {Null, r} : [from |-> from, to |-> to, type |-> st.type, by |-> b] \in link'
    <3>1. CASE skipped
      BY <3>1
    <3>2. CASE same # {}
      <4>1. PICK l \in same : TRUE
        BY <3>2
      <4>2. l \in Link /\ l.from = from /\ l.to = to /\ l.type = st.type /\ l.by \in {Null, r}
        BY <1>1, <4>1 DEF PilotIInv, PilotTypeOK, ByOther
      <4>3. l = [from |-> from, to |-> to, type |-> st.type, by |-> l.by]
        BY <4>2 DEF Link
      <4> QED  BY <2>5, <4>1, <4>2, <4>3
    <3>3. CASE n \in link'
      BY <3>3
    <3> QED  BY <2>1, <3>1, <3>2, <3>3
  <2>9. Effect(r, st)'
    BY <1>1, <1>4, <2>2, <2>4, <2>8, Nulls DEF Effect
  <2>10. RunSound(r)'
    BY <1>1, <1>2, <2>2, <2>4, <2>6, <2>7, <2>9, ImportGoesOn
  <2> QED  BY <1>1, <2>1, <2>2, <2>4, <2>5, <2>10, OnlyRun DEF LockMoves
<1> QED  BY <1>5, <1>6

LEMMA InsertParticipationSound ==
  ASSUME PilotIInv, NEW r \in Runs, NEW st \in run[r].left, InsertParticipation(r, st)
  PROVE  PilotIInv'
<1> DEFINE n == [contact |-> Blank, by |-> r]
           v == [run[r] EXCEPT !.lock = "rows", !.left = @ \ {st}, !.at = "select"]
<1>1. PICK i : i = run[r].ids[st.key]
  OBVIOUS
<1>2. /\ run[r].job = "import" /\ IsNext(r, st) /\ st.do = "participate"
      /\ \A q \in Runs \ {r} : run[q].lock # "table"
      /\ part[i] # Null => Mine(r, part[i])
      /\ part' = IF part[i] # Null THEN part ELSE [part EXCEPT ![i] = n]
      /\ run' = [run EXCEPT ![r] = v]
      /\ UNCHANGED <<row, link, starts, edits>>
  BY <1>1 DEF InsertParticipation, AtImport, Done, ByOther, Mine
<1>3. run[r].file \in DOMAIN Plan /\ st \in Plan[run[r].file]
      /\ run[r].lock \in {"none", "rows"} /\ run[r] \in Run
  BY <1>2, AtPlan, PilotTyped DEF PilotIInv
<1>4. st.key \in Keys /\ Ensured(run[r].file, st.key)
  BY <1>2, <1>3, PlanShape DEF InLoops1to5, InLoops6to8
<1>5. i \in EntityIds /\ row[i] # Null /\ Mine(r, row[i])
  <2>1. i \in EntityIds
    BY <1>1, <1>2, <1>4, HasIds
  <2> QED  BY <1>1, <1>4, <2>1, Nulls DEF PilotIInv, RunSound, HasRow
<1>6. /\ v \in Run /\ v.lock = "rows" /\ v.left = run[r].left \ {st}
      /\ v.job = "import" /\ v.file = run[r].file /\ v.update = run[r].update
      /\ v.at = "select" /\ v.ids = run[r].ids
  BY <1>2, <1>3 DEF Run
<1>7. n \in Participation /\ n.by = r /\ n.contact = Blank
  BY BlankTyped DEF Participation
<1> HIDE DEF v, n
<1>8. run'[r] = v /\ \A q \in Runs \ {r} : run'[q] = run[q]
  BY <1>2 DEF PilotIInv, PilotTypeOK
<1>9. /\ part'[i] # Null /\ Mine(r, part'[i])
      /\ part'[i] = IF part[i] # Null THEN part[i] ELSE n
      /\ \A j \in EntityIds \ {i} : part'[j] = part[j]
  BY <1>2, <1>5, <1>7, Nulls DEF PilotIInv, PilotTypeOK, Mine
<1>10. PilotTypeOK'
  BY <1>2, <1>6, <1>7 DEF PilotIInv, PilotTypeOK
<1>11. \A q \in Runs : Keeps(q)
  BY <1>2, <1>9 DEF Keeps
<1>12. ASSUME NEW j \in EntityIds
       PROVE  PartSound(j)'
  <2>1. CASE part'[j] = part[j]
    <3>1. part[j] # Null => part[j].by \in Runs \cup {Null}
      BY PilotTyped DEF PilotIInv, Participation
    <3>2. PartSound(j)
      BY DEF PilotIInv
    <3>3. \A q \in Runs : run[q].lock = "rows" => run'[q].lock = "rows"
      BY <1>6, <1>8
    <3> QED  BY <1>2, <2>1, <3>1, <3>2, <3>3 DEF PartSound, Fits
  <2>2. CASE part'[j] # part[j]
    <3>1. j = i /\ part'[j] = n
      BY <1>9, <2>2
    <3>2. Fits(j, Blank)'
      BY DEF Fits, Blank
    <3> QED  BY <1>2, <1>5, <1>6, <1>7, <1>8, <3>1, <3>2, Nulls DEF PartSound, Mine, Fits
  <2> QED  BY <2>1, <2>2
<1>13. ContactsComplete'
  <2>1. \A j \in EntityIds : part'[j] # part[j] => part[j] = Null /\ ~ Published(part'[j])
    BY <1>7, <1>9, Nulls DEF Published
  <2> QED  BY <1>10, <1>12, <2>1, CodedStays DEF Published
<1>14. Effect(r, st)'
  BY <1>1, <1>2, <1>5, <1>6, <1>8, <1>9, Nulls DEF Effect
<1>15. \A b \in Keys : HasRow(r, b)'
  BY <1>6, <1>8, <1>11, HasRowKept
<1>16. RunSound(r)'
  BY <1>2, <1>3, <1>6, <1>8, <1>11, <1>14, <1>15, ImportGoesOn
<1> QED  BY <1>2, <1>6, <1>8, <1>10, <1>11, <1>12, <1>13, <1>16, Assemble DEF LockMoves

------------------------------------------------------------------------------
(* The statements of the e-mail script, and the dashboard.                  *)

\* A step of the e-mail script that ends no transaction.
LEMMA MailsGoOn ==
  ASSUME PilotIInv, NEW r \in Runs, NEW v \in Run, run' = [run EXCEPT ![r] = v],
         starts' \in 0 .. MaxStarts, UNCHANGED <<row, link, part, edits>>, LockMoves(r),
         run[r].lock # "rows", v.job = "emails", ShapeSound(r)', UpdateSound(r)',
         \A a \in Keys : v.ids[a] = run[r].ids[a] \/ HasRow(r, a)'
  PROVE  PilotIInv'
<1>1. run'[r] = v
  BY DEF PilotIInv, PilotTypeOK
<1>2. Keeps(r)
  BY DEF Keeps
<1>3. \A a \in Keys : HasRow(r, a)'
  BY <1>1, <1>2, HasRowKept
<1>4. Made(r)'
  BY <1>1 DEF Made
<1>5. RunSound(r)' /\ link \subseteq link' /\ link' \subseteq Link
  BY <1>3, <1>4 DEF RunSound, PilotIInv, PilotTypeOK
<1> QED  BY <1>5, OnlyRun

LEMMA StartEmailsSound ==
  ASSUME PilotIInv, NEW r \in Runs, NEW f \in Files, NEW m \in MailFiles, StartEmails(r, f, m)
  PROVE  PilotIInv'
<1> DEFINE v == [NotRunning EXCEPT !.at = "select", !.job = "emails", !.file = f, !.mails = m]
<1>1. run[r] = NotRunning
  BY AtRest DEF StartEmails
<1>2. run' = [run EXCEPT ![r] = v] /\ starts' \in 0 .. MaxStarts
      /\ UNCHANGED <<row, link, part, edits>>
  BY PilotAssumption DEF StartEmails, PilotIInv, PilotTypeOK
<1>3. v \in Run
  BY DEF Run, NotRunning, Jobs
<1>4. /\ v.at = "select" /\ v.job = "emails" /\ v.file = f /\ v.mails = m
      /\ v.lock = "none" /\ v.ids = NotRunning.ids /\ v.update = NotRunning.update
  BY DEF NotRunning
<1> HIDE DEF v
<1>5. run'[r] = v
  BY <1>2 DEF PilotIInv, PilotTypeOK
<1>6. ShapeSound(r)' /\ UpdateSound(r)'
  BY <1>4, <1>5, NotRunningTyped DEF ShapeSound, UpdateSound
<1> QED  BY <1>1, <1>2, <1>3, <1>4, <1>5, <1>6, NotRunningTyped, MailsGoOn DEF LockMoves

LEMMA AlterParticipationsSound ==
  ASSUME PilotIInv, NEW r \in Runs, AlterParticipations(r)
  PROVE  PilotIInv'
<1>1. CASE Readable(r, Event) = {}
  BY <1>1, RollbackSound DEF AlterParticipations
<1>2. CASE Readable(r, Event) # {}
  <2>1. PICK i \in Readable(r, Event) :
          run' = [run EXCEPT ![r] = [run[r] EXCEPT !.at = "write", !.lock = "table",
                                     !.left = ByNumber[run[r].file], !.ids[EventKey] = i]]
    BY <1>2 DEF AlterParticipations
  <2> DEFINE v == [run[r] EXCEPT !.at = "write", !.lock = "table",
                                 !.left = ByNumber[run[r].file], !.ids[EventKey] = i]
  <2>2. /\ run[r].job = "emails" /\ run[r].at = "select"
        /\ \A q \in Runs \ {r} : run[q].lock = "none"
        /\ UNCHANGED <<row, link, part, starts, edits>>
    BY <1>2 DEF AlterParticipations, AtEmails
  <2>3. /\ run[r].file \in Files /\ run[r].mails \in MailFiles /\ run[r].lock = "none"
        /\ \A j \in EntityIds : run[r].update[j] = Null
    BY <2>2, AtMails
  <2>4. i \in EntityIds /\ row[i] # Null /\ row[i].slug = Event /\ Mine(r, row[i])
    BY DEF Readable, WithSlug
  <2>5. run[r] \in Run /\ EventKey \in Keys
    BY PilotTyped, PilotAssumption DEF PilotIInv, EventKey, Keys, KindIn
  <2>6. /\ v \in Run /\ v.at = "write" /\ v.lock = "table" /\ v.left = ByNumber[run[r].file]
        /\ v.job = "emails" /\ v.file = run[r].file /\ v.mails = run[r].mails
        /\ v.update = run[r].update /\ v.ids = [run[r].ids EXCEPT ![EventKey] = i]
    BY <2>2, <2>3, <2>4, <2>5, PlanStated DEF Run
  <2>7. run' = [run EXCEPT ![r] = v]
    BY <2>1
  <2> HIDE DEF v
  <2>8. run'[r] = v
    BY <2>7 DEF PilotIInv, PilotTypeOK
  <2>9. ShapeSound(r)' /\ UpdateSound(r)'
    BY <2>3, <2>6, <2>8 DEF ShapeSound, UpdateSound
  <2>10. v.ids[EventKey] = i /\ \A a \in Keys \ {EventKey} : v.ids[a] = run[r].ids[a]
    BY <2>5, <2>6, RunFields
  <2>11. HasRow(r, EventKey)'
    BY <2>2, <2>4, <2>8, <2>10 DEF HasRow, EventKey
  <2>12. starts' \in 0 .. MaxStarts
    BY <2>2 DEF PilotIInv, PilotTypeOK
  <2> QED  BY <2>2, <2>3, <2>6, <2>7, <2>8, <2>9, <2>10, <2>11, <2>12, MailsGoOn DEF LockMoves
<1> QED  BY <1>1, <1>2

LEMMA UpdateParticipationSound ==
  ASSUME PilotIInv, NEW r \in Runs, NEW st \in run[r].left, UpdateParticipation(r, st)
  PROVE  PilotIInv'
<1> DEFINE p == st.pres
           s == GetSubjectSlug(p)
           c == ContactOf(p, run[r].mails)
           hit == {i \in Readable(r, s) : row[run[r].ids[EventKey]].kind = "event" /\ part[i] # Null}
<1>1. run[r].job = "emails" /\ run[r].at = "write" /\ UNCHANGED <<starts, edits>>
  BY DEF UpdateParticipation, AtEmails
<1>2. CASE hit = {}
  BY <1>1, <1>2, RollbackSound DEF UpdateParticipation
<1>3. CASE hit # {}
  <2>1. PICK i \in hit : /\ run' = [run EXCEPT ![r] = [run[r] EXCEPT !.update[i] = c, !.left = @ \ {st}]]
                         /\ UNCHANGED <<row, link, part>>
    BY <1>3 DEF UpdateParticipation
  <2> DEFINE v == [run[r] EXCEPT !.update[i] = c, !.left = @ \ {st}]
  <2>8. run' = [run EXCEPT ![r] = v]
    BY <2>1
  <2>2. /\ run[r].file \in Files /\ run[r].mails \in MailFiles /\ run[r].lock = "table"
        /\ run[r].left \subseteq ByNumber[run[r].file] /\ run[r] \in Run
    BY <1>1, AtMails, PilotTyped DEF PilotIInv
  <2>3. i \in EntityIds /\ row[i] # Null /\ row[i].slug = s /\ part[i] # Null
    BY <2>1 DEF Readable, WithSlug
  <2>4. c \in Contact /\ c.code = p.num /\ c.code # Null
    <3>0. PICK f \in Files : f = run[r].file
      BY <2>2
    <3>1. PICK k \in DOMAIN f : p = f[k]
      <4>1. st \in ByNumber[f]
        BY <2>2, <3>0
      <4> QED  BY <4>1 DEF ByNumber
    <3>2. p.num \in Nums
      BY <3>1 DEF Nums
    <3>3. f \in Seq(Presentation)
      BY PilotAssumption
    <3>4. p \in Presentation
      BY <3>1, <3>3
    <3>5. p.num \in Nat
      BY <3>4 DEF Presentation
    <3> QED  BY <3>2, <3>5, Nulls DEF ContactOf, Contact
  <2>5. \E k \in DOMAIN SubjectOf : k[1] = p.num /\ SubjectOf[k] = s
    <3>1. s \in Names
      BY <2>3, PilotTyped DEF PilotIInv, Row
    <3>2. <<p.num, p.tipo>> \in DOMAIN SubjectOf /\ s = SubjectOf[<<p.num, p.tipo>>]
      BY <3>1, Nulls DEF GetSubjectSlug
    <3> QED  BY <3>2
  <2>6. Fits(i, c)
    BY <2>3, <2>4, <2>5 DEF Fits
  <2> HIDE DEF c
  <2>7. /\ v \in Run /\ v.at = "write" /\ v.lock = "table" /\ v.left = run[r].left \ {st}
        /\ v.job = "emails" /\ v.file = run[r].file /\ v.mails = run[r].mails
        /\ v.update = [run[r].update EXCEPT ![i] = c] /\ v.ids = run[r].ids
    BY <1>1, <2>2, <2>3, <2>4 DEF Run
  <2> HIDE DEF v
  <2>9. run'[r] = v
    BY <2>8 DEF PilotIInv, PilotTypeOK
  <2>10. ShapeSound(r)'
    BY <2>2, <2>7, <2>9 DEF ShapeSound
  <2>11. UpdateSound(r)'
    <3>1. UpdateSound(r)
      BY DEF PilotIInv, RunSound
    <3>2. v.update[i] = c /\ \A j \in EntityIds \ {i} : v.update[j] = run[r].update[j]
      BY <2>2, <2>3, <2>7, RunFields
    <3>3. UNCHANGED <<row, part, edits>>
      BY <1>1, <2>1
    <3>4. \A j \in EntityIds : v.update[j] # Null =>
            part[j] # Null /\ v.update[j].code # Null /\ Fits(j, v.update[j])
      BY <2>3, <2>4, <2>6, <3>1, <3>2 DEF UpdateSound
    <3> QED  BY <2>7, <2>9, <3>3, <3>4 DEF UpdateSound, Fits
  <2>12. starts' \in 0 .. MaxStarts
    BY <1>1 DEF PilotIInv, PilotTypeOK
  <2> QED  BY <1>1, <2>1, <2>2, <2>7, <2>8, <2>9, <2>10, <2>11, <2>12, MailsGoOn DEF LockMoves
<1> QED  BY <1>2, <1>3

LEMMA DieSound ==
  ASSUME PilotIInv, NEW r \in Runs, Die(r)
  PROVE  PilotIInv'
BY RollbackSound DEF Die

\* Nobody starts, goes on or ends.
LEMMA RunsStay ==
  ASSUME PilotIInv, UNCHANGED run, PilotTypeOK', \A q \in Runs : Keeps(q),
         \A i \in EntityIds : PartSound(i)', ContactsComplete'
  PROVE  PilotIInv'
<1>1. Alone'
  BY DEF PilotIInv, Alone
<1>2. \A q \in Runs : RunSound(q)'
  BY RunKept
<1> QED  BY <1>1, <1>2 DEF PilotIInv

LEMMA CreateEntitySound ==
  ASSUME PilotIInv, NEW s \in Names, NEW k \in {"person", "organization"}, CreateEntity(s, k)
  PROVE  PilotIInv'
<1> DEFINE n == [slug |-> s, kind |-> k, by |-> Null]
<1>1. PICK i \in EntityIds : i = (CHOOSE j \in EntityIds : row[j] = Null) /\ row[i] = Null
  BY FreeId DEF CreateEntity, PilotIInv
<1>2. row' = [row EXCEPT ![i] = n] /\ UNCHANGED <<link, part, run, starts>>
      /\ WithSlug(s) = {} /\ edits' = edits + 1 /\ edits < MaxEdits
  BY <1>1 DEF CreateEntity
<1>3. n \in Row /\ n.slug = s
  BY DEF Row, RowKinds
<1>4. edits' \in edits .. MaxEdits /\ starts' \in 0 .. MaxStarts /\ run' \in [Runs -> Run]
  BY <1>2, PilotAssumption DEF PilotIInv, PilotTypeOK
<1> HIDE DEF n
<1>5. /\ PilotTypeOK' /\ \A q \in Runs : Keeps(q)
      /\ \A j \in EntityIds : PartSound(j)'
      /\ ContactsComplete'
  BY <1>1, <1>2, <1>3, <1>4, RowAdded
<1> QED  BY <1>2, <1>5, RunsStay

LEMMA RenameEntitySound ==
  ASSUME PilotIInv, NEW i \in EntityIds, NEW s \in Names, RenameEntity(i, s)
  PROVE  PilotIInv'
<1> DEFINE n == [row[i] EXCEPT !.slug = s]
<1>1. row' = [row EXCEPT ![i] = n] /\ UNCHANGED <<link, part, run, starts>>
      /\ WithSlug(s) = {} /\ edits' = edits + 1 /\ edits < MaxEdits /\ row[i] # Null
  BY DEF RenameEntity, Published
<1>2. n \in Row /\ n.slug = s /\ n.by = row[i].by
  BY <1>1, PilotTyped DEF PilotIInv, Row
<1> HIDE DEF n
<1>3. row'[i] = n /\ n # Null /\ \A j \in EntityIds \ {i} : row'[j] = row[j]
  BY <1>1, <1>2, Nulls DEF PilotIInv, PilotTypeOK
<1>4. edits' # 0 /\ edits' \in 0 .. MaxEdits
  BY <1>1, PilotAssumption DEF PilotIInv, PilotTypeOK
<1>5. PilotTypeOK'
  <2>1. row' \in [EntityIds -> Row \cup {Null}]
    BY <1>1, <1>2 DEF PilotIInv, PilotTypeOK
  <2>2. ASSUME NEW j \in EntityIds, NEW k \in EntityIds,
               row'[j] # Null, row'[k] # Null, row'[j].slug = row'[k].slug
        PROVE  j = k
    BY <1>1, <1>2, <1>3, <2>2 DEF PilotIInv, PilotTypeOK, WithSlug
  <2> QED  BY <1>1, <1>4, <2>1, <2>2 DEF PilotIInv, PilotTypeOK
<1>6. \A q \in Runs : Keeps(q)
  BY <1>1, <1>2, <1>3, <1>4 DEF Keeps, Mine
<1>7. ASSUME NEW j \in EntityIds
      PROVE  PartSound(j)'
  <2>1. PartSound(j)
    BY DEF PilotIInv
  <2>2. row[j] # Null => row'[j] # Null /\ row'[j].by = row[j].by
    BY <1>2, <1>3
  <2> QED  BY <1>1, <1>4, <2>1, <2>2 DEF PartSound, Fits
<1>8. ContactsComplete'
  BY <1>1, <1>5, <1>7, CodedStays
<1> QED  BY <1>1, <1>5, <1>6, <1>7, <1>8, RunsStay

LEMMA PilotInitSound ==
  ASSUME PilotInit
  PROVE  PilotIInv
<1> USE DEF PilotInit
<1>1. PilotTypeOK
  BY NotRunningTyped, PilotAssumption DEF PilotTypeOK
<1>2. \A r \in Runs : RunSound(r)
  BY NotRunningTyped, Nulls DEF RunSound, ShapeSound, HasRow, Made, UpdateSound
<1>3. Alone /\ \A i \in EntityIds : PartSound(i)
  BY NotRunningTyped DEF Alone, PartSound
<1>4. ContactsComplete
  <2>1. {i \in EntityIds : Published(part[i]) /\ part[i].contact.code # Null} = {}
    BY DEF Published
  <2> QED  BY <2>1, FS_EmptySet DEF ContactsComplete
<1> QED  BY <1>1, <1>2, <1>3, <1>4 DEF PilotIInv

LEMMA PilotStepSound ==
  ASSUME PilotIInv, [PilotNext]_pilotVars
  PROVE  PilotIInv'
<1>1. CASE UNCHANGED pilotVars
  BY <1>1 DEF pilotVars, PilotIInv, PilotTypeOK, Alone, RunSound, ShapeSound, HasRow, Made,
              Effect, UpdateSound, Fits, PartSound, ContactsComplete
<1>2. ASSUME NEW r \in Runs, NEW f \in Files, StartImport(r, f)
      PROVE  PilotIInv'
  BY <1>2, StartImportSound
<1>3. ASSUME NEW r \in Runs, NEW f \in Files, NEW m \in MailFiles, StartEmails(r, f, m)
      PROVE  PilotIInv'
  BY <1>3, StartEmailsSound
<1>4. ASSUME NEW r \in Runs, NEW st \in run[r].left,
             \/ SelectEntity(r, st) \/ InsertMissing(r, st) \/ InsertRelationship(r, st)
             \/ InsertParticipation(r, st) \/ UpdateParticipation(r, st)
      PROVE  PilotIInv'
  BY <1>4, SelectEntitySound, InsertMissingSound, InsertRelationshipSound,
     InsertParticipationSound, UpdateParticipationSound
<1>5. ASSUME NEW r \in Runs,
             \/ CommitImport(r) \/ AlterParticipations(r) \/ CheckAndCommit(r) \/ Die(r)
      PROVE  PilotIInv'
  BY <1>5, CommitImportSound, AlterParticipationsSound, CheckAndCommitSound, DieSound
<1>6. ASSUME NEW s \in Names, NEW k \in {"person", "organization"}, CreateEntity(s, k)
      PROVE  PilotIInv'
  BY <1>6, CreateEntitySound
<1>7. ASSUME NEW i \in EntityIds, NEW s \in Names, RenameEntity(i, s)
      PROVE  PilotIInv'
  BY <1>7, RenameEntitySound
<1> QED  BY <1>1, <1>2, <1>3, <1>4, <1>5, <1>6, <1>7 DEF PilotNext

LEMMA PilotInvariance == PilotSpec => []PilotIInv
<1>1. PilotInit => PilotIInv
  BY PilotInitSound
<1>2. PilotIInv /\ [PilotNext]_pilotVars => PilotIInv'
  BY PilotStepSound
<1> QED  BY <1>1, <1>2, PTL DEF PilotSpec

------------------------------------------------------------------------------
(* What the theorems say.                                                   *)

\* The types of the tables and of the scripts' state, and that no two entities
\* share a slug, for any number of scripts, files and edits.
THEOREM PilotTypeCorrect == PilotSpec => []PilotTypeOK
BY PilotInvariance, PTL DEF PilotIInv

\* Either nobody has a code or the whole program has one, with its e-mail; and
\* unless an entity was renamed, no two participations have the same.
THEOREM ContactsStayComplete == PilotSpec => []ContactsComplete
BY PilotInvariance, PTL DEF PilotIInv

LEMMA SeenStays ==
  ASSUME \A i \in EntityIds :
           /\ Published(row'[i]) <=> Published(row[i])
           /\ Published(row[i]) => row'[i] = row[i]
           /\ Published(part'[i]) <=> Published(part[i])
           /\ Published(part[i]) => part'[i] = part[i],
         {l \in link' : Published(l)} = {l \in link : Published(l)}
  PROVE  Seen' = Seen
<1>1. {<<i, row'[i]>> : i \in {j \in EntityIds : Published(row'[j])}}
        = {<<i, row[i]>> : i \in {j \in EntityIds : Published(row[j])}}
  OBVIOUS
<1>2. {<<i, part'[i]>> : i \in {j \in EntityIds : Published(part'[j])}}
        = {<<i, part[i]>> : i \in {j \in EntityIds : Published(part[j])}}
  OBVIOUS
<1> QED  BY <1>1, <1>2 DEF Seen

\* A transaction that is undone was never seen.
LEMMA RollbackUnseen ==
  ASSUME PilotIInv, NEW r \in Runs, Rollback(r)
  PROVE  Seen' = Seen
<1>1. r # Null
  BY Nulls
<1>2. \A i \in EntityIds :
        /\ row'[i] = IF row[i] # Null /\ row[i].by = r THEN Null ELSE row[i]
        /\ part'[i] = IF part[i] # Null /\ part[i].by = r THEN Null ELSE part[i]
  BY DEF Rollback
<1>3. link' = {l \in link : l.by # r}
  BY DEF Rollback
<1> QED  BY <1>1, <1>2, <1>3, SeenStays DEF Published

\* Neither is one that goes on.
LEMMA ImportUnseen ==
  ASSUME PilotIInv, NEW r \in Runs, NEW st \in run[r].left,
         \/ SelectEntity(r, st) \/ InsertMissing(r, st)
         \/ InsertRelationship(r, st) \/ InsertParticipation(r, st)
  PROVE  Seen' = Seen
<1>1. CASE SelectEntity(r, st)
  BY <1>1 DEF SelectEntity, Seen
<1>2. CASE InsertMissing(r, st)
  <2>1. CASE WithSlug(st.key[2]) # {}
    BY <1>2, <2>1, RollbackUnseen DEF InsertMissing
  <2>2. CASE WithSlug(st.key[2]) = {}
    <3> DEFINE free == CHOOSE j \in EntityIds : row[j] = Null
    <3>1. PICK i : i = free
      OBVIOUS
    <3>2. run[r].job = "import" /\ st.key[2] \in Names
      <4>1. run[r].job = "import"
        BY <1>2 DEF InsertMissing, AtImport
      <4>2. st.key \in Keys
        BY <4>1, AtPlan, PlanShape DEF InLoops1to5, InLoops6to8
      <4> QED  BY <4>1, <4>2 DEF Keys
    <3>3. i \in EntityIds /\ row[i] = Null
      BY <2>2, <3>1, <3>2, FreeId DEF PilotIInv
    <3>4. row' = [row EXCEPT ![i] = [slug |-> st.key[2], kind |-> KindIn[st.key[1]], by |-> r]]
          /\ UNCHANGED <<link, part>>
      BY <1>2, <2>2, <3>1 DEF InsertMissing
    <3>5. row'[i].by = r /\ \A j \in EntityIds \ {i} : row'[j] = row[j]
      BY <3>3, <3>4 DEF PilotIInv, PilotTypeOK
    <3> QED  BY <3>3, <3>4, <3>5, SeenStays, Nulls DEF Published
  <2> QED  BY <2>1, <2>2
<1>3. CASE InsertRelationship(r, st)
  <2>1. CASE Rollback(r)
    BY <2>1, RollbackUnseen
  <2>2. CASE ~ Rollback(r)
    <3> DEFINE n == [from |-> run[r].ids[st.key], to |-> run[r].ids[st.to],
                     type |-> st.type, by |-> r]
    <3>1. UNCHANGED <<row, part>> /\ (link' = link \/ link' = link \cup {n})
      BY <1>3, <2>2 DEF InsertRelationship
    <3>2. ~ Published(n)
      BY Nulls DEF Published
    <3> QED  BY <3>1, <3>2, SeenStays
  <2> QED  BY <2>1, <2>2
<1>4. CASE InsertParticipation(r, st)
  <2>1. PICK i : i = run[r].ids[st.key]
    OBVIOUS
  <2>2. /\ part' = IF part[i] # Null THEN part
                   ELSE [part EXCEPT ![i] = [contact |-> Blank, by |-> r]]
        /\ UNCHANGED <<row, link>>
    BY <1>4, <2>1 DEF InsertParticipation
  <2>3. \A j \in EntityIds : part'[j] = part[j] \/ (part[j] = Null /\ part'[j].by = r)
    <3>1. part \in [EntityIds -> Participation \cup {Null}]
      BY DEF PilotIInv, PilotTypeOK
    <3>2. CASE part[i] # Null
      BY <2>2, <3>2
    <3>3. CASE part[i] = Null
      BY <2>2, <3>1, <3>3
    <3> QED  BY <3>2, <3>3
  <2> QED  BY <2>2, <2>3, SeenStays, Nulls DEF Published
<1> QED  BY <1>1, <1>2, <1>3, <1>4

\* What the plan of a file holds, presentation by presentation.
LEMMA PlanCovers ==
  ASSUME NEW f \in DOMAIN Plan, NEW k \in DOMAIN f
  PROVE  /\ Relate(<<8, k, 1>>, Subject(f[k]), EventKey, "participant_of") \in Plan[f]
         /\ Participate(<<8, k, 2>>, Subject(f[k])) \in Plan[f]
         /\ /\ Known(f[k].escuela) /\ HasGroup(f[k])
            /\ \A j \in 1 .. k - 1 : ~ HasGroup(f[j]) \/ GroupSlug(f[j]) # GroupSlug(f[k])
            => Relate(<<6, k, 0>>, <<"group", GroupSlug(f[k])>>, <<"school", f[k].escuela>>,
                      "member_of") \in Plan[f]
<1>1. Participations(f) \cup GroupSchoolRelationships(f) \subseteq Plan[f]
  BY FileTyped DEF NormalizePilotData
<1>2. /\ Relate(<<8, k, 1>>, Subject(f[k]), EventKey, "participant_of") \in Participations(f)
      /\ Participate(<<8, k, 2>>, Subject(f[k])) \in Participations(f)
  BY DEF Participations
<1>3. ASSUME Known(f[k].escuela), HasGroup(f[k]),
             \A j \in 1 .. k - 1 : ~ HasGroup(f[j]) \/ GroupSlug(f[j]) # GroupSlug(f[k])
      PROVE  Relate(<<6, k, 0>>, <<"group", GroupSlug(f[k])>>, <<"school", f[k].escuela>>,
                    "member_of") \in GroupSchoolRelationships(f)
  <2> DEFINE G == {j \in DOMAIN f : HasGroup(f[j])}
             S == {Ensure(<<4, j, 0>>, "group", GroupSlug(f[j])) : j \in G}
             g == Ensure(<<4, k, 0>>, "group", GroupSlug(f[k]))
  <2>1. g \in S
    BY <1>3
  <2>2. ASSUME NEW q \in S, [q EXCEPT !.at = g.at] = g
        PROVE  ~ Before(q.at, g.at)
    <3>1. PICK j \in G : q = Ensure(<<4, j, 0>>, "group", GroupSlug(f[j]))
      OBVIOUS
    <3>2. GroupSlug(f[j]) = GroupSlug(f[k])
      BY <2>2, <3>1 DEF Ensure
    <3>3. j \in Nat /\ k \in Nat /\ j \in 1 .. Len(f) /\ HasGroup(f[j])
      BY FileTyped
    <3>4. ~ (j < k)
      BY <1>3, <3>2, <3>3
    <3>5. q.at = <<4, j, 0>> /\ g.at = <<4, k, 0>>
      BY <3>1 DEF Ensure
    <3> QED  BY <3>3, <3>4, <3>5 DEF Before
  <2>3. g \in GroupsCatalog(f)
    BY <2>1, <2>2 DEF Once, GroupsCatalog
  <2>4. g.at[2] = k /\ g.key = <<"group", GroupSlug(f[k])>> /\ k \in Schooled(f)
    BY <1>3 DEF Ensure, Schooled
  <2> HIDE DEF g
  <2> QED  BY <2>3, <2>4 DEF GroupSchoolRelationships
<1> QED  BY <1>1, <1>2, <1>3

\* The commit of an import shows all of its file.
LEMMA CommitWhole ==
  ASSUME PilotIInv, NEW r \in Runs, CommitImport(r)
  PROVE  run'[r].at = "idle" /\ WholeNext(run[r].file, run[r].ids)
<1>1. run[r].job = "import" /\ run[r].left = {} /\ Commit(r) /\ UNCHANGED <<starts, edits>>
  BY DEF CommitImport
<1>2. PICK f \in DOMAIN Plan : f = run[r].file
  BY <1>1, AtPlan
<1>3. PICK ids \in [Keys -> EntityIds \cup {Null}] : ids = run[r].ids
  BY PilotTyped, RunFields DEF PilotIInv
<1>4. \A st \in Plan[f] : Effect(r, st)
  BY <1>1, <1>2 DEF PilotIInv, RunSound, Made
<1>5. ASSUME NEW a \in Keys, Ensured(f, a)
      PROVE  /\ ids[a] \in EntityIds /\ Published(row'[ids[a]])
             /\ edits = 0 => row'[ids[a]].slug = a[2]
  <2>1. ids[a] # Null /\ ids[a] \in EntityIds
    BY <1>3, <1>4, <1>5 DEF Ensured, Effect
  <2>2. /\ row[ids[a]] # Null /\ Mine(r, row[ids[a]])
        /\ edits = 0 => row[ids[a]].slug = a[2]
    BY <1>3, <2>1 DEF PilotIInv, RunSound, HasRow
  <2> QED  BY <1>1, <2>1, <2>2, Committed DEF Published, Mine
<1>6. ASSUME NEW x, NEW y, NEW k,
             \E b \in {Null, r} : [from |-> x, to |-> y, type |-> k, by |-> b] \in link
      PROVE  [from |-> x, to |-> y, type |-> k, by |-> Null] \in link'
  <2>1. PICK b \in {Null, r} : [from |-> x, to |-> y, type |-> k, by |-> b] \in link
    BY <1>6
  <2>2. PICK l \in link : l = [from |-> x, to |-> y, type |-> k, by |-> b]
    BY <2>1
  <2>3. link' = {IF m.by = r THEN [m EXCEPT !.by = Null] ELSE m : m \in link}
    BY <1>1 DEF Commit
  <2>4. (IF l.by = r THEN [l EXCEPT !.by = Null] ELSE l) \in link'
    BY <2>3
  <2> QED  BY <2>1, <2>2, <2>4
<1>7. ASSUME NEW k \in DOMAIN f
      PROVE  LET s == Subject(f[k])
                 p == <<"person", Person(f[k])>>
             IN /\ s \in Keys /\ Ensured(f, s) /\ p \in Keys /\ Ensured(f, p)
                /\ [from |-> ids[s], to |-> ids[EventKey], type |-> "participant_of",
                    by |-> Null] \in link'
                /\ Published(part'[ids[s]])
  <2> DEFINE s == Subject(f[k])
             linked == Relate(<<8, k, 1>>, s, EventKey, "participant_of")
             entered == Participate(<<8, k, 2>>, s)
  <2>1. s \in Keys /\ Ensured(f, s)
    BY SubjectEnsured
  <2>2. <<"person", Person(f[k])>> \in Keys /\ Ensured(f, <<"person", Person(f[k])>>)
    BY FileTyped, NamesTyped, PersonEnsured
  <2>3. Effect(r, linked) /\ Effect(r, entered)
    BY <1>4, PlanCovers
  <2>4. /\ linked.do = "relate" /\ linked.key = s /\ linked.to = EventKey
        /\ linked.type = "participant_of"
        /\ entered.do = "participate" /\ entered.key = s
    BY DEF Relate, Participate
  <2> HIDE DEF linked, entered, s
  <2>5. \E b \in {Null, r} : [from |-> ids[s], to |-> ids[EventKey],
                              type |-> "participant_of", by |-> b] \in link
    BY <1>3, <2>3, <2>4 DEF Effect
  <2>6. ids[s] \in EntityIds
    BY <1>5, <2>1
  <2>7. part[ids[s]] # Null /\ Mine(r, part[ids[s]])
    BY <1>3, <2>3, <2>4 DEF Effect
  <2>8. Published(part'[ids[s]])
    BY <1>1, <2>6, <2>7, Committed DEF Published, Mine
  <2> QED  BY <1>6, <2>1, <2>2, <2>5, <2>8 DEF s
<1>8. ASSUME NEW k \in DOMAIN f, Known(f[k].escuela)
      PROVE  LET a == <<"school", f[k].escuela>>
                 b == <<"group", GroupSlug(f[k])>>
             IN /\ a \in Keys /\ Ensured(f, a)
                /\ /\ HasGroup(f[k])
                   /\ \A j \in 1 .. k - 1 : ~ HasGroup(f[j]) \/ GroupSlug(f[j]) # GroupSlug(f[k])
                   => \/ ids[b] = ids[a]
                      \/ [from |-> ids[b], to |-> ids[a], type |-> "member_of",
                          by |-> Null] \in link'
  <2> DEFINE a == <<"school", f[k].escuela>>
             b == <<"group", GroupSlug(f[k])>>
             asMember == Relate(<<6, k, 0>>, b, a, "member_of")
  <2>1. a \in Keys /\ Ensured(f, a)
    BY <1>8, FileTyped, NamesTyped, SchoolEnsured DEF Schooled
  <2>2. ASSUME HasGroup(f[k]),
               \A j \in 1 .. k - 1 : ~ HasGroup(f[j]) \/ GroupSlug(f[j]) # GroupSlug(f[k])
        PROVE  ids[b] = ids[a] \/ [from |-> ids[b], to |-> ids[a], type |-> "member_of",
                                   by |-> Null] \in link'
    <3>1. Effect(r, asMember)
      BY <1>4, <1>8, <2>2, PlanCovers
    <3>2. asMember.do = "relate" /\ asMember.key = b /\ asMember.to = a /\ asMember.type = "member_of"
      BY DEF Relate
    <3> HIDE DEF asMember, a, b
    <3>3. \/ ids[b] = ids[a]
          \/ \E c \in {Null, r} : [from |-> ids[b], to |-> ids[a],
                                   type |-> "member_of", by |-> c] \in link
      BY <1>3, <3>1, <3>2 DEF Effect
    <3> QED  BY <1>6, <3>3
  <2> QED  BY <2>1, <2>2
<1>9. WholeNext(f, ids)
  <2>1. ASSUME NEW a \in Keys, Ensured(f, a)
        PROVE  /\ ids[a] # Null /\ Published(row'[ids[a]])
               /\ edits = 0 => row'[ids[a]].slug = a[2]
    BY <1>5, <2>1, Nulls
  <2> QED  BY <1>7, <1>8, <2>1 DEF WholeNext
<1>10. run'[r].at = "idle"
  BY <1>1, Committed, NotRunningTyped
<1> QED  BY <1>2, <1>3, <1>9, <1>10

\* An import shows nothing before it shows everything, whatever the other runs
\* and the dashboard do in between and wherever it dies.
THEOREM ImportsWhole == PilotSpec => ImportIsWhole
<1> DEFINE Shows(r) == run[r].job = "import" /\ run'[r] # run[r] /\ Seen' # Seen
           Whole(r) == run'[r].at = "idle" /\ WholeNext(run[r].file, run[r].ids)
<1>1. ASSUME PilotIInv, PilotNext, NEW r \in Runs, Shows(r)
      PROVE  Whole(r)
  <2>1. run \in [Runs -> Run] /\ run[r] # NotRunning /\ run[r].at # "idle"
    BY <1>1, AtRest, NotRunningTyped, Nulls DEF PilotIInv, PilotTypeOK
  <2>2. PICK q \in Runs :
          \/ \E f \in Files : StartImport(q, f)
          \/ \E f \in Files, m \in MailFiles : StartEmails(q, f, m)
          \/ \E st \in run[q].left :
               \/ SelectEntity(q, st) \/ InsertMissing(q, st) \/ InsertRelationship(q, st)
               \/ InsertParticipation(q, st) \/ UpdateParticipation(q, st)
          \/ CommitImport(q) \/ AlterParticipations(q) \/ CheckAndCommit(q)
          \/ Die(q)
    BY <1>1 DEF PilotNext, CreateEntity, RenameEntity
  <2>3. q = r
    <3>1. \E v : run' = [run EXCEPT ![q] = v]
      BY <2>2 DEF StartImport, StartEmails, SelectEntity, InsertMissing, InsertRelationship,
           InsertParticipation, UpdateParticipation, CommitImport, AlterParticipations,
           CheckAndCommit, Die, Done, Rollback, Commit
    <3> QED  BY <1>1, <2>1, <3>1
  <2>4. CASE CommitImport(r)
    BY <1>1, <2>4, CommitWhole
  <2>5. CASE Die(r)
    BY <1>1, <2>5, RollbackUnseen DEF Die
  <2>6. ASSUME NEW st \in run[r].left,
               \/ SelectEntity(r, st) \/ InsertMissing(r, st)
               \/ InsertRelationship(r, st) \/ InsertParticipation(r, st)
        PROVE  FALSE
    BY <1>1, <2>6, ImportUnseen
  <2> QED  BY <1>1, <2>1, <2>2, <2>3, <2>4, <2>5, <2>6
           DEF StartImport, StartEmails, UpdateParticipation, AlterParticipations,
               CheckAndCommit, AtEmails
<1>2. PilotIInv /\ [PilotNext]_pilotVars
      => [\A r \in Runs :
            /\ run[r].job = "import" /\ run'[r] # run[r] /\ Seen' # Seen
            => run'[r].at = "idle" /\ WholeNext(run[r].file, run[r].ids)]_pilotVars
  BY <1>1
<1> QED  BY <1>2, PilotInvariance, PTL DEF PilotSpec, ImportIsWhole
==============================================================================
