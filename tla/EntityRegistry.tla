--------------------------- MODULE EntityRegistry ---------------------------
(***************************************************************************)
(* The CulturalEntityRegistry contract: a head per entity and an entry per *)
(* version of it.  Several registrars edit the same entity; version_entity *)
(* and deactivate_entity name the version their caller had read, and the   *)
(* contract refuses the call when the head has moved on since.             *)
(*                                                                         *)
(* A call that answers with an error changes nothing and is not a step.    *)
(* overflow-checks is on in the release profile: a version number past     *)
(* u32::MAX aborts the call.                                               *)
(***************************************************************************)
EXTENDS AccessControl, Sequences

CONSTANTS
  Entities,    \* entity_id
  Contents,    \* metadata_hash and hash_schema
  Schema,      \* [Contents -> Schemas]
  Schemas,     \* hash_schema
  Reasons,     \* reason_hash
  MaxVersion   \* u32::MAX

Versions == 1..MaxVersion

HeadRecord == [latest : Versions, active : BOOLEAN, updated : 1..MaxLedger]

VersionRecord == [content : Contents, by : Accounts, at : 1..MaxLedger]

ASSUME EntityAssumption ==
  /\ Roles = {"registrar"}
  /\ Schema \in [Contents -> Schemas]
  /\ MaxVersion \in Nat \ {0}
  /\ None \notin HeadRecord \cup VersionRecord \cup Reasons

VARIABLES
  head,     \* EntityKey::Head
  version,  \* EntityKey::Version
  schemas,  \* EntityKey::AllowedSchema
  events,   \* what the contract published, in order
  accepted  \* every successful answer of version_entity so far

entityVars == <<head, version>>
vars == <<accessVars, ledger, entityVars, schemas, events, accepted>>

Event ==
  [kind : {"registered", "versioned"}, entity : Entities, version : Versions,
   content : Contents, by : Accounts, at : 1..MaxLedger]
  \cup
  [kind : {"deactivated"}, entity : Entities, version : Versions,
   by : Accounts, reason : Reasons \cup {None}, at : 1..MaxLedger]

\* The version an editor had read, and what it published on top of it.
Edit == [by : Accounts, entity : Entities, expected : Versions,
         content : Contents, at : 1..MaxLedger]

TypeOK ==
  /\ AccessTypeOK
  /\ head \in [Entities -> HeadRecord \cup {None}]
  /\ version \in [Entities -> [Versions -> VersionRecord \cup {None}]]
  /\ schemas \subseteq Schemas
  /\ events \in Seq(Event)
  /\ accepted \in Seq(Edit)

(* __constructor *)
Init ==
  /\ AccessInit
  /\ head = [e \in Entities |-> None]
  /\ version = [e \in Entities |-> [v \in Versions |-> None]]
  /\ \E s \in Schemas : schemas = {s}
  /\ events = <<>>
  /\ accepted = <<>>

------------------------------------------------------------------------------
(* The calls.                                                              *)

MayWrite(o, c) == o \in roles["registrar"] /\ Schema[c] \in schemas

NewHead(v) == [latest |-> v, active |-> TRUE, updated |-> ledger]
NewVersion(o, c) == [content |-> c, by |-> o, at |-> ledger]

(* Registering again with the content of version 1 answers 1 and writes    *)
(* nothing; with another content it is AlreadyExists.                      *)
AnyEntity(e) == TRUE
Unregistered(e) == head[e] = None

Register(o, e, c) ==
  /\ MayWrite(o, c)
  /\ Unregistered(e)
  /\ head' = [head EXCEPT ![e] = NewHead(1)]
  /\ version' = [version EXCEPT ![e][1] = NewVersion(o, c)]
  /\ events' = Append(events, [kind |-> "registered", entity |-> e, version |-> 1,
                               content |-> c, by |-> o, at |-> ledger])
  /\ UNCHANGED <<accessVars, ledger, schemas, accepted>>

ReadBefore(e, expected) == head[e].latest >= expected
Current(e, expected) == head[e].latest = expected

RoomToTheLast(v) == v <= MaxVersion
RoomAfter(v) == v < MaxVersion

VersionedEvent(o, e, expected, c) ==
  [kind |-> "versioned", entity |-> e, version |-> expected + 1,
   content |-> c, by |-> o, at |-> ledger]

Open(e) == head[e] # None /\ head[e].active
Known(e) == head[e] # None

AddVersion(o, e, expected, c) ==
  /\ MayWrite(o, c)
  /\ Open(e)
  /\ Current(e, expected)
  /\ RoomAfter(expected)
  /\ head' = [head EXCEPT ![e] = NewHead(expected + 1)]
  /\ version' = [version EXCEPT ![e][expected + 1] = NewVersion(o, c)]
  /\ events' = Append(events, VersionedEvent(o, e, expected, c))
  /\ accepted' = Append(accepted, [by |-> o, entity |-> e, expected |-> expected,
                                   content |-> c, at |-> ledger])
  /\ UNCHANGED <<accessVars, ledger, schemas>>

(* Deactivating an inactive entity answers Ok and writes nothing.          *)
Deactivate(o, e, expected, reason) ==
  /\ o \in roles["registrar"]
  /\ Known(e)
  /\ Current(e, expected)
  /\ head[e].active
  /\ head' = [head EXCEPT ![e].active = FALSE, ![e].updated = ledger]
  /\ events' = Append(events, [kind |-> "deactivated", entity |-> e,
                               version |-> head[e].latest, by |-> o,
                               reason |-> reason, at |-> ledger])
  /\ UNCHANGED <<accessVars, ledger, version, schemas, accepted>>

Verify(e, v, c) ==
  /\ Open(e)
  /\ version[e][v] # None
  /\ version[e][v].content = c

------------------------------------------------------------------------------
(* Administration.                                                         *)

AllowHashSchema(s) ==
  /\ EnforceAdmin
  /\ schemas' = schemas \cup {s}
  /\ UNCHANGED <<accessVars, ledger, entityVars, events, accepted>>

Administer ==
  /\ AdminStep
  /\ UNCHANGED <<ledger, entityVars, schemas, events, accepted>>

NextLedger ==
  /\ CloseLedger
  /\ UNCHANGED <<accessVars, entityVars, schemas, events, accepted>>

Next ==
  \/ \E o \in Accounts, e \in Entities, c \in Contents :
       \/ Register(o, e, c)
       \/ \E expected \in Versions : AddVersion(o, e, expected, c)
  \/ \E o \in Accounts, e \in Entities, expected \in Versions,
        reason \in Reasons \cup {None} : Deactivate(o, e, expected, reason)
  \/ \E s \in Schemas : AllowHashSchema(s)
  \/ Administer
  \/ NextLedger

Spec == Init /\ [][Next]_vars

------------------------------------------------------------------------------
(* Properties.                                                             *)

(* An entity has exactly the versions from 1 to the one its head names, at *)
(* least one: the NotFound behind a head in register_entity is unreachable *)
(* and no version is ever skipped.                                         *)
HistoryDense ==
  \A e \in Entities :
    \/ head[e] = None /\ \A v \in Versions : version[e][v] = None
    \/ head[e] # None /\ \A v \in Versions : version[e][v] # None <=> v <= head[e].latest

(* Of the editors that read one version of an entity at most one is told   *)
(* that its edit was published, and its edit is the version that follows.  *)
OneEditWins ==
  /\ \A i, j \in DOMAIN accepted :
       accepted[i].entity = accepted[j].entity
         /\ accepted[i].expected = accepted[j].expected => i = j
  /\ \A i \in DOMAIN accepted :
       LET a == accepted[i] IN
         /\ a.expected < MaxVersion
         /\ version[a.entity][a.expected + 1] =
              [content |-> a.content, by |-> a.by, at |-> a.at]

(* A version that verifies goes on verifying until its entity is           *)
(* deactivated, whatever is published after it, and never again then.      *)
PublishedStaysVerifiable ==
  [][\A e \in Entities, v \in Versions, c \in Contents :
       /\ Verify(e, v, c) => Verify(e, v, c)' \/ ~Open(e)'
       /\ Known(e) /\ ~Open(e) => ~Open(e)']_vars

(* The registry implements the growing history of every entity.            *)
History == [e \in Entities |->
              IF head[e] = None THEN <<>>
              ELSE [v \in 1..head[e].latest |-> version[e][v].content]]

Retired == {e \in Entities : head[e] # None /\ ~Open(e)}

Abstract == INSTANCE EntityHistory WITH history <- History, retired <- Retired
ImplementsHistory == Abstract!HistorySpec
=============================================================================
