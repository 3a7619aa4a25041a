------------------------ MODULE EntityRegistryProofs ------------------------
(***************************************************************************)
(* The entity registry for any number of entities, registrars, contents    *)
(* and versions: histories without gaps, one winner among the editors of a *)
(* version, and the growing history of every entity it implements.         *)
(***************************************************************************)
EXTENDS EntityRegistry, SequenceTheorems, TLAPS

IInv == TypeOK /\ HistoryDense /\ OneEditWins

------------------------------------------------------------------------------
(* What one call writes.                                                   *)

\* Entity e gets version v, with the content c of registrar o, and a head.
Writes(o, e, v, c) ==
  /\ head'[e] = NewHead(v)
  /\ \A d \in Entities \ {e} : head'[d] = head[d] /\ version'[d] = version[d]
  /\ version'[e][v] = NewVersion(o, c)
  /\ \A w \in Versions \ {v} : version'[e][w] = version[e][w]

LEMMA NewValues ==
  ASSUME TypeOK, NEW o \in Accounts, NEW v \in Versions, NEW c \in Contents
  PROVE  /\ NewHead(v) \in HeadRecord /\ NewHead(v) # None
         /\ NewHead(v).latest = v /\ NewHead(v).active
         /\ NewVersion(o, c) \in VersionRecord /\ NewVersion(o, c) # None
         /\ NewVersion(o, c).content = c
  <1>1. ledger \in 1..MaxLedger
    BY DEF TypeOK, AccessTypeOK
  <1>2. NewHead(v) \in HeadRecord
    BY <1>1 DEF NewHead, HeadRecord
  <1>3. NewVersion(o, c) \in VersionRecord
    BY <1>1 DEF NewVersion, VersionRecord
  <1>4. NewHead(v).latest = v /\ NewVersion(o, c).content = c
    BY DEF NewHead, NewVersion
  <1>5. NewHead(v).active
    BY DEF NewHead
  <1> QED
    BY <1>2, <1>3, <1>4, <1>5, EntityAssumption

LEMMA FirstVersion == 1 \in Versions
  BY EntityAssumption DEF Versions

LEMMA RegisterWrites ==
  ASSUME TypeOK, NEW o \in Accounts, NEW e \in Entities, NEW c \in Contents,
         Register(o, e, c)
  PROVE  Writes(o, e, 1, c) /\ head[e] = None
  BY FirstVersion DEF TypeOK, Register, Unregistered, Writes

LEMMA VersionWrites ==
  ASSUME TypeOK, NEW o \in Accounts, NEW e \in Entities, NEW c \in Contents,
         NEW x \in Versions, AddVersion(o, e, x, c)
  PROVE  /\ x + 1 \in Versions
         /\ Writes(o, e, x + 1, c)
         /\ head[e] # None /\ head[e].active /\ head[e].latest = x
  <1>1. x + 1 \in Versions
    BY EntityAssumption DEF AddVersion, RoomAfter, Versions
  <1> QED
    BY <1>1 DEF TypeOK, AddVersion, Open, Current, Writes

LEMMA DeactivateWrites ==
  ASSUME TypeOK, NEW o \in Accounts, NEW e \in Entities, NEW x \in Versions,
         NEW r \in Reasons \cup {None}, Deactivate(o, e, x, r)
  PROVE  /\ head[e] \in HeadRecord /\ head'[e] \in HeadRecord
         /\ head[e] # None /\ head'[e] # None
         /\ head'[e].latest = head[e].latest
         /\ head[e].active /\ ~head'[e].active
         /\ \A d \in Entities \ {e} : head'[d] = head[d]
         /\ version' = version
         /\ accepted' = accepted
  <1>1. head[e] \in HeadRecord /\ ledger \in 1..MaxLedger
    BY DEF TypeOK, AccessTypeOK, Deactivate, Known
  <1>2. head'[e] = [head[e] EXCEPT !.active = FALSE, !.updated = ledger]
    BY DEF TypeOK, Deactivate
  <1>3. /\ head'[e] \in HeadRecord
        /\ head'[e].latest = head[e].latest
        /\ ~head'[e].active
    BY <1>1, <1>2 DEF HeadRecord
  <1> QED
    BY <1>1, <1>3, EntityAssumption DEF TypeOK, Deactivate, Known

\* The other steps leave the entities alone.
LEMMA OtherSteps ==
  ASSUME [Next]_vars
  PROVE  \/ \E o \in Accounts, e \in Entities, c \in Contents : Register(o, e, c)
         \/ \E o \in Accounts, e \in Entities, c \in Contents, x \in Versions :
              AddVersion(o, e, x, c)
         \/ \E o \in Accounts, e \in Entities, x \in Versions,
               r \in Reasons \cup {None} : Deactivate(o, e, x, r)
         \/ UNCHANGED <<head, version, accepted, events>>
  BY DEF Next, AllowHashSchema, Administer, NextLedger, vars, entityVars

------------------------------------------------------------------------------
(* Type correctness.                                                       *)

LEMMA EventTypes ==
  ASSUME TypeOK, NEW o \in Accounts, NEW e \in Entities, NEW v \in Versions
  PROVE  /\ \A k \in {"registered", "versioned"}, c \in Contents :
              [kind |-> k, entity |-> e, version |-> v, content |-> c,
               by |-> o, at |-> ledger] \in Event
         /\ \A r \in Reasons \cup {None} :
              [kind |-> "deactivated", entity |-> e, version |-> v, by |-> o,
               reason |-> r, at |-> ledger] \in Event
  BY DEF TypeOK, AccessTypeOK, Event

LEMMA InitTypes == Init => TypeOK
  <1> SUFFICES ASSUME Init PROVE TypeOK
    OBVIOUS
  <1>1. AccessTypeOK
    BY AccessAssumption DEF Init, AccessInit, AccessTypeOK
  <1> QED
    BY <1>1 DEF Init, TypeOK

LEMMA StepTypes == TypeOK /\ [Next]_vars => TypeOK'
  <1> SUFFICES ASSUME TypeOK, [Next]_vars PROVE TypeOK'
    OBVIOUS
  <1> USE DEF accessVars, entityVars, vars
  <1>1. ASSUME NEW o \in Accounts, NEW e \in Entities, NEW c \in Contents,
               Register(o, e, c)
        PROVE  TypeOK'
    <2>1. NewHead(1) \in HeadRecord /\ NewVersion(o, c) \in VersionRecord
      BY NewValues, FirstVersion
    <2>2. head' \in [Entities -> HeadRecord \cup {None}]
      BY <1>1, <2>1 DEF Register, TypeOK
    <2>3. version' \in [Entities -> [Versions -> VersionRecord \cup {None}]]
      BY <1>1, <2>1 DEF Register, TypeOK
    <2>4. events' \in Seq(Event)
      BY <1>1, EventTypes, FirstVersion, AppendProperties DEF Register, TypeOK
    <2> QED
      BY <1>1, <2>2, <2>3, <2>4 DEF Register, TypeOK, AccessTypeOK
  <1>2. ASSUME NEW o \in Accounts, NEW e \in Entities, NEW c \in Contents,
               NEW x \in Versions, AddVersion(o, e, x, c)
        PROVE  TypeOK'
    <2>1. x + 1 \in Versions
      BY <1>2, VersionWrites
    <2>2. NewHead(x + 1) \in HeadRecord /\ NewVersion(o, c) \in VersionRecord
      BY <2>1, NewValues
    <2>3. head' \in [Entities -> HeadRecord \cup {None}]
      BY <1>2, <2>2 DEF AddVersion, TypeOK
    <2>4. version' \in [Entities -> [Versions -> VersionRecord \cup {None}]]
      BY <1>2, <2>2 DEF AddVersion, TypeOK
    <2>5. events' \in Seq(Event)
      BY <1>2, <2>1, EventTypes, AppendProperties DEF AddVersion, VersionedEvent, TypeOK
    <2>6. accepted' \in Seq(Edit)
      BY <1>2, AppendProperties DEF AddVersion, TypeOK, AccessTypeOK, Edit
    <2> QED
      BY <1>2, <2>3, <2>4, <2>5, <2>6 DEF AddVersion, TypeOK, AccessTypeOK
  <1>3. ASSUME NEW o \in Accounts, NEW e \in Entities, NEW x \in Versions,
               NEW r \in Reasons \cup {None}, Deactivate(o, e, x, r)
        PROVE  TypeOK'
    <2>1. head[e] \in HeadRecord /\ head'[e] \in HeadRecord
      BY <1>3, DeactivateWrites
    <2>2. head' \in [Entities -> HeadRecord \cup {None}]
      BY <1>3, <2>1 DEF Deactivate, TypeOK
    <2>3. head[e].latest \in Versions
      BY <2>1 DEF HeadRecord
    <2>4. events' \in Seq(Event)
      BY <1>3, <2>3, EventTypes, AppendProperties DEF Deactivate, TypeOK
    <2> QED
      BY <1>3, <2>2, <2>4 DEF Deactivate, TypeOK, AccessTypeOK
  <1>4. ASSUME NEW s \in Schemas, AllowHashSchema(s)
        PROVE  TypeOK'
    BY <1>4 DEF AllowHashSchema, TypeOK, AccessTypeOK
  <1>5. CASE Administer
    <2>1. AccessTypeOK'
      BY <1>5, AccessAssumption
         DEF Administer, AdminStep, GrantRole, RevokeRole, TransferAdmin,
             AcceptAdminTransfer, RenounceAdmin, TypeOK, AccessTypeOK, Handover
    <2> QED
      BY <1>5, <2>1 DEF Administer, TypeOK
  <1>6. CASE NextLedger
    <2>1. AccessTypeOK'
      BY <1>6, AccessAssumption DEF NextLedger, CloseLedger, TypeOK, AccessTypeOK
    <2> QED
      BY <1>6, <2>1 DEF NextLedger, TypeOK
  <1>7. CASE UNCHANGED vars
    BY <1>7 DEF TypeOK, AccessTypeOK
  <1> QED
    BY <1>1, <1>2, <1>3, <1>4, <1>5, <1>6, <1>7 DEF Next

------------------------------------------------------------------------------
(* Histories and edits.                                                    *)

\* Writing the version after the latest, or the first, keeps a history dense.
LEMMA WritesKeepDense ==
  ASSUME TypeOK, HistoryDense, NEW o \in Accounts, NEW e \in Entities,
         NEW v \in Versions, NEW c \in Contents, Writes(o, e, v, c),
         IF head[e] = None THEN v = 1 ELSE v = head[e].latest + 1
  PROVE  HistoryDense'
  <1>1. /\ NewHead(v) # None /\ NewHead(v).latest = v
        /\ NewVersion(o, c) # None
    BY NewValues
  <1>2. ASSUME NEW d \in Entities, d # e
        PROVE  \/ head'[d] = None /\ \A w \in Versions : version'[d][w] = None
               \/ head'[d] # None /\ \A w \in Versions : version'[d][w] # None <=> w <= head'[d].latest
    BY <1>2 DEF HistoryDense, Writes
  <1>3. \A w \in Versions : version'[e][w] # None <=> w <= v
    <2>1. CASE head[e] = None
      BY <1>1, <2>1 DEF HistoryDense, Writes, Versions
    <2>2. CASE head[e] # None
      <3>1. head[e].latest \in Versions
        BY <2>2 DEF TypeOK, HeadRecord
      <3> QED
        BY <1>1, <2>2, <3>1 DEF HistoryDense, Writes, Versions
    <2> QED
      BY <2>1, <2>2
  <1>4. head'[e] # None /\ head'[e].latest = v
    BY <1>1 DEF Writes
  <1> QED
    BY <1>2, <1>3, <1>4 DEF HistoryDense

LEMMA StepDense == TypeOK /\ HistoryDense /\ [Next]_vars => HistoryDense'
  <1> SUFFICES ASSUME TypeOK, HistoryDense, [Next]_vars PROVE HistoryDense'
    OBVIOUS
  <1>1. ASSUME NEW o \in Accounts, NEW e \in Entities, NEW c \in Contents,
               Register(o, e, c)
        PROVE  HistoryDense'
    BY <1>1, RegisterWrites, FirstVersion, WritesKeepDense
  <1>2. ASSUME NEW o \in Accounts, NEW e \in Entities, NEW c \in Contents,
               NEW x \in Versions, AddVersion(o, e, x, c)
        PROVE  HistoryDense'
    BY <1>2, VersionWrites, WritesKeepDense
  <1>3. ASSUME NEW o \in Accounts, NEW e \in Entities, NEW x \in Versions,
               NEW r \in Reasons \cup {None}, Deactivate(o, e, x, r)
        PROVE  HistoryDense'
    <2>1. \A d \in Entities :
            /\ head'[d] # None <=> head[d] # None
            /\ head[d] # None => head'[d].latest = head[d].latest
      BY <1>3, DeactivateWrites
    <2>2. version' = version
      BY <1>3, DeactivateWrites
    <2> QED
      BY <2>1, <2>2 DEF HistoryDense
  <1>4. CASE UNCHANGED <<head, version>>
    BY <1>4 DEF HistoryDense
  <1> QED
    BY <1>1, <1>2, <1>3, <1>4, OtherSteps

\* No step changes a version once it is there.
LEMMA VersionsStay ==
  ASSUME TypeOK, HistoryDense, [Next]_vars, NEW e \in Entities, NEW v \in Versions,
         version[e][v] # None
  PROVE  version'[e][v] = version[e][v]
  <1>1. head[e] # None /\ v <= head[e].latest /\ head[e].latest \in Versions
    BY DEF HistoryDense, TypeOK, HeadRecord
  <1>2. ASSUME NEW o \in Accounts, NEW d \in Entities, NEW c \in Contents,
               Register(o, d, c)
        PROVE  version'[e][v] = version[e][v]
    BY <1>1, <1>2, RegisterWrites DEF Writes
  <1>3. ASSUME NEW o \in Accounts, NEW d \in Entities, NEW c \in Contents,
               NEW x \in Versions, AddVersion(o, d, x, c)
        PROVE  version'[e][v] = version[e][v]
    <2>1. Writes(o, d, x + 1, c) /\ head[d].latest = x
      BY <1>3, VersionWrites
    <2>2. d = e => v # x + 1
      BY <1>1, <2>1 DEF Versions
    <2> QED
      BY <2>1, <2>2 DEF Writes
  <1>4. ASSUME NEW o \in Accounts, NEW d \in Entities, NEW x \in Versions,
               NEW r \in Reasons \cup {None}, Deactivate(o, d, x, r)
        PROVE  version'[e][v] = version[e][v]
    BY <1>4, DeactivateWrites
  <1> QED
    BY <1>2, <1>3, <1>4, OtherSteps

LEMMA StepEdits == IInv /\ [Next]_vars => OneEditWins'
  <1> SUFFICES ASSUME TypeOK, HistoryDense, OneEditWins, [Next]_vars
               PROVE  OneEditWins'
    BY DEF IInv
  <1>1. accepted \in Seq(Edit) /\ DOMAIN accepted = 1..Len(accepted) /\ Len(accepted) \in Nat
    BY LenProperties DEF TypeOK
  \* an edit accepted before stands
  <1>2. ASSUME NEW i \in DOMAIN accepted
        PROVE  LET a == accepted[i] IN
                 /\ a \in Edit
                 /\ a.expected < MaxVersion
                 /\ a.expected + 1 \in Versions
                 /\ head[a.entity] # None
                 /\ a.expected + 1 <= head[a.entity].latest
                 /\ version'[a.entity][a.expected + 1] =
                      [content |-> a.content, by |-> a.by, at |-> a.at]
    <2> DEFINE a == accepted[i]
    <2>1. a \in Edit
      BY <1>1, <1>2, ElementOfSeq
    <2>2. a.entity \in Entities /\ a.expected \in Versions /\ a.expected < MaxVersion
      BY <2>1 DEF Edit, OneEditWins
    <2>3. a.expected + 1 \in Versions
      BY <2>2, EntityAssumption DEF Versions
    <2>4. version[a.entity][a.expected + 1] = [content |-> a.content, by |-> a.by, at |-> a.at]
      BY DEF OneEditWins
    <2>5. [content |-> a.content, by |-> a.by, at |-> a.at] # None
      <3>1. [content |-> a.content, by |-> a.by, at |-> a.at] \in VersionRecord
        BY <2>1 DEF Edit, VersionRecord
      <3> QED
        BY <3>1, EntityAssumption
    <2>6. head[a.entity] # None /\ a.expected + 1 <= head[a.entity].latest
      BY <2>2, <2>3, <2>4, <2>5 DEF HistoryDense
    <2>7. version'[a.entity][a.expected + 1] = version[a.entity][a.expected + 1]
      BY <2>2, <2>3, <2>4, <2>5, VersionsStay
    <2> QED
      BY <2>1, <2>2, <2>3, <2>4, <2>6, <2>7
  <1>3. ASSUME accepted' = accepted
        PROVE  OneEditWins'
    BY <1>2, <1>3 DEF OneEditWins
  <1>4. ASSUME NEW o \in Accounts, NEW e \in Entities, NEW c \in Contents,
               NEW x \in Versions, AddVersion(o, e, x, c)
        PROVE  OneEditWins'
    <2> DEFINE new == [by |-> o, entity |-> e, expected |-> x, content |-> c, at |-> ledger]
               n   == Len(accepted) + 1
    <2>1. accepted' = Append(accepted, new) /\ new \in Edit
      BY <1>4 DEF AddVersion, TypeOK, AccessTypeOK, Edit
    <2>2. /\ DOMAIN accepted' = 1..n
          /\ \A i \in DOMAIN accepted : accepted'[i] = accepted[i]
          /\ accepted'[n] = new
      BY <1>1, <2>1, AppendProperties, LenProperties
    <2>3. /\ new.entity = e /\ new.expected = x /\ new.content = c
          /\ new.by = o /\ new.at = ledger
      OBVIOUS
    <2>4. head[e].latest = x /\ x \in Nat /\ x < MaxVersion
      <3>1. head[e].latest = x
        BY <1>4, VersionWrites
      <3>2. x < MaxVersion
        BY <1>4 DEF AddVersion, RoomAfter
      <3> QED
        BY <3>1, <3>2 DEF Versions
    <2>5. version'[e][x + 1] = [content |-> c, by |-> o, at |-> ledger]
      BY <1>4, VersionWrites DEF Writes, NewVersion
    <2>6. \A i \in DOMAIN accepted :
            ~(accepted[i].entity = e /\ accepted[i].expected = x)
      <3> SUFFICES ASSUME NEW i \in DOMAIN accepted,
                          accepted[i].entity = e, accepted[i].expected = x
                   PROVE  FALSE
        OBVIOUS
      <3>1. x + 1 <= head[e].latest
        BY <1>2
      <3> QED
        BY <2>4, <3>1
    <2>7. \A i \in DOMAIN accepted' : i \in DOMAIN accepted \/ i = n
      BY <1>1, <2>2
    <2> HIDE DEF new, n
    <2>8. \A i, j \in DOMAIN accepted' :
            accepted'[i].entity = accepted'[j].entity
              /\ accepted'[i].expected = accepted'[j].expected => i = j
      BY <2>2, <2>3, <2>6, <2>7 DEF OneEditWins
    <2>9. ASSUME NEW i \in DOMAIN accepted'
          PROVE  /\ accepted'[i].expected < MaxVersion
                 /\ version'[accepted'[i].entity][accepted'[i].expected + 1] =
                      [content |-> accepted'[i].content, by |-> accepted'[i].by,
                       at |-> accepted'[i].at]
      <3>1. CASE i \in DOMAIN accepted
        BY <1>2, <2>2, <3>1
      <3>2. CASE i = n
        BY <2>2, <2>3, <2>4, <2>5, <3>2
      <3> QED
        BY <2>7, <3>1, <3>2
    <2> QED
      BY <2>8, <2>9 DEF OneEditWins
  <1> QED
    BY <1>3, <1>4, OtherSteps DEF Register, Deactivate

------------------------------------------------------------------------------
(* The invariant and what follows from it.                                 *)

(* The inductive invariant holds in every reachable state of the contract. *)
THEOREM Invariance == Spec => []IInv
  <1>1. Init => IInv
    <2>1. Init => HistoryDense /\ OneEditWins
      BY DEF Init, HistoryDense, OneEditWins
    <2> QED
      BY <2>1, InitTypes DEF IInv
  <1>2. IInv /\ [Next]_vars => IInv'
    BY StepTypes, StepDense, StepEdits DEF IInv
  <1> QED
    BY <1>1, <1>2, PTL DEF Spec

(* Every storage entry keeps its type, and no version number leaves the    *)
(* width of a u32.                                                         *)
THEOREM TypeCorrect == Spec => []TypeOK
  <1>1. IInv => TypeOK
    BY DEF IInv
  <1> QED
    BY <1>1, Invariance, PTL

(* An entity has the versions 1 to latest and no other.                    *)
THEOREM NoGaps == Spec => []HistoryDense
  <1>1. IInv => HistoryDense
    BY DEF IInv
  <1> QED
    BY <1>1, Invariance, PTL

(* However many registrars edit one version, one of them wins.             *)
THEOREM OneWinner == Spec => []OneEditWins
  <1>1. IInv => OneEditWins
    BY DEF IInv
  <1> QED
    BY <1>1, Invariance, PTL

\* A deactivated entity stays deactivated.
LEMMA ClosedStays ==
  ASSUME TypeOK, [Next]_vars, NEW e \in Entities, Known(e), ~Open(e)
  PROVE  Known(e)' /\ ~Open(e)' /\ head'[e] = head[e]
  <1>1. ASSUME NEW o \in Accounts, NEW d \in Entities, NEW c \in Contents,
               Register(o, d, c)
        PROVE  head'[e] = head[e]
    BY <1>1, RegisterWrites DEF Writes, Known
  <1>2. ASSUME NEW o \in Accounts, NEW d \in Entities, NEW c \in Contents,
               NEW x \in Versions, AddVersion(o, d, x, c)
        PROVE  head'[e] = head[e]
    BY <1>2, VersionWrites DEF Writes, Known, Open
  <1>3. ASSUME NEW o \in Accounts, NEW d \in Entities, NEW x \in Versions,
               NEW r \in Reasons \cup {None}, Deactivate(o, d, x, r)
        PROVE  head'[e] = head[e]
    BY <1>3, DeactivateWrites DEF Known, Open
  <1>4. head'[e] = head[e]
    BY <1>1, <1>2, <1>3, OtherSteps
  <1> QED
    BY <1>4 DEF Known, Open

(* Publishing never takes the verification of an earlier version away;     *)
(* deactivation does, once and for all.                                    *)
THEOREM PublishedVerifiable == Spec => PublishedStaysVerifiable
  <1>1. ASSUME IInv, [Next]_vars, NEW e \in Entities, NEW v \in Versions,
               NEW c \in Contents
        PROVE  /\ Verify(e, v, c) => Verify(e, v, c)' \/ ~Open(e)'
               /\ Known(e) /\ ~Open(e) => ~Open(e)'
    <2>1. version[e][v] # None => version'[e][v] = version[e][v]
      BY <1>1, VersionsStay DEF IInv
    <2>2. Verify(e, v, c) => Verify(e, v, c)' \/ ~Open(e)'
      BY <2>1 DEF Verify
    <2>3. Known(e) /\ ~Open(e) => ~Open(e)'
      BY <1>1, ClosedStays DEF IInv
    <2> QED
      BY <2>2, <2>3
  <1>2. IInv /\ [Next]_vars =>
          [\A e \in Entities, v \in Versions, c \in Contents :
             /\ Verify(e, v, c) => Verify(e, v, c)' \/ ~Open(e)'
             /\ Known(e) /\ ~Open(e) => ~Open(e)']_vars
    BY <1>1
  <1> QED
    BY <1>2, Invariance, PTL DEF Spec, PublishedStaysVerifiable

------------------------------------------------------------------------------
(* The registry implements the growing history of every entity.            *)

HistoryOf(H, V, e) ==
  IF H[e] = None THEN <<>> ELSE [v \in 1..H[e].latest |-> V[e][v].content]

LEMMA HistoryValues ==
  /\ History = [e \in Entities |-> HistoryOf(head, version, e)]
  /\ History' = [e \in Entities |-> HistoryOf(head', version', e)]
  BY DEF History, HistoryOf

\* Writing the next version appends its content.
LEMMA WritesPublish ==
  ASSUME TypeOK, HistoryDense, NEW o \in Accounts, NEW e \in Entities,
         NEW v \in Versions, NEW c \in Contents, Writes(o, e, v, c),
         IF head[e] = None THEN v = 1 ELSE v = head[e].latest + 1 /\ head[e].active
  PROVE  Abstract!Publish(e, c)
  <1>1. /\ NewHead(v) # None /\ NewHead(v).latest = v /\ NewHead(v).active
        /\ NewVersion(o, c).content = c
        /\ v \in Nat \ {0}
    BY NewValues DEF Versions
  <1>2. \A d \in Entities \ {e} :
          HistoryOf(head', version', d) = HistoryOf(head, version, d)
    BY DEF Writes, HistoryOf
  <1>3. HistoryOf(head', version', e) = Append(HistoryOf(head, version, e), c)
    <2>1. HistoryOf(head', version', e) = [w \in 1..v |-> version'[e][w].content]
      BY <1>1 DEF Writes, HistoryOf
    <2>2. \A w \in 1..(v - 1) : version'[e][w] = version[e][w]
      <3>1. \A w \in 1..(v - 1) : w \in Versions \ {v}
        BY <1>1, EntityAssumption DEF Versions
      <3> QED
        BY <3>1 DEF Writes
    <2>3. version'[e][v].content = c
      BY <1>1 DEF Writes
    <2>4. HistoryOf(head, version, e) = [w \in 1..(v - 1) |-> version[e][w].content]
      <3>1. CASE head[e] = None
        BY <3>1 DEF HistoryOf
      <3>2. CASE head[e] # None
        <4>1. head[e].latest \in Versions
          BY <3>2 DEF TypeOK, HeadRecord
        <4> QED
          BY <3>2, <4>1 DEF HistoryOf, Versions
      <3> QED
        BY <3>1, <3>2
    <2> QED
      BY <1>1, <2>1, <2>2, <2>3, <2>4
  <1>4. History' = [History EXCEPT ![e] = Append(@, c)]
    BY <1>2, <1>3, HistoryValues
  <1>5. e \notin Retired
    BY DEF Retired, Open
  <1>6. Retired' = Retired
    <2>1. head'[e] # None /\ Open(e)'
      BY <1>1 DEF Writes, Open
    <2>2. \A d \in Entities \ {e} : head'[d] = head[d]
      BY DEF Writes
    <2> QED
      BY <1>5, <2>1, <2>2 DEF Retired, Open
  <1> QED
    BY <1>4, <1>5, <1>6 DEF Abstract!Publish

LEMMA DeactivateRetires ==
  ASSUME TypeOK, NEW o \in Accounts, NEW e \in Entities, NEW x \in Versions,
         NEW r \in Reasons \cup {None}, Deactivate(o, e, x, r)
  PROVE  Abstract!Retire(e)
  <1>1. /\ head[e] \in HeadRecord
        /\ head[e] # None /\ head'[e] # None
        /\ head'[e].latest = head[e].latest
        /\ ~head'[e].active
        /\ \A d \in Entities \ {e} : head'[d] = head[d]
        /\ version' = version
    BY DeactivateWrites
  <1>2. \A d \in Entities : HistoryOf(head', version', d) = HistoryOf(head, version, d)
    BY <1>1 DEF HistoryOf
  <1>3. History' = History
    BY <1>2, HistoryValues
  <1>4. History[e] # <<>>
    <2>1. History[e] = [v \in 1..head[e].latest |-> version[e][v].content]
      BY <1>1, HistoryValues DEF HistoryOf
    <2>2. 1 \in 1..head[e].latest
      BY <1>1 DEF HeadRecord, Versions
    <2> QED
      BY <2>1, <2>2
  <1>5. Retired' = Retired \cup {e}
    BY <1>1 DEF Retired, Open
  <1> QED
    BY <1>3, <1>4, <1>5 DEF Abstract!Retire

(* The contract implements append-only histories that deactivation closes. *)
THEOREM HistoryImplemented == Spec => ImplementsHistory
  <1>1. Init => Abstract!HistoryInit
    BY DEF Init, Abstract!HistoryInit, History, Retired
  <1>2. IInv /\ [Next]_vars => [Abstract!HistoryNext]_<<History, Retired>>
    <2> SUFFICES ASSUME TypeOK, HistoryDense, [Next]_vars
                 PROVE  Abstract!HistoryNext \/ UNCHANGED <<History, Retired>>
      BY DEF IInv
    <2>1. ASSUME NEW o \in Accounts, NEW e \in Entities, NEW c \in Contents,
                 Register(o, e, c)
          PROVE  Abstract!HistoryNext
      BY <2>1, RegisterWrites, FirstVersion, WritesPublish DEF Abstract!HistoryNext
    <2>2. ASSUME NEW o \in Accounts, NEW e \in Entities, NEW c \in Contents,
                 NEW x \in Versions, AddVersion(o, e, x, c)
          PROVE  Abstract!HistoryNext
      BY <2>2, VersionWrites, WritesPublish DEF Abstract!HistoryNext
    <2>3. ASSUME NEW o \in Accounts, NEW e \in Entities, NEW x \in Versions,
                 NEW r \in Reasons \cup {None}, Deactivate(o, e, x, r)
          PROVE  Abstract!HistoryNext
      BY <2>3, DeactivateRetires DEF Abstract!HistoryNext
    <2>4. CASE UNCHANGED <<head, version>>
      BY <2>4 DEF History, Retired, Open
    <2> QED
      BY <2>1, <2>2, <2>3, <2>4, OtherSteps
  <1> QED
    BY <1>1, <1>2, Invariance, PTL DEF Spec, ImplementsHistory, Abstract!HistorySpec
=============================================================================
