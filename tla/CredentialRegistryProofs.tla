---------------------- MODULE CredentialRegistryProofs ----------------------
(***************************************************************************)
(* The credential registry for any number of institutions, operators and   *)
(* credentials, and any width of the token counter: the three entries of a *)
(* credential agree, the answers of issue_credential are one function of   *)
(* the request, the event log proves who was authorised and is enough to   *)
(* rebuild every record, and the registry implements the ledger of         *)
(* attested facts.                                                         *)
(***************************************************************************)
EXTENDS CredentialRegistry, FiniteSetTheorems, SequenceTheorems, WellFoundedInduction,
        TLAPS

\* Every answer given is the record found under its token.
AnswersRecorded ==
  \A a \in receipts : GetByToken(a.token) # None /\ GetByToken(a.token).call = a.call

\* An active link has its event, and no later event took it away.
LinksInLog ==
  \A l \in links : LinkedInLog(events, l[1], l[2], Len(events))

\* The facts attested, and the counter that numbers them.
Taken == {f \in Facts : byKey[f] # None}
CounterCounts == IsFiniteSet(Taken) /\ nextToken = Cardinality(Taken) + 1

IInv ==
  /\ TypeOK
  /\ IndexesAgree
  /\ TokensAreDense
  /\ AnswersRecorded
  /\ LinksInLog
  /\ EventsAreAuthorised
  /\ EventsRebuildRecords
  /\ CounterCounts

------------------------------------------------------------------------------
(* What one call does to the entries.                                      *)

LEMMA RequestParts ==
  ASSUME NEW c \in Request
  PROVE  /\ c.id \in Ids /\ c.issuer \in Issuers
         /\ BusinessKey(c) \in Facts
  BY DEF Request, BusinessKey, Facts

LEMMA RecordParts ==
  ASSUME NEW r \in Record
  PROVE  /\ r.call \in Request /\ r.token \in Tokens /\ r.by \in Accounts
         /\ r # None
  BY RegistryAssumption DEF Record

LEMMA IssueWrites ==
  ASSUME TypeOK, NEW o \in Accounts, NEW c \in Request, Issue(o, c)
  PROVE  /\ NewRecord(o, c) \in Record
         /\ byId'[c.id] = NewRecord(o, c)
         /\ \A i \in Ids \ {c.id} : byId'[i] = byId[i]
         /\ byToken'[nextToken] = c.id
         /\ \A t \in Tokens \ {nextToken} : byToken'[t] = byToken[t]
         /\ byKey'[BusinessKey(c)] = c.id
         /\ \A f \in Facts \ {BusinessKey(c)} : byKey'[f] = byKey[f]
         /\ nextToken' = nextToken + 1
         /\ nextToken' \in Tokens
         /\ byId[c.id] = None
         /\ byKey[BusinessKey(c)] = None
  <1>1. NewRecord(o, c) \in Record
    BY DEF NewRecord, Record, TypeOK, AccessTypeOK
  <1>2. c.id \in Ids /\ BusinessKey(c) \in Facts
    BY RequestParts
  <1> QED
    BY <1>1, <1>2, RegistryAssumption
       DEF Issue, TypeOK, FreshId, TokensLeft, Advanced, Tokens

LEMMA RevokeWrites ==
  ASSUME TypeOK, NEW o \in Accounts, NEW id \in Ids,
         NEW reason \in Reasons \cup {None}, Revoke(o, id, reason)
  PROVE  /\ byId[id] \in Record
         /\ byId'[id] \in Record
         /\ byId'[id].call = byId[id].call
         /\ byId'[id].token = byId[id].token
         /\ byId'[id].revoked # None
         /\ byId[id].revoked = None
         /\ \A i \in Ids \ {id} : byId'[i] = byId[i]
  <1>1. byId[id] \in Record
    BY DEF Revoke, TypeOK
  <1>2. byId'[id] = [byId[id] EXCEPT !.revoked = ledger, !.reason = reason]
    BY DEF Revoke, TypeOK
  <1>3. ledger \in 1..MaxLedger
    BY DEF TypeOK, AccessTypeOK
  <1>4. byId'[id] \in Record
    BY <1>1, <1>2, <1>3 DEF Record
  <1>5. /\ byId'[id].call = byId[id].call
        /\ byId'[id].token = byId[id].token
        /\ byId'[id].revoked = ledger
    BY <1>1, <1>2 DEF Record
  <1> QED
    BY <1>1, <1>3, <1>4, <1>5, RegistryAssumption DEF Revoke, TypeOK

\* No call removes a record or changes the request it stands for.
LEMMA RecordsStay ==
  ASSUME TypeOK, [Next]_vars, NEW i \in Ids, byId[i] # None
  PROVE  byId'[i] # None /\ byId'[i].call = byId[i].call /\ byId'[i].token = byId[i].token
  <1>1. ASSUME NEW o \in Accounts, NEW c \in Request, Issue(o, c)
        PROVE  byId'[i] = byId[i]
    BY <1>1, IssueWrites
  <1>2. ASSUME NEW o \in Accounts, NEW id \in Ids,
               NEW reason \in Reasons \cup {None}, Revoke(o, id, reason)
        PROVE  byId'[i] # None /\ byId'[i].call = byId[i].call /\ byId'[i].token = byId[i].token
    BY <1>2, RevokeWrites, RecordParts
  <1> QED
    BY <1>1, <1>2
       DEF Next, IssueAgain, Link, Unlink, AllowHashSchema, Administer, NextLedger,
           vars, recordVars

------------------------------------------------------------------------------
(* Type correctness.                                                       *)

LEMMA EventTypes ==
  /\ \A i \in Issuers, o \in Accounts :
       LinkEvent(i, o) \in Event /\ UnlinkEvent(i, o) \in Event
  /\ \A i \in Ids, t \in Tokens, c \in Request, o \in Accounts, l \in 1..MaxLedger :
       [kind |-> "issued", id |-> i, token |-> t, call |-> c, by |-> o, at |-> l] \in Event
  /\ \A i \in Ids, t \in Tokens, o \in Accounts, l \in 1..MaxLedger, r \in Reasons \cup {None} :
       [kind |-> "revoked", id |-> i, token |-> t, by |-> o, reason |-> r, at |-> l] \in Event
  BY DEF Event, LinkEvent, UnlinkEvent

LEMMA InitTypes == Init => TypeOK
  <1> SUFFICES ASSUME Init PROVE TypeOK
    OBVIOUS
  <1>1. AccessTypeOK
    BY AccessAssumption DEF Init, AccessInit, AccessTypeOK
  <1>2. nextToken \in Tokens
    BY RegistryAssumption DEF Init, Tokens
  <1> QED
    BY <1>1, <1>2 DEF Init, TypeOK

LEMMA StepTypes == TypeOK /\ [Next]_vars => TypeOK'
  <1> SUFFICES ASSUME TypeOK, [Next]_vars PROVE TypeOK'
    OBVIOUS
  <1> USE DEF accessVars, recordVars, vars
  <1>1. ASSUME NEW o \in Accounts, NEW c \in Request, Issue(o, c)
        PROVE  TypeOK'
    <2>1. /\ NewRecord(o, c) \in Record
          /\ nextToken' \in Tokens
          /\ c.id \in Ids /\ BusinessKey(c) \in Facts
      BY <1>1, IssueWrites, RequestParts
    <2>2. /\ byId' \in [Ids -> Record \cup {None}]
          /\ byToken' \in [Tokens -> Ids \cup {None}]
          /\ byKey' \in [Facts -> Ids \cup {None}]
      BY <1>1, <2>1 DEF Issue, TypeOK
    <2>3. events' \in Seq(Event)
      BY <1>1, <2>1, EventTypes, AppendProperties DEF Issue, TypeOK, AccessTypeOK
    <2>4. receipts' \subseteq Receipt
      BY <1>1 DEF Issue, TypeOK, Receipt
    <2> QED
      BY <1>1, <2>1, <2>2, <2>3, <2>4 DEF Issue, TypeOK, AccessTypeOK
  <1>2. ASSUME NEW o \in Accounts, NEW c \in Request, IssueAgain(o, c)
        PROVE  TypeOK'
    <2>1. byKey[BusinessKey(c)] \in Ids
      BY <1>2, RequestParts DEF IssueAgain, TypeOK
    <2>2. byId[byKey[BusinessKey(c)]].token \in Tokens
      BY <1>2, <2>1, RecordParts DEF IssueAgain, TypeOK
    <2>3. receipts' \subseteq Receipt
      BY <1>2, <2>2 DEF IssueAgain, TypeOK, Receipt
    <2> QED
      BY <1>2, <2>3 DEF IssueAgain, TypeOK, AccessTypeOK
  <1>3. ASSUME NEW o \in Accounts, NEW id \in Ids,
               NEW reason \in Reasons \cup {None}, Revoke(o, id, reason)
        PROVE  TypeOK'
    <2>1. byId[id] \in Record /\ byId'[id] \in Record
      BY <1>3, RevokeWrites
    <2>2. byId' \in [Ids -> Record \cup {None}]
      BY <1>3, <2>1 DEF Revoke, TypeOK
    <2>3. RevokedEvent(o, id, reason) \in Event
      BY <2>1, EventTypes, RecordParts DEF RevokedEvent, TypeOK, AccessTypeOK
    <2>4. events' \in Seq(Event)
      BY <1>3, <2>3, AppendProperties DEF Revoke, TypeOK
    <2> QED
      BY <1>3, <2>2, <2>4 DEF Revoke, TypeOK, AccessTypeOK
  <1>4. ASSUME NEW i \in Issuers, NEW o \in Accounts, Link(i, o) \/ Unlink(i, o)
        PROVE  TypeOK'
    <2>1. events' \in Seq(Event)
      BY <1>4, EventTypes, AppendProperties, SMTT(30) DEF Link, Unlink, TypeOK
    <2> QED
      BY <1>4, <2>1 DEF Link, Unlink, TypeOK, AccessTypeOK
  <1>5. ASSUME NEW s \in Schemas, AllowHashSchema(s)
        PROVE  TypeOK'
    BY <1>5 DEF AllowHashSchema, TypeOK, AccessTypeOK
  <1>6. CASE Administer
    <2>1. AccessTypeOK'
      BY <1>6, AccessAssumption
         DEF Administer, AdminStep, GrantRole, RevokeRole, TransferAdmin,
             AcceptAdminTransfer, RenounceAdmin, TypeOK, AccessTypeOK, Handover
    <2> QED
      BY <1>6, <2>1 DEF Administer, TypeOK
  <1>7. CASE NextLedger
    <2>1. AccessTypeOK'
      BY <1>7, AccessAssumption DEF NextLedger, CloseLedger, TypeOK, AccessTypeOK
    <2> QED
      BY <1>7, <2>1 DEF NextLedger, TypeOK
  <1>8. CASE UNCHANGED vars
    BY <1>8 DEF TypeOK, AccessTypeOK
  <1> QED
    BY <1>1, <1>2, <1>3, <1>4, <1>5, <1>6, <1>7, <1>8 DEF Next

------------------------------------------------------------------------------
(* The entries of a credential.                                            *)

Indexed == TypeOK /\ IndexesAgree /\ TokensAreDense /\ CounterCounts

LEMMA InitIndexed == Init => IndexesAgree /\ TokensAreDense /\ CounterCounts
  <1> SUFFICES ASSUME Init PROVE IndexesAgree /\ TokensAreDense /\ CounterCounts
    OBVIOUS
  <1>1. IndexesAgree
    BY DEF Init, IndexesAgree
  <1>2. TokensAreDense
    BY RegistryAssumption DEF Init, TokensAreDense, Tokens
  <1>3. Taken = {}
    BY DEF Init, Taken
  <1>4. CounterCounts
    BY <1>3, FS_EmptySet DEF Init, CounterCounts
  <1> QED
    BY <1>1, <1>2, <1>4

LEMMA IssueKeepsIndexes ==
  ASSUME Indexed, NEW o \in Accounts, NEW c \in Request, Issue(o, c)
  PROVE  (IndexesAgree /\ TokensAreDense /\ CounterCounts)'
  <1> DEFINE new == NewRecord(o, c)
             f0  == BusinessKey(c)
  <1>1. /\ TypeOK /\ IndexesAgree /\ TokensAreDense /\ CounterCounts
        /\ c.id \in Ids /\ f0 \in Facts
    BY RequestParts DEF Indexed
  <1>2. /\ byId'[c.id] = new
        /\ \A i \in Ids \ {c.id} : byId'[i] = byId[i]
        /\ byToken'[nextToken] = c.id
        /\ \A t \in Tokens \ {nextToken} : byToken'[t] = byToken[t]
        /\ byKey'[f0] = c.id
        /\ \A f \in Facts \ {f0} : byKey'[f] = byKey[f]
        /\ nextToken' = nextToken + 1
        /\ byId[c.id] = None
        /\ byKey[f0] = None
    BY <1>1, IssueWrites
  <1>3. new # None /\ new.call = c /\ new.token = nextToken
    BY <1>1, IssueWrites, RecordParts DEF NewRecord
  <1>4. nextToken \in Tokens /\ byToken[nextToken] = None
    BY <1>1, RegistryAssumption DEF TypeOK, TokensAreDense, Tokens
  <1>5. None \notin Ids
    BY RegistryAssumption
  <1>6. \A i \in Ids : byId[i] # None =>
          /\ byId[i].token # nextToken
          /\ BusinessKey(byId[i].call) # f0
          /\ byId[i].token \in Tokens
          /\ BusinessKey(byId[i].call) \in Facts
    <2> SUFFICES ASSUME NEW i \in Ids, byId[i] # None
                 PROVE  /\ byId[i].token # nextToken
                        /\ BusinessKey(byId[i].call) # f0
                        /\ byId[i].token \in Tokens
                        /\ BusinessKey(byId[i].call) \in Facts
      OBVIOUS
    <2>1. byId[i] \in Record
      BY <1>1 DEF TypeOK
    <2>2. byId[i].token \in Tokens /\ BusinessKey(byId[i].call) \in Facts
      BY <2>1, RecordParts, RequestParts
    <2>3. byToken[byId[i].token] = i /\ byKey[BusinessKey(byId[i].call)] = i
      BY <1>1 DEF IndexesAgree
    <2> QED
      BY <1>2, <1>4, <1>5, <2>2, <2>3
  <1>7. \A i \in Ids : byId'[i] # None =>
          /\ byId'[i].call.id = i
          /\ byToken'[byId'[i].token] = i
          /\ byKey'[BusinessKey(byId'[i].call)] = i
    <2>1. ASSUME NEW i \in Ids, byId'[i] # None, i # c.id
          PROVE  /\ byId'[i].call.id = i
                 /\ byToken'[byId'[i].token] = i
                 /\ byKey'[BusinessKey(byId'[i].call)] = i
      BY <1>1, <1>2, <1>6, <2>1 DEF IndexesAgree
    <2> QED
      BY <1>2, <1>3, <2>1
  <1>8. \A t \in Tokens : byToken'[t] # None =>
          GetByToken(t)' # None /\ GetByToken(t)'.token = t
    <2> SUFFICES ASSUME NEW t \in Tokens, byToken'[t] # None
                 PROVE  byId'[byToken'[t]] # None /\ byId'[byToken'[t]].token = t
      BY DEF GetByToken
    <2>1. CASE t = nextToken
      BY <1>2, <1>3, <2>1
    <2>2. CASE t # nextToken
      <3>1. byToken'[t] = byToken[t] /\ byToken[t] \in Ids
        BY <1>1, <1>2, <2>2 DEF TypeOK
      <3>2. byId[byToken[t]] # None /\ byId[byToken[t]].token = t
        BY <1>1, <3>1, <1>5 DEF IndexesAgree, GetByToken
      <3>3. byToken[t] # c.id
        BY <1>2, <3>2
      <3> QED
        BY <1>2, <3>1, <3>2, <3>3
    <2> QED
      BY <2>1, <2>2
  <1>9. \A f \in Facts : byKey'[f] # None =>
          byId'[byKey'[f]] # None /\ BusinessKey(byId'[byKey'[f]].call) = f
    <2> SUFFICES ASSUME NEW f \in Facts, byKey'[f] # None
                 PROVE  byId'[byKey'[f]] # None /\ BusinessKey(byId'[byKey'[f]].call) = f
      OBVIOUS
    <2>1. CASE f = f0
      BY <1>2, <1>3, <2>1
    <2>2. CASE f # f0
      <3>1. byKey'[f] = byKey[f] /\ byKey[f] \in Ids
        BY <1>1, <1>2, <2>2 DEF TypeOK
      <3>2. byId[byKey[f]] # None /\ BusinessKey(byId[byKey[f]].call) = f
        BY <1>1, <3>1, <1>5 DEF IndexesAgree
      <3>3. byKey[f] # c.id
        BY <1>2, <3>2
      <3> QED
        BY <1>2, <3>1, <3>2, <3>3
    <2> QED
      BY <2>1, <2>2
  <1>10. TokensAreDense'
    BY <1>1, <1>2, <1>4, <1>5, RegistryAssumption DEF TypeOK, TokensAreDense, Tokens
  <1>11. CounterCounts'
    <2>1. Taken' = Taken \cup {f0}
      BY <1>1, <1>2, <1>5 DEF Taken
    <2>2. f0 \notin Taken
      BY <1>2 DEF Taken
    <2>3. IsFiniteSet(Taken') /\ Cardinality(Taken') = Cardinality(Taken) + 1
      BY <1>1, <2>1, <2>2, FS_AddElement DEF CounterCounts
    <2> QED
      BY <1>1, <1>2, <2>3 DEF CounterCounts
  <1> QED
    BY <1>7, <1>8, <1>9, <1>10, <1>11 DEF IndexesAgree

LEMMA RevokeKeepsIndexes ==
  ASSUME Indexed, NEW o \in Accounts, NEW id \in Ids,
         NEW reason \in Reasons \cup {None}, Revoke(o, id, reason)
  PROVE  (IndexesAgree /\ TokensAreDense /\ CounterCounts)'
  <1>1. TypeOK /\ IndexesAgree /\ TokensAreDense /\ CounterCounts
    BY DEF Indexed
  <1>2. \A i \in Ids :
          /\ byId'[i] # None <=> byId[i] # None
          /\ byId[i] # None => byId'[i].call = byId[i].call /\ byId'[i].token = byId[i].token
    BY <1>1, RevokeWrites, RecordParts
  <1>3. UNCHANGED <<byToken, byKey, nextToken>>
    BY DEF Revoke
  <1>4. \A t \in Tokens : byToken[t] # None => byToken[t] \in Ids
    BY <1>1 DEF TypeOK
  <1>5. \A f \in Facts : byKey[f] # None => byKey[f] \in Ids
    BY <1>1 DEF TypeOK
  <1>6. IndexesAgree'
    <2>1. \A i \in Ids : byId'[i] # None =>
            /\ byId'[i].call.id = i
            /\ byToken[byId'[i].token] = i
            /\ byKey[BusinessKey(byId'[i].call)] = i
      BY <1>1, <1>2 DEF IndexesAgree
    <2>2. \A t \in Tokens : byToken[t] # None =>
            byId'[byToken[t]] # None /\ byId'[byToken[t]].token = t
      BY <1>1, <1>2, <1>4 DEF IndexesAgree, GetByToken
    <2>3. \A f \in Facts : byKey[f] # None =>
            byId'[byKey[f]] # None /\ BusinessKey(byId'[byKey[f]].call) = f
      BY <1>1, <1>2, <1>5 DEF IndexesAgree
    <2> QED
      BY <1>3, <2>1, <2>2, <2>3 DEF IndexesAgree, GetByToken
  <1>7. TokensAreDense' /\ CounterCounts'
    BY <1>1, <1>3 DEF TokensAreDense, CounterCounts, Taken
  <1> QED
    BY <1>6, <1>7

LEMMA StepIndexed == Indexed /\ [Next]_vars => (IndexesAgree /\ TokensAreDense /\ CounterCounts)'
  <1> SUFFICES ASSUME Indexed, [Next]_vars
               PROVE  (IndexesAgree /\ TokensAreDense /\ CounterCounts)'
    OBVIOUS
  <1>1. CASE UNCHANGED recordVars
    BY <1>1 DEF Indexed, recordVars, IndexesAgree, GetByToken, TokensAreDense,
                CounterCounts, Taken
  <1> QED
    BY <1>1, IssueKeepsIndexes, RevokeKeepsIndexes
       DEF Next, IssueAgain, Link, Unlink, AllowHashSchema, Administer, NextLedger, vars

------------------------------------------------------------------------------
(* The answers of issue_credential.                                        *)

LEMMA StepAnswers == Indexed /\ AnswersRecorded /\ [Next]_vars => AnswersRecorded'
  <1> SUFFICES ASSUME Indexed, AnswersRecorded, [Next]_vars
               PROVE  AnswersRecorded'
    OBVIOUS
  <1>1. TypeOK /\ IndexesAgree /\ TokensAreDense
    BY DEF Indexed
  \* an answer already given
  <1>2. ASSUME NEW a \in receipts, UNCHANGED <<byToken>> \/ byToken'[a.token] = byToken[a.token]
        PROVE  GetByToken(a.token)' # None /\ GetByToken(a.token)'.call = a.call
    <2>1. a.token \in Tokens
      BY <1>1 DEF TypeOK, Receipt
    <2>2. byToken[a.token] # None /\ byToken[a.token] \in Ids
      BY <1>1, <2>1 DEF AnswersRecorded, GetByToken, TypeOK
    <2>3. byId[byToken[a.token]] # None /\ byId[byToken[a.token]].call = a.call
      BY <2>2 DEF AnswersRecorded, GetByToken
    <2>4. /\ byId'[byToken[a.token]] # None
          /\ byId'[byToken[a.token]].call = byId[byToken[a.token]].call
      BY <1>1, <2>2, <2>3, RecordsStay
    <2> QED
      BY <1>2, <2>2, <2>3, <2>4 DEF GetByToken
  <1>3. ASSUME NEW o \in Accounts, NEW c \in Request, Issue(o, c)
        PROVE  AnswersRecorded'
    <2>1. receipts' = receipts \cup {[to |-> o, call |-> c, token |-> nextToken]}
      BY <1>3 DEF Issue
    <2>2. nextToken \in Tokens /\ byToken[nextToken] = None
      BY <1>1, RegistryAssumption DEF TypeOK, TokensAreDense, Tokens
    <2>3. \A a \in receipts : a.token \in Tokens /\ a.token # nextToken
      BY <1>1, <2>2 DEF AnswersRecorded, GetByToken, TypeOK, Receipt
    <2>4. \A a \in receipts : byToken'[a.token] = byToken[a.token]
      BY <1>1, <1>3, <2>3, IssueWrites
    <2>5. /\ byToken'[nextToken] # None
          /\ byId'[byToken'[nextToken]] # None
          /\ byId'[byToken'[nextToken]].call = c
      <3>1. NewRecord(o, c) # None /\ NewRecord(o, c).call = c
        BY <1>1, <1>3, IssueWrites, RecordParts DEF NewRecord
      <3>2. byToken'[nextToken] = c.id /\ byId'[c.id] = NewRecord(o, c)
        BY <1>1, <1>3, IssueWrites
      <3>3. c.id # None
        BY RequestParts, RegistryAssumption
      <3> QED
        BY <3>1, <3>2, <3>3
    <2>6. ASSUME NEW a \in receipts'
          PROVE  GetByToken(a.token)' # None /\ GetByToken(a.token)'.call = a.call
      <3>1. CASE a \in receipts
        BY <1>2, <2>4, <3>1
      <3>2. CASE a = [to |-> o, call |-> c, token |-> nextToken]
        BY <2>5, <3>2 DEF GetByToken
      <3> QED
        BY <2>1, <2>6, <3>1, <3>2
    <2> QED
      BY <2>6 DEF AnswersRecorded
  <1>4. ASSUME NEW o \in Accounts, NEW c \in Request, IssueAgain(o, c)
        PROVE  AnswersRecorded'
    <2> DEFINE i == byKey[BusinessKey(c)]
               r == byId[i]
    <2>1. i \in Ids /\ r \in Record /\ BusinessKey(c) \in Facts
      BY <1>1, <1>4, RequestParts DEF IssueAgain, TypeOK
    <2>2. r.call.id = i /\ byToken[r.token] = i /\ BusinessKey(r.call) = BusinessKey(c)
      BY <1>1, <1>4, <2>1 DEF IssueAgain, IndexesAgree
    <2>3. r.call = c
      <3>1. r.call \in Request
        BY <2>1, RecordParts
      <3>2. r.call.id = c.id /\ r.call.hash = c.hash /\ r.call.schema = c.schema
        BY <1>4 DEF IssueAgain, SameRequest
      <3> QED
        BY <2>2, <3>1, <3>2 DEF Request, BusinessKey
    <2>4. UNCHANGED <<byId, byToken>>
      BY <1>4 DEF IssueAgain, recordVars
    <2>5. receipts' = receipts \cup {[to |-> o, call |-> c, token |-> r.token]}
      BY <1>4 DEF IssueAgain
    <2>6. GetByToken(r.token) # None /\ GetByToken(r.token).call = c
      BY <1>4, <2>1, <2>2, <2>3, RegistryAssumption, RecordParts DEF GetByToken, IssueAgain
    <2>7. ASSUME NEW a \in receipts'
          PROVE  GetByToken(a.token)' # None /\ GetByToken(a.token)'.call = a.call
      <3>1. CASE a \in receipts
        BY <1>2, <2>4, <3>1
      <3>2. CASE a = [to |-> o, call |-> c, token |-> r.token]
        BY <2>4, <2>6, <3>2 DEF GetByToken
      <3> QED
        BY <2>5, <2>7, <3>1, <3>2
    <2> QED
      BY <2>7 DEF AnswersRecorded
  <1>5. CASE UNCHANGED <<byToken, receipts>>
    BY <1>2, <1>5 DEF AnswersRecorded
  <1> QED
    BY <1>3, <1>4, <1>5
       DEF Next, Revoke, Link, Unlink, AllowHashSchema, Administer, NextLedger, vars, recordVars

LEMMA AnswersFollow == Indexed /\ AnswersRecorded => AnswersAgree
  <1> SUFFICES ASSUME Indexed, AnswersRecorded
               PROVE  AnswersAgree
    OBVIOUS
  <1>1. TypeOK /\ IndexesAgree
    BY DEF Indexed
  <1>2. ASSUME NEW a \in receipts
        PROVE  /\ a.token \in Tokens
               /\ byToken[a.token] = a.call.id
               /\ byId[a.call.id].call = a.call
               /\ byId[a.call.id].token = a.token
               /\ byKey[BusinessKey(a.call)] = a.call.id
    <2>1. a.token \in Tokens
      BY <1>1 DEF TypeOK, Receipt
    <2>2. byToken[a.token] \in Ids /\ byId[byToken[a.token]] # None
      BY <1>1, <2>1 DEF TypeOK, AnswersRecorded, GetByToken
    <2>3. byId[byToken[a.token]].call = a.call /\ byId[byToken[a.token]].token = a.token
      BY <1>1, <2>1, <2>2 DEF AnswersRecorded, GetByToken, IndexesAgree
    <2> QED
      BY <1>1, <2>1, <2>2, <2>3 DEF IndexesAgree
  <1>3. ASSUME NEW a \in receipts, NEW b \in receipts,
               \/ BusinessKey(a.call) = BusinessKey(b.call)
               \/ a.call.id = b.call.id
               \/ a.token = b.token
        PROVE  a.call = b.call /\ a.token = b.token
    <2>1. a.call.id = b.call.id
      BY <1>2, <1>3
    <2> QED
      BY <1>2, <2>1
  <1> QED
    BY <1>3 DEF AnswersAgree, AnswersRecorded

------------------------------------------------------------------------------
(* The event log.                                                          *)

LEMMA LogPrefix ==
  ASSUME NEW log \in Seq(Event), NEW e \in Event, NEW i, NEW o, NEW n \in 0..Len(log)
  PROVE  LinkedInLog(Append(log, e), i, o, n) <=> LinkedInLog(log, i, o, n)
  BY AppendProperties DEF LinkedInLog

LEMMA LogExtend ==
  ASSUME NEW log \in Seq(Event), NEW e \in Event, NEW i, NEW o,
         LinkedInLog(log, i, o, Len(log)), e # UnlinkEvent(i, o)
  PROVE  LinkedInLog(Append(log, e), i, o, Len(log) + 1)
  <1>1. PICK j \in 1..Len(log) :
          /\ log[j] = LinkEvent(i, o)
          /\ \A k \in (j + 1)..Len(log) : log[k] # UnlinkEvent(i, o)
    BY DEF LinkedInLog
  <1>2. /\ Append(log, e)[j] = log[j]
        /\ \A k \in 1..Len(log) : Append(log, e)[k] = log[k]
        /\ Append(log, e)[Len(log) + 1] = e
        /\ Len(log) \in Nat
    BY AppendProperties
  <1>3. \A k \in (j + 1)..(Len(log) + 1) : k \in (j + 1)..Len(log) \/ k = Len(log) + 1
    BY <1>2
  <1>4. \A k \in (j + 1)..(Len(log) + 1) : Append(log, e)[k] # UnlinkEvent(i, o)
    BY <1>1, <1>2, <1>3
  <1>5. j \in 1..(Len(log) + 1)
    BY <1>2
  <1> QED
    BY <1>1, <1>2, <1>4, <1>5 DEF LinkedInLog

\* A new event of an authorised operator, or one about a link.
LEMMA AppendKeepsAuthority ==
  ASSUME TypeOK, EventsAreAuthorised, [Next]_vars, NEW e \in Event,
         events' = Append(events, e),
         e.kind \in {"issued", "revoked"} =>
           /\ byId'[e.id] # None
           /\ LinkedInLog(events', byId'[e.id].call.issuer, e.by, Len(events) + 1)
  PROVE  EventsAreAuthorised'
  <1>1. events \in Seq(Event) /\ Len(events) \in Nat
    BY DEF TypeOK
  <1>2. /\ DOMAIN events = 1..Len(events)
        /\ DOMAIN events' = 1..(Len(events) + 1)
        /\ \A n \in 1..Len(events) : events'[n] = events[n]
        /\ events'[Len(events) + 1] = e
    BY <1>1, AppendProperties, LenProperties
  <1>3. ASSUME NEW n \in 1..Len(events), events[n].kind \in {"issued", "revoked"}
        PROVE  /\ byId'[events[n].id] # None
               /\ LinkedInLog(events', byId'[events[n].id].call.issuer, events[n].by, n)
    <2>1. /\ byId[events[n].id] # None
          /\ LinkedInLog(events, byId[events[n].id].call.issuer, events[n].by, n)
      BY <1>2, <1>3 DEF EventsAreAuthorised
    <2>2. events[n].id \in Ids
      <3>1. events[n] \in Event
        BY <1>1, <1>2, ElementOfSeq
      <3> QED
        BY <1>3, <3>1 DEF Event
    <2>3. /\ byId'[events[n].id] # None
          /\ byId'[events[n].id].call = byId[events[n].id].call
      BY <2>1, <2>2, RecordsStay
    <2>4. n \in 0..Len(events)
      BY <1>1
    <2> QED
      BY <1>1, <2>1, <2>3, <2>4, LogPrefix
  <1>4. \A n \in DOMAIN events' : n \in 1..Len(events) \/ n = Len(events) + 1
    BY <1>1, <1>2
  <1> QED
    BY <1>2, <1>3, <1>4 DEF EventsAreAuthorised

LEMMA StepAuthorised ==
  TypeOK /\ LinksInLog /\ EventsAreAuthorised /\ [Next]_vars => EventsAreAuthorised'
  <1> SUFFICES ASSUME TypeOK, LinksInLog, EventsAreAuthorised, [Next]_vars
               PROVE  EventsAreAuthorised'
    OBVIOUS
  <1>0. events \in Seq(Event)
    BY DEF TypeOK
  <1>1. ASSUME NEW o \in Accounts, NEW c \in Request, Issue(o, c)
        PROVE  EventsAreAuthorised'
    <2> DEFINE e == [kind |-> "issued", id |-> c.id, token |-> nextToken,
                     call |-> c, by |-> o, at |-> ledger]
    <2>1. e \in Event /\ events' = Append(events, e)
      BY <1>1, EventTypes, RequestParts DEF Issue, TypeOK, AccessTypeOK
    <2>2. LinkedInLog(events, c.issuer, o, Len(events))
      BY <1>1 DEF Issue, MayIssue, Linked, LinksInLog
    <2>3. e # UnlinkEvent(c.issuer, o)
      BY DEF UnlinkEvent
    <2>4. LinkedInLog(events', c.issuer, o, Len(events) + 1)
      BY <1>0, <2>1, <2>2, <2>3, LogExtend
    <2>5. byId'[c.id] # None /\ byId'[c.id].call = c
      <3>1. byId'[c.id] = NewRecord(o, c) /\ NewRecord(o, c) # None
        BY <1>1, IssueWrites, RecordParts
      <3>2. NewRecord(o, c).call = c
        BY DEF NewRecord
      <3> QED
        BY <3>1, <3>2
    <2>6. e.id = c.id /\ e.by = o
      OBVIOUS
    <2>7. /\ byId'[e.id] # None
          /\ LinkedInLog(events', byId'[e.id].call.issuer, e.by, Len(events) + 1)
      BY <2>4, <2>5, <2>6
    <2> HIDE DEF e
    <2> QED
      BY <2>1, <2>7, AppendKeepsAuthority
  <1>2. ASSUME NEW o \in Accounts, NEW id \in Ids,
               NEW reason \in Reasons \cup {None}, Revoke(o, id, reason)
        PROVE  EventsAreAuthorised'
    <2> DEFINE e == RevokedEvent(o, id, reason)
               i == byId[id].call.issuer
    <2>1. byId[id] \in Record /\ byId'[id] # None /\ byId'[id].call = byId[id].call
      BY <1>2, RevokeWrites, RecordParts
    <2>2. e \in Event /\ events' = Append(events, e)
      BY <1>2, <2>1, EventTypes, RecordParts DEF Revoke, RevokedEvent, TypeOK, AccessTypeOK
    <2>3. LinkedInLog(events, i, o, Len(events))
      BY <1>2 DEF Revoke, Linked, LinksInLog
    <2>4. e # UnlinkEvent(i, o)
      BY DEF UnlinkEvent, RevokedEvent
    <2>5. LinkedInLog(events', i, o, Len(events) + 1)
      BY <1>0, <2>2, <2>3, <2>4, LogExtend
    <2>6. e.id = id /\ e.by = o
      BY DEF RevokedEvent
    <2>7. /\ byId'[e.id] # None
          /\ LinkedInLog(events', byId'[e.id].call.issuer, e.by, Len(events) + 1)
      BY <2>1, <2>5, <2>6
    <2> HIDE DEF e
    <2> QED
      BY <2>2, <2>7, AppendKeepsAuthority
  <1>3. ASSUME NEW i \in Issuers, NEW o \in Accounts, Link(i, o) \/ Unlink(i, o)
        PROVE  EventsAreAuthorised'
    <2>1. PICK e \in {LinkEvent(i, o), UnlinkEvent(i, o)} : events' = Append(events, e)
      BY <1>3 DEF Link, Unlink
    <2>2. e \in Event /\ e.kind \notin {"issued", "revoked"}
      <3>1. e \in Event
        BY EventTypes
      <3>2. e.kind \in {"linked", "unlinked"}
        BY DEF LinkEvent, UnlinkEvent
      <3> QED
        BY <3>1, <3>2
    <2> QED
      BY <2>1, <2>2, AppendKeepsAuthority
  <1>4. CASE UNCHANGED <<byId, events>>
    BY <1>4 DEF EventsAreAuthorised
  <1> QED
    BY <1>1, <1>2, <1>3, <1>4
       DEF Next, IssueAgain, AllowHashSchema, Administer, NextLedger, vars, recordVars

LEMMA StepLinks == TypeOK /\ LinksInLog /\ [Next]_vars => LinksInLog'
  <1> SUFFICES ASSUME TypeOK, LinksInLog, [Next]_vars
               PROVE  LinksInLog'
    OBVIOUS
  <1>0. events \in Seq(Event) /\ Len(events) \in Nat
    BY DEF TypeOK
  \* an event that is not an unlinking of one of the links that remain
  <1>1. ASSUME NEW e \in Event, events' = Append(events, e),
               \A l \in links' : l \in links /\ e # UnlinkEvent(l[1], l[2])
        PROVE  LinksInLog'
    <2>1. Len(events') = Len(events) + 1
      BY <1>0, <1>1, AppendProperties
    <2>2. ASSUME NEW l \in links'
          PROVE  LinkedInLog(events', l[1], l[2], Len(events) + 1)
      <3>1. LinkedInLog(events, l[1], l[2], Len(events)) /\ e # UnlinkEvent(l[1], l[2])
        BY <1>1, <2>2 DEF LinksInLog
      <3> QED
        BY <1>0, <1>1, <3>1, LogExtend
    <2> QED
      BY <2>1, <2>2 DEF LinksInLog
  <1>2. ASSUME NEW o \in Accounts, NEW c \in Request, Issue(o, c)
        PROVE  LinksInLog'
    <2> DEFINE e == [kind |-> "issued", id |-> c.id, token |-> nextToken,
                     call |-> c, by |-> o, at |-> ledger]
    <2>1. e \in Event /\ events' = Append(events, e) /\ links' = links
      BY <1>2, EventTypes, RequestParts DEF Issue, TypeOK, AccessTypeOK
    <2>2. \A l \in links' : e # UnlinkEvent(l[1], l[2])
      BY DEF UnlinkEvent
    <2> HIDE DEF e
    <2> QED
      BY <1>1, <2>1, <2>2
  <1>3. ASSUME NEW o \in Accounts, NEW id \in Ids,
               NEW reason \in Reasons \cup {None}, Revoke(o, id, reason)
        PROVE  LinksInLog'
    <2> DEFINE e == RevokedEvent(o, id, reason)
    <2>1. byId[id] \in Record
      BY <1>3, RevokeWrites
    <2>2. e \in Event /\ events' = Append(events, e) /\ links' = links
      BY <1>3, <2>1, EventTypes, RecordParts DEF Revoke, RevokedEvent, TypeOK, AccessTypeOK
    <2>3. \A l \in links' : e # UnlinkEvent(l[1], l[2])
      BY DEF UnlinkEvent, RevokedEvent
    <2> HIDE DEF e
    <2> QED
      BY <1>1, <2>2, <2>3
  <1>4. ASSUME NEW i \in Issuers, NEW o \in Accounts, Link(i, o)
        PROVE  LinksInLog'
    <2> DEFINE e == LinkEvent(i, o)
    <2>1. e \in Event /\ events' = Append(events, e) /\ links' = links \cup {<<i, o>>}
      BY <1>4, EventTypes DEF Link
    <2>2. Len(events') = Len(events) + 1 /\ events'[Len(events) + 1] = e
      BY <1>0, <2>1, AppendProperties
    <2>3. LinkedInLog(events', i, o, Len(events) + 1)
      BY <1>0, <2>2 DEF LinkedInLog
    <2>4. ASSUME NEW l \in links
          PROVE  LinkedInLog(events', l[1], l[2], Len(events) + 1)
      <3>1. LinkedInLog(events, l[1], l[2], Len(events))
        BY <2>4 DEF LinksInLog
      <3>2. e # UnlinkEvent(l[1], l[2])
        BY DEF LinkEvent, UnlinkEvent
      <3> QED
        BY <1>0, <2>1, <3>1, <3>2, LogExtend
    <2> QED
      BY <2>1, <2>2, <2>3, <2>4 DEF LinksInLog
  <1>5. ASSUME NEW i \in Issuers, NEW o \in Accounts, Unlink(i, o)
        PROVE  LinksInLog'
    <2> DEFINE e == UnlinkEvent(i, o)
    <2>1. e \in Event /\ events' = Append(events, e) /\ links' = links \ {<<i, o>>}
      BY <1>5, EventTypes DEF Unlink
    <2>2. \A l \in links' : e # UnlinkEvent(l[1], l[2])
      <3> SUFFICES ASSUME NEW l \in links', e = UnlinkEvent(l[1], l[2])
                   PROVE  FALSE
        OBVIOUS
      <3>1. i = l[1] /\ o = l[2]
        BY DEF UnlinkEvent
      <3>2. l \in Issuers \X Accounts /\ l # <<i, o>>
        BY <2>1 DEF TypeOK
      <3> QED
        BY <3>1, <3>2
    <2> HIDE DEF e
    <2> QED
      BY <1>1, <2>1, <2>2
  <1>6. CASE UNCHANGED <<links, events>>
    BY <1>6 DEF LinksInLog
  <1> QED
    BY <1>2, <1>3, <1>4, <1>5, <1>6
       DEF Next, IssueAgain, AllowHashSchema, Administer, NextLedger, vars

------------------------------------------------------------------------------
(* What the log says of a credential.                                      *)

LEMMA LastExists ==
  ASSUME NEW k \in Nat, NEW S \in SUBSET (1..k), S # {}
  PROVE  Last(S) \in S /\ \A m \in S : m <= Last(S)
  <1> DEFINE R == OpToRel(<, Nat)
             T == {i \in Nat : k - i \in S}
  <1>1. IsWellFoundedOn(R, Nat)
    BY NatLessThanWellFounded
  <1>2. \A i, j \in Nat : i < j => <<i, j>> \in R
    BY DEF OpToRel
  <1>3. T \in SUBSET Nat /\ T # {}
    <2>1. PICK s \in S : TRUE
      OBVIOUS
    <2>2. k - s \in Nat /\ k - (k - s) = s
      OBVIOUS
    <2> QED
      BY <2>1, <2>2
  <1> HIDE DEF R, T
  <1>4. PICK i \in T : \A j \in T : ~ (<<j, i>> \in R)
    BY <1>1, <1>3, WFMin
  <1>5. \A j \in T : ~ (j < i)
    BY <1>2, <1>3, <1>4
  <1>6. k - i \in S /\ i \in Nat
    BY <1>4 DEF T
  <1>7. ASSUME NEW m \in S
        PROVE  m <= k - i
    <2>1. k - m \in T
      BY DEF T
    <2> QED
      BY <1>5, <1>6, <2>1
  <1> QED
    BY <1>6, <1>7 DEF Last

LEMMA LastIs ==
  ASSUME NEW S \in SUBSET Nat, NEW k \in S, \A m \in S : m <= k
  PROVE  Last(S) = k
  <1>1. PICK l \in S : l = Last(S) /\ k <= l
    BY DEF Last
  <1>2. l \in Nat /\ k \in Nat /\ l <= k
    OBVIOUS
  <1> QED
    BY <1>1, <1>2

\* The positions that speak of a credential when one event follows.
LEMMA LogGrows ==
  ASSUME TypeOK, NEW e \in Event, events' = Append(events, e), NEW id
  PROVE  /\ Issuances(id) \subseteq 1..Len(events)
         /\ Issuances(id)' =
              IF e.kind = "issued" /\ e.id = id THEN Issuances(id) \cup {Len(events) + 1}
              ELSE Issuances(id)
         /\ \A from \in 1..Len(events) :
              /\ Revocations(id, from) \subseteq 1..Len(events)
              /\ Revocations(id, from)' =
                   IF e.kind = "revoked" /\ e.id = id
                   THEN Revocations(id, from) \cup {Len(events) + 1}
                   ELSE Revocations(id, from)
         /\ \A from : from = Len(events) + 1 => Revocations(id, from)' = {}
         /\ \A n \in 1..Len(events) : events'[n] = events[n]
         /\ events'[Len(events) + 1] = e
         /\ Len(events) \in Nat
  <1>1. events \in Seq(Event) /\ Len(events) \in Nat
    BY DEF TypeOK
  <1>2. /\ DOMAIN events = 1..Len(events)
        /\ DOMAIN events' = 1..(Len(events) + 1)
        /\ \A n \in 1..Len(events) : events'[n] = events[n]
        /\ events'[Len(events) + 1] = e
    BY <1>1, AppendProperties, LenProperties
  <1>3. \A n : n \in DOMAIN events' <=> n \in DOMAIN events \/ n = Len(events) + 1
    BY <1>1, <1>2
  <1>4. \A n \in DOMAIN events : n # Len(events) + 1 /\ n <= Len(events) /\ n \in Nat
    BY <1>1, <1>2
  <1>5. Issuances(id)' =
          IF e.kind = "issued" /\ e.id = id THEN Issuances(id) \cup {Len(events) + 1}
          ELSE Issuances(id)
    BY <1>2, <1>3 DEF Issuances
  <1>6. ASSUME NEW from \in 1..Len(events)
        PROVE  Revocations(id, from)' =
                 IF e.kind = "revoked" /\ e.id = id
                 THEN Revocations(id, from) \cup {Len(events) + 1}
                 ELSE Revocations(id, from)
    <2>1. Len(events) + 1 > from
      BY <1>1
    <2> QED
      BY <1>2, <1>3, <2>1 DEF Revocations
  <1>7. ASSUME NEW from, from = Len(events) + 1
        PROVE  Revocations(id, from)' = {}
    BY <1>1, <1>3, <1>4, <1>7 DEF Revocations
  <1> QED
    BY <1>1, <1>2, <1>5, <1>6, <1>7 DEF Issuances, Revocations

\* An event that does not name the credential leaves what the log says of it.
LEMMA RebuiltStays ==
  ASSUME TypeOK, NEW e \in Event, events' = Append(events, e), NEW id,
         e.kind \in {"issued", "revoked"} => e.id # id
  PROVE  Rebuilt(id)' = Rebuilt(id)
  <1>1. /\ Issuances(id) \subseteq 1..Len(events)
        /\ Issuances(id)' = Issuances(id)
        /\ \A from \in 1..Len(events) :
             /\ Revocations(id, from) \subseteq 1..Len(events)
             /\ Revocations(id, from)' = Revocations(id, from)
        /\ \A n \in 1..Len(events) : events'[n] = events[n]
        /\ Len(events) \in Nat
    BY LogGrows
  <1>2. CASE Issuances(id) = {}
    BY <1>1, <1>2 DEF Rebuilt
  <1>3. CASE Issuances(id) # {}
    <2>1. PICK n : n = Last(Issuances(id))
      OBVIOUS
    <2>2. n \in 1..Len(events) /\ n = Last(Issuances(id)')
      BY <1>1, <1>3, <2>1, LastExists
    <2>3. PICK R : R = Revocations(id, n)
      OBVIOUS
    <2>4. R = Revocations(id, n)' /\ R \subseteq 1..Len(events)
      BY <1>1, <2>2, <2>3
    <2>5. R # {} => Last(R) \in 1..Len(events)
      BY <1>1, <2>4, LastExists
    <2>6. events'[n] = events[n] /\ (R # {} => events'[Last(R)] = events[Last(R)])
      BY <1>1, <2>2, <2>5
    <2> QED
      BY <1>1, <1>3, <2>1, <2>2, <2>3, <2>4, <2>6 DEF Rebuilt
  <1> QED
    BY <1>2, <1>3

\* An issuance starts the record anew.
LEMMA RebuiltIssued ==
  ASSUME TypeOK, NEW o \in Accounts, NEW c \in Request, Issue(o, c)
  PROVE  Rebuilt(c.id)' = NewRecord(o, c)
  <1> DEFINE e == [kind |-> "issued", id |-> c.id, token |-> nextToken,
                   call |-> c, by |-> o, at |-> ledger]
  <1>0. PICK n : n = Len(events) + 1
    OBVIOUS
  <1>1. e \in Event /\ events' = Append(events, e)
    BY EventTypes, RequestParts DEF Issue, TypeOK, AccessTypeOK
  <1>2. e.kind = "issued" /\ e.id = c.id
    OBVIOUS
  <1>3. e.call = c /\ e.token = nextToken /\ e.by = o /\ e.at = ledger
    OBVIOUS
  <1> HIDE DEF e
  <1>4. /\ Issuances(c.id) \subseteq 1..Len(events)
        /\ Issuances(c.id)' = Issuances(c.id) \cup {n}
        /\ Revocations(c.id, n)' = {}
        /\ events'[n] = e
        /\ Len(events) \in Nat
    BY <1>0, <1>1, <1>2, LogGrows
  <1>5. Last(Issuances(c.id)') = n
    <2>1. n \in Nat /\ \A m \in Issuances(c.id) : m \in Nat /\ m <= n
      BY <1>0, <1>4
    <2> QED
      BY <1>4, <2>1, LastIs
  <1>6. Rebuilt(c.id)' = [call |-> e.call, token |-> e.token, by |-> e.by,
                          issued |-> e.at, revoked |-> None, reason |-> None]
    <2>1. Issuances(c.id)' # {}
      BY <1>4
    <2>2. Rebuilt(c.id)' = [call |-> events'[n].call, token |-> events'[n].token,
                            by |-> events'[n].by, issued |-> events'[n].at,
                            revoked |-> None, reason |-> None]
      BY <1>4, <1>5, <2>1 DEF Rebuilt
    <2> QED
      BY <1>4, <2>2
  <1> QED
    BY <1>3, <1>6 DEF NewRecord

\* A revocation adds its ledger and its reason to the record.
LEMMA RebuiltRevoked ==
  ASSUME TypeOK, NEW o \in Accounts, NEW id \in Ids,
         NEW reason \in Reasons \cup {None}, Revoke(o, id, reason),
         byId[id] = Rebuilt(id)
  PROVE  Rebuilt(id)' = byId'[id]
  <1> DEFINE e == RevokedEvent(o, id, reason)
             last == Len(events) + 1
  <1>1. byId[id] \in Record /\ byId[id] # None
    BY RevokeWrites, RecordParts
  <1>2. e \in Event /\ events' = Append(events, e)
    BY <1>1, EventTypes, RecordParts DEF Revoke, RevokedEvent, TypeOK, AccessTypeOK
  <1>3. e.kind = "revoked" /\ e.id = id /\ e.at = ledger /\ e.reason = reason
    BY DEF RevokedEvent
  <1> HIDE DEF e
  <1>4. /\ Issuances(id) \subseteq 1..Len(events)
        /\ Issuances(id)' = Issuances(id)
        /\ \A from \in 1..Len(events) :
             /\ Revocations(id, from) \subseteq 1..Len(events)
             /\ Revocations(id, from)' = Revocations(id, from) \cup {last}
        /\ \A n \in 1..Len(events) : events'[n] = events[n]
        /\ events'[last] = e
        /\ Len(events) \in Nat
    BY <1>2, <1>3, LogGrows, ZenonT(60)
  <1>5. Issuances(id) # {}
    BY <1>1 DEF Rebuilt
  <1>6. PICK n : n = Last(Issuances(id))
    OBVIOUS
  <1>7. n \in 1..Len(events) /\ n = Last(Issuances(id)')
    BY <1>4, <1>5, <1>6, LastExists
  <1>8. Last(Revocations(id, n)') = last
    <2>1. last \in Nat /\ \A m \in Revocations(id, n) : m \in Nat /\ m <= last
      BY <1>4, <1>7
    <2> HIDE DEF last
    <2> QED
      BY <1>4, <1>7, <2>1, LastIs, SMTT(30)
  <1> HIDE DEF last
  <1>9. Revocations(id, n)' # {}
    BY <1>4, <1>7
  <1>10. Rebuilt(id)' = [call |-> events[n].call, token |-> events[n].token,
                         by |-> events[n].by, issued |-> events[n].at,
                         revoked |-> e.at, reason |-> e.reason]
    BY <1>4, <1>5, <1>7, <1>8, <1>9 DEF Rebuilt
  <1>11. /\ byId[id].call = events[n].call
         /\ byId[id].token = events[n].token
         /\ byId[id].by = events[n].by
         /\ byId[id].issued = events[n].at
    BY <1>5, <1>6 DEF Rebuilt
  <1>12. byId'[id] = [byId[id] EXCEPT !.revoked = ledger, !.reason = reason]
    BY DEF Revoke, TypeOK
  <1>13. byId'[id] = [call |-> byId[id].call, token |-> byId[id].token,
                      by |-> byId[id].by, issued |-> byId[id].issued,
                      revoked |-> ledger, reason |-> reason]
    BY <1>1, <1>12 DEF Record
  <1> QED
    BY <1>3, <1>10, <1>11, <1>13

LEMMA InitRebuilt == Init => EventsRebuildRecords
  <1> SUFFICES ASSUME Init
               PROVE  EventsRebuildRecords
    OBVIOUS
  <1>1. \A id \in Ids : Issuances(id) = {}
    BY DEF Init, Issuances
  <1> QED
    BY <1>1 DEF Init, EventsRebuildRecords, Rebuilt

LEMMA StepRebuilt == TypeOK /\ EventsRebuildRecords /\ [Next]_vars => EventsRebuildRecords'
  <1> SUFFICES ASSUME TypeOK, EventsRebuildRecords, [Next]_vars
               PROVE  EventsRebuildRecords'
    OBVIOUS
  <1>1. ASSUME NEW o \in Accounts, NEW c \in Request, Issue(o, c)
        PROVE  EventsRebuildRecords'
    <2> SUFFICES ASSUME NEW i \in Ids
                 PROVE  byId'[i] = Rebuilt(i)'
      BY DEF EventsRebuildRecords
    <2>1. CASE i = c.id
      BY <1>1, <2>1, RebuiltIssued, IssueWrites
    <2>2. CASE i # c.id
      <3> DEFINE e == [kind |-> "issued", id |-> c.id, token |-> nextToken,
                       call |-> c, by |-> o, at |-> ledger]
      <3>1. e \in Event /\ events' = Append(events, e)
        BY <1>1, EventTypes, RequestParts DEF Issue, TypeOK, AccessTypeOK
      <3>2. e.id # i
        BY <2>2
      <3> HIDE DEF e
      <3>3. Rebuilt(i)' = Rebuilt(i)
        BY <3>1, <3>2, RebuiltStays
      <3> QED
        BY <1>1, <2>2, <3>3, IssueWrites DEF EventsRebuildRecords
    <2> QED
      BY <2>1, <2>2
  <1>2. ASSUME NEW o \in Accounts, NEW id \in Ids,
               NEW reason \in Reasons \cup {None}, Revoke(o, id, reason)
        PROVE  EventsRebuildRecords'
    <2> SUFFICES ASSUME NEW i \in Ids
                 PROVE  byId'[i] = Rebuilt(i)'
      BY DEF EventsRebuildRecords
    <2>1. CASE i = id
      BY <1>2, <2>1, RebuiltRevoked DEF EventsRebuildRecords
    <2>2. CASE i # id
      <3> DEFINE e == RevokedEvent(o, id, reason)
      <3>1. byId[id] \in Record
        BY <1>2, RevokeWrites
      <3>2. e \in Event /\ events' = Append(events, e)
        BY <1>2, <3>1, EventTypes, RecordParts DEF Revoke, RevokedEvent, TypeOK, AccessTypeOK
      <3>3. e.id # i
        BY <2>2 DEF RevokedEvent
      <3> HIDE DEF e
      <3>4. Rebuilt(i)' = Rebuilt(i)
        BY <3>2, <3>3, RebuiltStays
      <3> QED
        BY <1>2, <2>2, <3>4, RevokeWrites DEF EventsRebuildRecords
    <2> QED
      BY <2>1, <2>2
  <1>3. ASSUME NEW i \in Issuers, NEW o \in Accounts, Link(i, o) \/ Unlink(i, o)
        PROVE  EventsRebuildRecords'
    <2>1. PICK e \in {LinkEvent(i, o), UnlinkEvent(i, o)} : events' = Append(events, e)
      BY <1>3 DEF Link, Unlink
    <2>2. e \in Event
      BY EventTypes
    <2>3. e.kind \notin {"issued", "revoked"}
      BY DEF LinkEvent, UnlinkEvent
    <2>4. \A id : Rebuilt(id)' = Rebuilt(id)
      BY <2>1, <2>2, <2>3, RebuiltStays
    <2>5. byId' = byId
      BY <1>3 DEF Link, Unlink, recordVars
    <2> QED
      BY <2>4, <2>5 DEF EventsRebuildRecords
  <1>4. CASE UNCHANGED <<byId, events>>
    BY <1>4, SMTT(60) DEF EventsRebuildRecords, Rebuilt, Issuances, Revocations
  <1> QED
    BY <1>1, <1>2, <1>3, <1>4
       DEF Next, IssueAgain, AllowHashSchema, Administer, NextLedger, vars, recordVars

------------------------------------------------------------------------------
(* The invariant and what follows from it.                                 *)

(* The inductive invariant holds in every reachable state of the contract. *)
THEOREM Invariance == Spec => []IInv
  <1>1. Init => IInv
    <2>1. Init => LinksInLog /\ EventsAreAuthorised /\ AnswersRecorded
      BY DEF Init, LinksInLog, EventsAreAuthorised, AnswersRecorded
    <2> QED
      BY <2>1, InitTypes, InitIndexed, InitRebuilt DEF IInv
  <1>2. IInv /\ [Next]_vars => IInv'
    BY StepTypes, StepIndexed, StepAnswers, StepLinks, StepAuthorised, StepRebuilt
       DEF IInv, Indexed
  <1> QED
    BY <1>1, <1>2, PTL DEF Spec

(* Every storage entry keeps its type; the token counter never leaves the  *)
(* width of a u64, however many credentials are issued.                    *)
THEOREM TypeCorrect == Spec => []TypeOK
  <1>1. IInv => TypeOK
    BY DEF IInv
  <1> QED
    BY <1>1, Invariance, PTL

(* The entries by id, by token and by business key agree for ever.         *)
THEOREM EntriesAgree == Spec => []IndexesAgree
  <1>1. IInv => IndexesAgree
    BY DEF IInv
  <1> QED
    BY <1>1, Invariance, PTL

(* Tokens are 1, 2, 3, ... without a gap, each of one credential.          *)
THEOREM TokensNumbered == Spec => []TokensAreDense
  <1>1. IInv => TokensAreDense
    BY DEF IInv
  <1> QED
    BY <1>1, Invariance, PTL

(* issue_credential answers one request with one token at all times.       *)
THEOREM AnswersConsistent == Spec => []AnswersAgree
  <1>1. IInv => AnswersAgree
    BY AnswersFollow DEF IInv, Indexed
  <1> QED
    BY <1>1, Invariance, PTL

(* Only linked operators issue and revoke, and the log proves it.          *)
THEOREM LogAuthorised == Spec => []EventsAreAuthorised
  <1>1. IInv => EventsAreAuthorised
    BY DEF IInv
  <1> QED
    BY <1>1, Invariance, PTL

(* Whoever follows the events of the contract holds every record of it.    *)
THEOREM LogRebuilds == Spec => []EventsRebuildRecords
  <1>1. IInv => EventsRebuildRecords
    BY DEF IInv
  <1> QED
    BY <1>1, Invariance, PTL

(* A credential that fails verification never passes it again.             *)
THEOREM VerdictsFinal == Spec => VerdictsAreFinal
  <1>1. ASSUME TypeOK, [Next]_vars, NEW id \in Ids, NEW h \in Hashes, NEW s \in Schemas,
               Get(id) # None, Verify(id, h, s)'
        PROVE  Verify(id, h, s)
    <2>1. byId[id] # None /\ byId'[id].call = byId[id].call
      BY <1>1, RecordsStay DEF Get
    <2>2. byId'[id].revoked = None => byId[id].revoked = None
      <3>1. ASSUME NEW o \in Accounts, NEW c \in Request, Issue(o, c)
            PROVE  byId'[id] = byId[id]
        BY <1>1, <2>1, <3>1, IssueWrites
      <3>2. ASSUME NEW o \in Accounts, NEW i \in Ids,
                   NEW reason \in Reasons \cup {None}, Revoke(o, i, reason)
            PROVE  byId'[id] = byId[id] \/ byId[id].revoked = None
        BY <1>1, <3>2, RevokeWrites
      <3> QED
        BY <1>1, <3>1, <3>2
           DEF Next, IssueAgain, Link, Unlink, AllowHashSchema, Administer, NextLedger,
               vars, recordVars
    <2> QED
      BY <1>1, <2>1, <2>2 DEF Verify
  <1>2. IInv /\ [Next]_vars =>
          [\A id \in Ids, h \in Hashes, s \in Schemas :
             Get(id) # None /\ Verify(id, h, s)' => Verify(id, h, s)]_vars
    BY <1>1 DEF IInv
  <1> QED
    BY <1>2, Invariance, PTL DEF Spec, VerdictsAreFinal

------------------------------------------------------------------------------
(* The registry implements the ledger of attested facts.                   *)

\* The counting operator of the ledger module is the one of this module.
LEMMA SameCount == \A S : Ledger!Cardinality(S) = Cardinality(S)
  BY DEF Ledger!Cardinality, Cardinality

EntryOf(B, K, f) ==
  [id |-> K[f], token |-> B[K[f]].token,
   state |-> IF B[K[f]].revoked = None THEN "valid" ELSE "revoked"]

LEMMA EntryTypes ==
  ASSUME TypeOK, IndexesAgree, NEW f \in Facts, byKey[f] # None
  PROVE  EntryOf(byId, byKey, f) # None /\ byKey[f] \in Ids /\ byId[byKey[f]] # None
  <1>1. byKey[f] \in Ids /\ byId[byKey[f]] # None
    BY DEF TypeOK, IndexesAgree
  <1>2. byId[byKey[f]].token \in Tokens
    BY <1>1, RecordParts DEF TypeOK
  <1>3. EntryOf(byId, byKey, f) \in LedgerEntry
    BY <1>1, <1>2 DEF EntryOf, LedgerEntry
  <1> QED
    BY <1>1, <1>3, RegistryAssumption

LEMMA EntryValues ==
  /\ Entry = [f \in Facts |-> IF byKey[f] = None THEN None ELSE EntryOf(byId, byKey, f)]
  /\ Entry' = [f \in Facts |-> IF byKey'[f] = None THEN None ELSE EntryOf(byId', byKey', f)]
  BY DEF Entry, EntryOf

LEMMA AttestedAreTaken ==
  ASSUME TypeOK, IndexesAgree
  PROVE  Ledger!Attested = Taken
  <1>1. \A f \in Facts : Entry[f] # None <=> byKey[f] # None
    BY EntryValues, EntryTypes
  <1> QED
    BY <1>1 DEF Ledger!Attested, Taken

\* Issuing attests a fact, with the next number and an unused id.
LEMMA IssueAttests ==
  ASSUME IInv, NEW o \in Accounts, NEW c \in Request, Issue(o, c)
  PROVE  Ledger!Attest(BusinessKey(c), c.id) /\ Entry'[BusinessKey(c)] # Entry[BusinessKey(c)]
  <1> DEFINE f0 == BusinessKey(c)
             first == [id |-> c.id, token |-> Cardinality(Taken) + 1, state |-> "valid"]
  <1>1. TypeOK /\ IndexesAgree /\ CounterCounts
    BY DEF IInv
  <1>2. f0 \in Facts /\ c.id \in Ids /\ None \notin Ids
    BY RequestParts, RegistryAssumption
  <1>3. /\ byId'[c.id] = NewRecord(o, c)
        /\ \A i \in Ids \ {c.id} : byId'[i] = byId[i]
        /\ byKey'[f0] = c.id
        /\ \A f \in Facts \ {f0} : byKey'[f] = byKey[f]
        /\ byId[c.id] = None
        /\ byKey[f0] = None
    BY <1>1, IssueWrites
  <1>4. \A f \in Facts : byKey[f] # None => byKey[f] \in Ids /\ byKey[f] # c.id
    BY <1>1, <1>3, EntryTypes
  <1>5. Entry[f0] = None
    BY <1>2, <1>3, EntryValues
  <1>6. \A g \in Taken : Entry[g].id # c.id
    BY <1>4, EntryValues DEF Taken, EntryOf
  <1>7. EntryOf(byId', byKey', f0) = first
    <2>1. NewRecord(o, c).token = nextToken /\ NewRecord(o, c).revoked = None
      BY DEF NewRecord
    <2> QED
      BY <1>1, <1>3, <2>1 DEF EntryOf, CounterCounts
  <1>8. \A f \in Facts \ {f0} : byKey[f] # None =>
          EntryOf(byId', byKey', f) = EntryOf(byId, byKey, f)
    BY <1>3, <1>4 DEF EntryOf
  <1>9. \A f \in Facts : Entry'[f] = IF f = f0 THEN first ELSE Entry[f]
    BY <1>2, <1>3, <1>7, <1>8, EntryValues
  <1>10. first # None
    <2>1. nextToken \in Tokens /\ first.token = nextToken
      BY <1>1, IssueWrites DEF TypeOK, CounterCounts
    <2>2. first \in LedgerEntry
      BY <1>2, <2>1 DEF LedgerEntry
    <2> QED
      BY <2>2, RegistryAssumption
  <1> HIDE DEF f0, first
  <1>11. Entry' = [Entry EXCEPT ![f0] = first]
    BY <1>2, <1>9, EntryValues
  <1>12. Entry'[f0] # Entry[f0]
    BY <1>2, <1>5, <1>9, <1>10
  <1> USE DEF f0, first
  <1> QED
    BY <1>1, <1>5, <1>6, <1>11, <1>12, AttestedAreTaken, SameCount DEF Ledger!Attest

\* Revoking withdraws the fact of the credential and no other.
LEMMA RevokeWithdraws ==
  ASSUME IInv, NEW o \in Accounts, NEW id \in Ids,
         NEW reason \in Reasons \cup {None}, Revoke(o, id, reason)
  PROVE  /\ Ledger!Withdraw(BusinessKey(byId[id].call))
         /\ Entry'[BusinessKey(byId[id].call)] # Entry[BusinessKey(byId[id].call)]
  <1> DEFINE f0 == BusinessKey(byId[id].call)
  <1>1. TypeOK /\ IndexesAgree
    BY DEF IInv
  <1>2. /\ byId[id] \in Record
        /\ byId'[id].token = byId[id].token
        /\ byId'[id].revoked # None
        /\ byId[id].revoked = None
        /\ \A i \in Ids \ {id} : byId'[i] = byId[i]
    BY <1>1, RevokeWrites
  <1>3. byId[id] # None /\ f0 \in Facts /\ id # None
    BY <1>2, RecordParts, RequestParts, RegistryAssumption
  <1>4. byKey' = byKey /\ byKey[f0] = id
    BY <1>1, <1>3 DEF Revoke, IndexesAgree
  <1>5. \A f \in Facts \ {f0} : byKey[f] # None => byKey[f] \in Ids \ {id}
    BY <1>1, EntryTypes DEF IndexesAgree
  <1>6. \A f \in Facts \ {f0} : byKey[f] # None =>
          EntryOf(byId', byKey', f) = EntryOf(byId, byKey, f)
    BY <1>2, <1>4, <1>5 DEF EntryOf
  <1>7. /\ EntryOf(byId, byKey, f0) = [id |-> id, token |-> byId[id].token, state |-> "valid"]
        /\ EntryOf(byId', byKey', f0) = [id |-> id, token |-> byId[id].token, state |-> "revoked"]
    BY <1>2, <1>4 DEF EntryOf
  <1>8. Entry[f0] = [id |-> id, token |-> byId[id].token, state |-> "valid"]
    BY <1>3, <1>4, <1>7, EntryValues
  <1>9. \A f \in Facts :
          Entry'[f] = IF f = f0 THEN [Entry[f0] EXCEPT !.state = "revoked"] ELSE Entry[f]
    <2>1. Entry'[f0] = [id |-> id, token |-> byId[id].token, state |-> "revoked"]
      BY <1>3, <1>4, <1>7, EntryValues
    <2>2. [Entry[f0] EXCEPT !.state = "revoked"] = [id |-> id, token |-> byId[id].token, state |-> "revoked"]
      BY <1>8
    <2>3. \A f \in Facts \ {f0} : Entry'[f] = Entry[f]
      BY <1>3, <1>4, <1>6, EntryValues
    <2> QED
      BY <2>1, <2>2, <2>3
  <1>10. Entry[f0] # None
    BY <1>1, <1>3, <1>4, EntryTypes, EntryValues
  <1> HIDE DEF f0
  <1>11. Entry' = [Entry EXCEPT ![f0].state = "revoked"]
    BY <1>3, <1>9, EntryValues
  <1>12. Entry[f0].state = "valid" /\ Entry'[f0].state = "revoked"
    BY <1>3, <1>8, <1>9
  <1> USE DEF f0
  <1> QED
    BY <1>10, <1>11, <1>12 DEF Ledger!Withdraw

(* The contract, with its roles, links, three indexes and event log,       *)
(* implements the ledger of attested facts: one credential per fact and    *)
(* for ever, consecutive numbers, revocation that is never undone.         *)
THEOREM LedgerImplemented == Spec => ImplementsLedger
  <1>1. Init => Ledger!LedgerInit
    BY DEF Init, Ledger!LedgerInit, Entry
  <1>2. IInv /\ [Next]_vars => [Ledger!LedgerNext]_Entry
    <2> SUFFICES ASSUME IInv, [Next]_vars
                 PROVE  Ledger!LedgerNext \/ UNCHANGED Entry
      BY DEF IInv
    <2>1. ASSUME NEW o \in Accounts, NEW c \in Request, Issue(o, c)
          PROVE  Ledger!LedgerNext
      BY <2>1, IssueAttests, RequestParts DEF Ledger!LedgerNext
    <2>2. ASSUME NEW o \in Accounts, NEW id \in Ids,
                 NEW reason \in Reasons \cup {None}, Revoke(o, id, reason)
          PROVE  Ledger!LedgerNext
      <3>1. BusinessKey(byId[id].call) \in Facts
        BY <2>2, RevokeWrites, RecordParts, RequestParts DEF IInv
      <3> QED
        BY <2>2, <3>1, RevokeWithdraws DEF Ledger!LedgerNext
    <2>3. CASE UNCHANGED <<byId, byKey>>
      BY <2>3 DEF Entry
    <2> QED
      BY <2>1, <2>2, <2>3
         DEF Next, IssueAgain, Link, Unlink, AllowHashSchema, Administer, NextLedger,
             vars, recordVars
  <1> QED
    BY <1>1, <1>2, Invariance, PTL DEF Spec, ImplementsLedger, Ledger!LedgerSpec
=============================================================================
