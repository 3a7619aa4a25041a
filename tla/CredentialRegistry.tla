------------------------- MODULE CredentialRegistry -------------------------
(***************************************************************************)
(* The CulturalCredentialRegistry contract.  A record is found by its id,  *)
(* by its token and by the digest of its business key: three entries that  *)
(* one call writes and every later call relies on.  Issuing needs a role   *)
(* and an active link between the institution and the signing operator;    *)
(* both may come and go between any two calls.                             *)
(*                                                                         *)
(* A call that answers with an error changes nothing and is not a step.    *)
(* subject stands for the pair subject_id, event_id; the SHA-256 digest of *)
(* a business key is the key itself.  Entry lifetimes are left out: an     *)
(* archived entry cannot be read as missing, it must be restored first.    *)
(***************************************************************************)
EXTENDS AccessControl, Sequences, FiniteSets

CONSTANTS
  Ids,       \* credential_id
  Issuers,   \* issuer_id
  Subjects,  \* subject_id and event_id
  Types,     \* credential_type values a caller may pass
  Hashes,    \* metadata_hash
  Schemas,   \* hash_schema
  Reasons,   \* reason_hash
  MaxToken,  \* u64::MAX
  MaxLinks   \* bound: links made between an issuer and an operator

Request == [id : Ids, issuer : Issuers, subject : Subjects, type : Types,
            hash : Hashes, schema : Schemas]

Facts == [issuer : Issuers, subject : Subjects, type : Types]

Tokens == 1..MaxToken

(* revoked is the pair revoked and revoked_ledger: None while it stands.   *)
Record == [call : Request, token : Tokens, by : Accounts,
           issued : 1..MaxLedger, revoked : (1..MaxLedger) \cup {None},
           reason : Reasons \cup {None}]

\* what CredentialLedger keeps of a credential
LedgerEntry == [id : Ids, token : Tokens, state : {"valid", "revoked"}]

ASSUME RegistryAssumption ==
  /\ Roles = {"issuer", "revoker"}
  /\ MaxToken \in Nat \ {0}
  /\ MaxLinks \in Nat
  /\ None \notin Ids \cup Record \cup Reasons \cup (1..MaxLedger) \cup LedgerEntry

VARIABLES
  byId,       \* CredentialKey::ById
  byToken,    \* CredentialKey::ByToken
  byKey,      \* CredentialKey::ByBusinessKey
  links,      \* CredentialKey::IssuerOperator
  schemas,    \* CredentialKey::AllowedSchema
  nextToken,  \* InstanceKey::NextTokenId
  events,     \* what the contract published, in order
  receipts    \* every successful answer of issue_credential so far

recordVars == <<byId, byToken, byKey, nextToken>>
vars == <<accessVars, ledger, recordVars, links, schemas, events, receipts>>

Event ==
  [kind : {"issued"}, id : Ids, token : Tokens, call : Request,
   by : Accounts, at : 1..MaxLedger]
  \cup
  [kind : {"revoked"}, id : Ids, token : Tokens, by : Accounts,
   reason : Reasons \cup {None}, at : 1..MaxLedger]
  \cup
  [kind : {"linked", "unlinked"}, issuer : Issuers, operator : Accounts]

Receipt == [to : Accounts, call : Request, token : Tokens]

TypeOK ==
  /\ AccessTypeOK
  /\ byId \in [Ids -> Record \cup {None}]
  /\ byToken \in [Tokens -> Ids \cup {None}]
  /\ byKey \in [Facts -> Ids \cup {None}]
  /\ links \subseteq Issuers \X Accounts
  /\ schemas \subseteq Schemas
  /\ nextToken \in Tokens
  /\ events \in Seq(Event)
  /\ receipts \subseteq Receipt

(* __constructor *)
Init ==
  /\ AccessInit
  /\ byId = [i \in Ids |-> None]
  /\ byToken = [t \in Tokens |-> None]
  /\ byKey = [f \in Facts |-> None]
  /\ links = {}
  /\ \E s \in Schemas : schemas = {s}
  /\ nextToken = 1
  /\ events = <<>>
  /\ receipts = {}

------------------------------------------------------------------------------
(* issue_credential, revoke_credential and the views.                      *)

HasRole(o, r) == o \in roles[r]
LinkedSomewhere(issuer, o) == \E i \in Issuers : <<i, o>> \in links
Linked(issuer, o) == <<issuer, o>> \in links
KnownType(t) == t \in 1..6

BusinessKey(c) == [issuer |-> c.issuer, subject |-> c.subject, type |-> c.type]

MayIssue(o, c) ==
  /\ HasRole(o, "issuer")
  /\ Linked(c.issuer, o)
  /\ c.schema \in schemas
  /\ KnownType(c.type)

AnyId(c) == TRUE
FreshId(c) == byId[c.id] = None

TokensToTheLast == nextToken <= MaxToken
TokensLeft == nextToken < MaxToken

Advanced == nextToken + 1

NewRecord(o, c) ==
  [call |-> c, token |-> nextToken, by |-> o, issued |-> ledger,
   revoked |-> None, reason |-> None]

Issue(o, c) ==
  /\ MayIssue(o, c)
  /\ byKey[BusinessKey(c)] = None
  /\ FreshId(c)
  /\ TokensLeft
  /\ byId' = [byId EXCEPT ![c.id] = NewRecord(o, c)]
  /\ byToken' = [byToken EXCEPT ![nextToken] = c.id]
  /\ byKey' = [byKey EXCEPT ![BusinessKey(c)] = c.id]
  /\ nextToken' = Advanced
  /\ events' = Append(events, [kind |-> "issued", id |-> c.id, token |-> nextToken,
                               call |-> c, by |-> o, at |-> ledger])
  /\ receipts' = receipts \cup {[to |-> o, call |-> c, token |-> nextToken]}
  /\ UNCHANGED <<accessVars, ledger, links, schemas>>

(* The same request again: the token of the first answer, nothing written. *)
SameContent(r, c) == r.call.hash = c.hash /\ r.call.schema = c.schema
SameRequest(r, c) ==
  r.call.id = c.id /\ r.call.hash = c.hash /\ r.call.schema = c.schema

IssueAgain(o, c) ==
  /\ MayIssue(o, c)
  /\ byKey[BusinessKey(c)] # None
  /\ LET existing == byId[byKey[BusinessKey(c)]] IN
       /\ existing # None
       /\ SameRequest(existing, c)
       /\ receipts' = receipts \cup {[to |-> o, call |-> c, token |-> existing.token]}
  /\ UNCHANGED <<accessVars, ledger, recordVars, links, schemas, events>>

RevokedWhenIssued(o, id, reason) ==
  [kind |-> "revoked", id |-> id, token |-> byId[id].token, by |-> o,
   reason |-> reason, at |-> byId[id].issued]
RevokedEvent(o, id, reason) ==
  [kind |-> "revoked", id |-> id, token |-> byId[id].token, by |-> o,
   reason |-> reason, at |-> ledger]

(* A revoked record answers Ok to its own reason and AlreadyRevoked to any *)
(* other; neither writes.                                                  *)
Revoke(o, id, reason) ==
  /\ byId[id] # None
  /\ HasRole(o, "revoker")
  /\ Linked(byId[id].call.issuer, o)
  /\ byId[id].revoked = None
  /\ byId' = [byId EXCEPT ![id].revoked = ledger, ![id].reason = reason]
  /\ events' = Append(events, RevokedEvent(o, id, reason))
  /\ UNCHANGED <<accessVars, ledger, byToken, byKey, nextToken, links, schemas, receipts>>

Get(id) == byId[id]

GetByToken(t) == IF byToken[t] = None THEN None ELSE byId[byToken[t]]

Verify(id, hash, schema) ==
  /\ byId[id] # None
  /\ byId[id].revoked = None
  /\ byId[id].call.hash = hash
  /\ byId[id].call.schema = schema

------------------------------------------------------------------------------
(* Administration.                                                         *)

LinkEvent(issuer, o) == [kind |-> "linked", issuer |-> issuer, operator |-> o]
UnlinkEvent(issuer, o) == [kind |-> "unlinked", issuer |-> issuer, operator |-> o]

LinksMade == Cardinality({n \in DOMAIN events : events[n].kind = "linked"})

Link(issuer, o) ==
  /\ EnforceAdmin
  /\ LinksMade < MaxLinks
  /\ ~Linked(issuer, o)
  /\ links' = links \cup {<<issuer, o>>}
  /\ events' = Append(events, LinkEvent(issuer, o))
  /\ UNCHANGED <<accessVars, ledger, recordVars, schemas, receipts>>

Unlink(issuer, o) ==
  /\ EnforceAdmin
  /\ Linked(issuer, o)
  /\ links' = links \ {<<issuer, o>>}
  /\ events' = Append(events, UnlinkEvent(issuer, o))
  /\ UNCHANGED <<accessVars, ledger, recordVars, schemas, receipts>>

AllowHashSchema(s) ==
  /\ EnforceAdmin
  /\ schemas' = schemas \cup {s}
  /\ UNCHANGED <<accessVars, ledger, recordVars, links, events, receipts>>

Administer ==
  /\ AdminStep
  /\ UNCHANGED <<ledger, recordVars, links, schemas, events, receipts>>

NextLedger ==
  /\ CloseLedger
  /\ UNCHANGED <<accessVars, recordVars, links, schemas, events, receipts>>

Next ==
  \/ \E o \in Accounts, c \in Request : Issue(o, c) \/ IssueAgain(o, c)
  \/ \E o \in Accounts, id \in Ids, reason \in Reasons \cup {None} :
       Revoke(o, id, reason)
  \/ \E issuer \in Issuers, o \in Accounts : Link(issuer, o) \/ Unlink(issuer, o)
  \/ \E s \in Schemas : AllowHashSchema(s)
  \/ Administer
  \/ NextLedger

Spec == Init /\ [][Next]_vars

------------------------------------------------------------------------------
(* Properties.                                                             *)

(* The three entries of a credential agree: each leads to a record that    *)
(* names it back.  The NotFound branch of issue_credential behind a        *)
(* business key, and a token without its record in                         *)
(* get_credential_by_token_id, are thereby unreachable.                    *)
IndexesAgree ==
  /\ \A i \in Ids : byId[i] # None =>
       /\ byId[i].call.id = i
       /\ byToken[byId[i].token] = i
       /\ byKey[BusinessKey(byId[i].call)] = i
  /\ \A t \in Tokens : byToken[t] # None => GetByToken(t) # None /\ GetByToken(t).token = t
  /\ \A f \in Facts : byKey[f] # None =>
       byId[byKey[f]] # None /\ BusinessKey(byId[byKey[f]].call) = f

(* Tokens are handed out one after the other and none is left out, reused  *)
(* or wrapped around: exactly those below the counter have a credential.   *)
TokensAreDense == \A t \in Tokens : byToken[t] # None <=> t < nextToken

(* Whenever two successful answers of issue_credential, however far apart  *)
(* and to whichever operators, share the fact, the id or the token, they   *)
(* answered one and the same request: a retry after a lost answer learns   *)
(* the token of the first call, after a revocation too.                    *)
AnswersAgree ==
  /\ \A a, b \in receipts :
       \/ BusinessKey(a.call) = BusinessKey(b.call)
       \/ a.call.id = b.call.id
       \/ a.token = b.token
       => a.call = b.call /\ a.token = b.token
  /\ \A a \in receipts : GetByToken(a.token) # None /\ GetByToken(a.token).call = a.call

(* The event log alone shows that every credential was issued, and every   *)
(* revocation made, by an operator the institution was linked to at that   *)
(* moment; a revocation counts against the institution that issued, which  *)
(* the event does not name.                                                *)
LinkedInLog(log, issuer, o, n) ==
  \E j \in 1..n :
    /\ log[j] = LinkEvent(issuer, o)
    /\ \A k \in (j + 1)..n : log[k] # UnlinkEvent(issuer, o)

EventsAreAuthorised ==
  \A n \in DOMAIN events :
    events[n].kind \in {"issued", "revoked"} =>
      /\ byId[events[n].id] # None
      /\ LinkedInLog(events, byId[events[n].id].call.issuer, events[n].by, n)

(* Nothing but the published events is needed to know every record: whoever *)
(* follows them keeps the last issuance of an id and the last revocation    *)
(* after it, and holds what the contract holds although the revocation      *)
(* event carries only part of the record.                                   *)
Issuances(id) ==
  {n \in DOMAIN events : events[n].kind = "issued" /\ events[n].id = id}

Revocations(id, from) ==
  {n \in DOMAIN events : n > from /\ events[n].kind = "revoked" /\ events[n].id = id}

Last(S) == CHOOSE n \in S : \A m \in S : m <= n

Rebuilt(id) ==
  IF Issuances(id) = {} THEN None
  ELSE LET n == Last(Issuances(id))
           revocations == Revocations(id, n)
           standing == revocations = {}
       IN [call |-> events[n].call, token |-> events[n].token,
           by |-> events[n].by, issued |-> events[n].at,
           revoked |-> IF standing THEN None ELSE events[Last(revocations)].at,
           reason |-> IF standing THEN None ELSE events[Last(revocations)].reason]

EventsRebuildRecords == \A id \in Ids : byId[id] = Rebuilt(id)

(* A verifier is never told yes after it was told no about a credential    *)
(* that exists: records keep their hash and schema and revocation is final. *)
VerdictsAreFinal ==
  [][\A id \in Ids, h \in Hashes, s \in Schemas :
       Get(id) # None /\ Verify(id, h, s)' => Verify(id, h, s)]_vars

(* The registry implements the ledger of attested facts.                   *)
Entry == [f \in Facts |->
            IF byKey[f] = None THEN None
            ELSE [id |-> byKey[f], token |-> byId[byKey[f]].token,
                  state |-> IF byId[byKey[f]].revoked = None THEN "valid" ELSE "revoked"]]

Ledger == INSTANCE CredentialLedger WITH entry <- Entry
ImplementsLedger == Ledger!LedgerSpec
=============================================================================
