------------------------------ MODULE Issuance ------------------------------
(***************************************************************************)
(* How a credential comes about and ends: the organizer's check-in, issue  *)
(* and revoke, the dashboard's create, prepare and update, and the route   *)
(* that relays a signed operation and copies its result into credentials.  *)
(* Requests interleave at every query; only saveParticipation runs in a    *)
(* transaction, at READ COMMITTED, so its queries interleave as well.      *)
(*                                                                         *)
(* The outbox below is taken at what it promises of calls that overlap,    *)
(* OverlapSpec of OperationLifecycle: races inside it are the business of  *)
(* StellarOutbox.  A check that only rejects (scope, link, wallet, origin) *)
(* is a request that aborts.                                               *)
(***************************************************************************)
EXTENDS Integers, Sequences, FiniteSets

CONSTANTS
  Creds,     \* credential ids a row may get
  Facts,     \* business keys: issuer, subject, event and type
  Pairs,     \* subject and event: one participation each
  Pair,      \* [Facts -> Pairs]
  Contents,  \* what the metadata hash is computed from
  Reasons,   \* reason hashes, None for a revocation without one
  Requests,  \* HTTP requests in progress
  None,      \* null
  MaxLog     \* bound: transitions logged for a participation

States   == {"registered", "checked_in", "participation_confirmed", "credential_issued"}
Statuses == {"issued", "revoked"}
Kinds    == {"issue", "revoke"}

\* One operation per idempotency key: issue:<id> and revoke:<id>:<reason>.
Ops == [kind : {"issue"}, cred : Creds, reason : {None}]
         \cup [kind : {"revoke"}, cred : Creds, reason : Reasons]

IssueOp(c) == [kind |-> "issue", cred |-> c, reason |-> None]
RevokeOp(c, reason) == [kind |-> "revoke", cred |-> c, reason |-> reason]

VARIABLES
  part,     \* participations and participation_transitions
  row,      \* credentials
  offer,    \* where an operation is before it has a verdict
  intent,   \* the content the issue of a credential was prepared with
  verdict,  \* what the outbox says about an operation
  effect,   \* what the ledger did with it
  req       \* each request: where it is and what it holds

tables == <<part, row>>
outbox == <<offer, intent, verdict, effect>>
vars   == <<tables, outbox, req>>

\* The log keeps the to_state of each transition; from_state precedes it.
Participation == [state : States, log : Seq(States)]

\* ledgers: which of issued_ledger and revoked_ledger are set.
Record == [fact : Facts, content : Contents, status : Statuses,
           ledgers : SUBSET Statuses, reason : Reasons \cup {None}]

ASSUME IssuanceAssumption ==
  /\ Pair \in [Facts -> Pairs]
  /\ None \notin Creds \cup Facts \cup Pairs \cup Contents \cup States \cup Statuses
                  \cup {"confirmed"}
  /\ None \notin Participation /\ None \notin Record
  /\ MaxLog \in Nat

Steps == {"idle", "register", "readState", "readLog", "saveState", "saveLog",
          "update", "assert", "find", "insert", "saveRow", "prepare", "project",
          "setRevoked"}
Flows == {"none", "checkIn", "issue", "revoke", "offer", "submit"}

Request == [at : Steps, flow : Flows, pair : Pairs \cup {None}, todo : Seq(States),
            state : States \cup {None}, log : Seq(States), seen : States \cup {None},
            known : Nat, fact : Facts \cup {None}, content : Contents \cup {None},
            op : Ops \cup {None}, copy : Record \cup {None}]

Idle == [at |-> "idle", flow |-> "none", pair |-> None, todo |-> <<>>,
         state |-> None, log |-> <<>>, seen |-> None, known |-> 0,
         fact |-> None, content |-> None, op |-> None, copy |-> None]

TypeOK ==
  /\ part \in [Pairs -> Participation \cup {None}]
  /\ row \in [Creds -> Record \cup {None}]
  /\ offer \in [Ops -> {"absent", "open", "signed", "refused"}]
  /\ intent \in [Creds -> Contents \cup {None}]
  /\ verdict \in [Ops -> {"open", "confirmed", "failed_terminal"}]
  /\ effect \in [Ops -> {"none", "success", "failed"}]
  /\ req \in [Requests -> Request]

Outbox == INSTANCE OperationLifecycle

Init ==
  /\ part = [p \in Pairs |-> None]
  /\ row = [c \in Creds |-> None]
  /\ offer = [o \in Ops |-> "absent"]
  /\ intent = [c \in Creds |-> None]
  /\ Outbox!Init
  /\ req = [r \in Requests |-> Idle]

Return(r) == req' = [req EXCEPT ![r] = Idle]

\* The request goes on at step s, still knowing what it holds.
GoTo(r, s) == req' = [req EXCEPT ![r].at = s]

------------------------------------------------------------------------------
(* Participations: checkIn, and the last step of an issue.                 *)

Successor ==
  [ registered |-> "checked_in", checked_in |-> "participation_confirmed",
    participation_confirmed |-> "credential_issued" ]

\* What is left to do for a participation that was read in state s.
CheckInPlan(s) ==
  IF s = "checked_in" THEN <<"participation_confirmed">>
                      ELSE <<"checked_in", "participation_confirmed">>

CheckIn(r, p) ==
  /\ req[r] = Idle
  /\ part[p] # None => /\ part[p].state \in {"registered", "checked_in"}
                       /\ Len(part[p].log) < MaxLog      \* bound
  /\ req' = [req EXCEPT ![r] = [Idle EXCEPT
       !.at = IF part[p] = None THEN "register" ELSE "readState",
       !.flow = "checkIn", !.pair = p,
       !.todo = CheckInPlan(IF part[p] = None THEN "registered" ELSE part[p].state)]]
  /\ UNCHANGED <<tables, outbox>>

\* registerParticipation returns the row another request inserted meanwhile.
Register(r) ==
  /\ req[r].at = "register"
  /\ part' = IF part[req[r].pair] = None
               THEN [part EXCEPT ![req[r].pair] = [state |-> "registered", log |-> <<>>]]
               ELSE part
  /\ GoTo(r, "readState")
  /\ UNCHANGED <<row, outbox>>

\* advanceParticipation: getParticipation is two queries, the state and then
\* the transitions, and other requests may move both in between.
ReadState(r) ==
  /\ req[r].at = "readState"
  /\ req' = [req EXCEPT ![r].at = "readLog", ![r].state = part[req[r].pair].state]
  /\ UNCHANGED <<tables, outbox>>

Allowed(from, to) == from \in DOMAIN Successor /\ Successor[from] = to

ReadLog(r) ==
  /\ req[r].at = "readLog"
  /\ LET to == Head(req[r].todo) IN
     IF Allowed(req[r].state, to)
       THEN req' = [req EXCEPT ![r].at = "saveState", ![r].state = to,
                      ![r].log = Append(part[req[r].pair].log, to)]
       ELSE Return(r)
  /\ UNCHANGED <<tables, outbox>>

\* saveParticipation reads the row again, as two queries; its update is
\* guarded by the state of that reading, not by the one req was built on.
SaveState(r) ==
  /\ req[r].at = "saveState"
  /\ req' = [req EXCEPT ![r].at = "saveLog", ![r].seen = part[req[r].pair].state]
  /\ UNCHANGED <<tables, outbox>>

SaveLog(r) ==
  /\ req[r].at = "saveLog"
  /\ LET known == Len(part[req[r].pair].log) IN
     IF Len(req[r].log) < known
       THEN Return(r)
       ELSE req' = [req EXCEPT ![r].at = "update", ![r].known = known]
  /\ UNCHANGED <<tables, outbox>>

\* The new transitions are those past the known ones; their numbers must
\* still be free.
NewTransitions(r) == SubSeq(req[r].log, req[r].known + 1, Len(req[r].log))

Update(r) ==
  LET p == req[r].pair IN
  /\ req[r].at = "update"
  /\ Len(part[p].log) + Len(NewTransitions(r)) <= MaxLog      \* bound
  /\ IF /\ part[p].state = req[r].seen
        /\ NewTransitions(r) = <<>> \/ Len(part[p].log) = req[r].known
       THEN /\ part' = [part EXCEPT ![p] =
                 [state |-> req[r].state, log |-> @.log \o NewTransitions(r)]]
            /\ IF Len(req[r].todo) = 1 THEN Return(r)
               ELSE req' = [req EXCEPT ![r] = [Idle EXCEPT
                      !.at = "readState", !.flow = req[r].flow, !.pair = p,
                      !.todo = Tail(req[r].todo)]]
       ELSE /\ Return(r)
            /\ UNCHANGED part
  /\ UNCHANGED <<row, outbox>>

------------------------------------------------------------------------------
(* Creating a credential.                                                  *)

Confirmed(f) ==
  part[Pair[f]] # None /\ part[Pair[f]].state = "participation_confirmed"

RowsOf(f) == {c \in Creds : row[c] # None /\ row[c].fact = f}

NewRecord(f, x) == [fact |-> f, content |-> x, status |-> "issued",
                    ledgers |-> {}, reason |-> None]

\* UNIQUE (issuer, subject, event, type), and a fresh id.
InsertRow(f, x, c) ==
  /\ RowsOf(f) = {} /\ row[c] = None
  /\ row' = [row EXCEPT ![c] = NewRecord(f, x)]

\* issueCredential of the organizer, up to the use case.
Issue(r, f, x) ==
  /\ req[r] = Idle
  /\ Confirmed(f)
  /\ Len(part[Pair[f]].log) < MaxLog      \* bound
  /\ req' = [req EXCEPT ![r] = [Idle EXCEPT
       !.at = "assert", !.flow = "issue", !.pair = Pair[f], !.fact = f, !.content = x]]
  /\ UNCHANGED <<tables, outbox>>

AdvanceFirst(r) ==                                                  \* mutant
  /\ req[r].at = "assert"
  /\ req' = [req EXCEPT ![r].at = "readState", ![r].todo = <<"credential_issued">>]
  /\ UNCHANGED <<tables, outbox>>
AssertConfirmed(r) ==
  /\ req[r].at = "assert"
  /\ IF Confirmed(req[r].fact) THEN GoTo(r, "find") ELSE Return(r)
  /\ UNCHANGED <<tables, outbox>>

\* buildCredential: an existing row is returned for the same payload only.
AnyPayload(rec, x) == TRUE                                          \* mutant
SamePayload(rec, x) == rec.content = x

FindByBusinessKey(r) ==
  /\ req[r].at = "find"
  /\ LET found == RowsOf(req[r].fact) IN
     \/ found = {} /\ GoTo(r, "insert")
     \/ \E c \in found :
          IF SamePayload(row[c], req[r].content)
            THEN req' = [req EXCEPT ![r].at = "prepare", ![r].op = IssueOp(c)]
            ELSE Return(r)
  /\ UNCHANGED <<tables, outbox>>

\* saveCredential of a new record; an insert that violates a constraint
\* aborts.
Insert(r) ==
  /\ req[r].at = "insert"
  /\ \E c \in Creds :
       /\ InsertRow(req[r].fact, req[r].content, c)
       /\ req' = [req EXCEPT ![r].at = "prepare", ![r].op = IssueOp(c)]
  /\ UNCHANGED <<part, outbox>>

\* createCredential of the dashboard: one insert, whatever the participation.
DashboardCreate(f, x) ==
  /\ \E c \in Creds : InsertRow(f, x, c)
  /\ UNCHANGED <<part, outbox, req>>

------------------------------------------------------------------------------
(* Preparing operations.                                                   *)

\* The contract state under which o can be executed.
Executable(o) ==
  o.kind = "revoke" =>
    /\ effect[IssueOp(o.cred)] = "success"
    /\ \A u \in Ops : u.kind = "revoke" /\ u.cred = o.cred => effect[u] # "success"

\* prepareCredentialIssue and prepareCredentialRevoke of the dashboard.
DashboardOffer(r, o) ==
  /\ req[r] = Idle
  /\ row[o.cred] # None /\ row[o.cred].status = "issued"
  /\ req' = [req EXCEPT ![r] = [Idle EXCEPT
       !.at = "prepare", !.flow = "offer", !.op = o, !.content = row[o.cred].content]]
  /\ UNCHANGED <<tables, outbox>>

\* After the payload is offered for signature an organizer's issue moves the
\* participation on; every other request ends.
Offered(r) ==
  IF req[r].flow = "issue"
    THEN req' = [req EXCEPT ![r] = [Idle EXCEPT
           !.at = "readState", !.flow = "issue", !.pair = req[r].pair,
           !.todo = <<"credential_issued">>]]
    ELSE Return(r)

\* gateway.prepare and getPreparedPayload: a new key is simulated, and a
\* contract error is stored as its verdict; a known key is offered again if
\* it has the same content and nobody signed it yet.
Prepare(r) ==
  LET o == req[r].op IN
  /\ req[r].at = "prepare"
  /\ \/ /\ offer[o] = "absent" /\ Executable(o)
        /\ offer' = [offer EXCEPT ![o] = "open"]
        /\ intent' = IF o.kind = "issue"
                       THEN [intent EXCEPT ![o.cred] = req[r].content] ELSE intent
        /\ Offered(r)
        /\ UNCHANGED <<verdict, effect>>
     \/ /\ offer[o] = "absent"
        /\ offer' = [offer EXCEPT ![o] = "refused"]
        /\ Outbox!Save(o, "failed_terminal")
        /\ Return(r)
        /\ UNCHANGED intent
     \/ /\ offer[o] # "absent"
        /\ IF offer[o] = "open" /\ (o.kind = "issue" => intent[o.cred] = req[r].content)
             THEN Offered(r) ELSE Return(r)
        /\ UNCHANGED outbox
  /\ UNCHANGED tables

------------------------------------------------------------------------------
(* Relaying an operation and projecting its result.                        *)

\* A client posts the signed payload: from now on the network may act.
Sign(o) ==
  /\ offer[o] = "open"
  /\ offer' = [offer EXCEPT ![o] = "signed"]
  /\ UNCHANGED <<tables, intent, verdict, effect, req>>

LedgerActs(o) ==
  /\ offer[o] = "signed"
  /\ Outbox!TakeEffect(o)
  /\ effect'[o] = "success" => Executable(o)
  /\ UNCHANGED <<tables, offer, intent, req>>

\* Some call or worker saves its copy of the operation and tells nobody here;
\* a verdict may be replaced by a later one, or withdrawn.
OutboxSaves(o) ==
  /\ offer[o] = "signed"
  /\ \E v \in Outbox!Verdicts \ {verdict[o]} : Outbox!Save(o, v)
  /\ UNCHANGED <<tables, offer, intent, req>>

Projecting(r, o) ==
  req' = [req EXCEPT ![r] = [Idle EXCEPT !.at = "project", !.flow = "submit", !.op = o]]

ProjectSubmitted(r, o) ==                                           \* mutant
  /\ req[r] = Idle
  /\ offer[o] = "signed"
  /\ Projecting(r, o)
  /\ UNCHANGED <<tables, outbox>>
Submit(r, o) ==
  /\ req[r] = Idle
  /\ offer[o] = "signed"
  /\ Outbox!Save(o, "confirmed")
  /\ Projecting(r, o)
  /\ UNCHANGED <<tables, offer, intent>>

ProjectedAsNew(rec, o) ==                                           \* mutant
  [rec EXCEPT !.ledgers = @ \cup {IF o.kind = "issue" THEN "issued" ELSE "revoked"},
              !.status = IF o.kind = "issue" THEN "issued" ELSE @]
\* The copy of the row the route will save: a revocation sets its ledger and
\* its reason and leaves the status as it is.
Projection(rec, o) ==
  [rec EXCEPT !.ledgers = @ \cup {IF o.kind = "issue" THEN "issued" ELSE "revoked"},
              !.reason = IF o.reason # None THEN o.reason ELSE @]

Project(r) ==
  LET o == req[r].op IN
  /\ req[r].at = "project"
  /\ req' = [req EXCEPT ![r].at = "saveRow", ![r].copy = Projection(row[o.cred], o)]
  /\ UNCHANGED <<tables, outbox>>

------------------------------------------------------------------------------
(* Revoking, and saving a copy of a row.                                   *)

RevokedAs(rec, status, reason) == [rec EXCEPT !.status = status, !.reason = reason]
Archived(rec, reason) == RevokedAs(rec, "archived", reason)         \* mutant
Revoked(rec, reason) == RevokedAs(rec, "revoked", reason)

\* revokeCredential of the organizer: the same reason again is a success
\* that saves nothing, another reason is an error.
Revoke(r, c, reason) ==
  /\ req[r] = Idle
  /\ row[c] # None
  /\ \/ /\ row[c].status = "issued"
        /\ req' = [req EXCEPT ![r] = [Idle EXCEPT
             !.at = "saveRow", !.flow = "revoke", !.op = RevokeOp(c, reason),
             !.copy = Revoked(row[c], reason)]]
     \/ /\ row[c].status = "revoked" /\ row[c].reason = reason
        /\ req' = [req EXCEPT ![r] = [Idle EXCEPT
             !.at = "prepare", !.flow = "revoke", !.op = RevokeOp(c, reason)]]
  /\ UNCHANGED <<tables, outbox>>

\* saveCredential writes every column of the copy over the row.
SaveRow(r) ==
  LET o == req[r].op IN
  /\ req[r].at = "saveRow"
  /\ row' = [row EXCEPT ![o.cred] = req[r].copy]
  /\ \/ /\ req[r].flow = "revoke"
        /\ req' = [req EXCEPT ![r].at = "prepare", ![r].copy = None]
     \/ /\ req[r].flow = "submit" /\ o.kind = "revoke"
        /\ req' = [req EXCEPT ![r].at = "setRevoked", ![r].copy = None]
     \/ /\ req[r].flow = "submit"
        /\ Return(r)
  /\ UNCHANGED <<part, outbox>>

\* updateCredential, called by the dashboard after a confirmed revocation.
SetRevoked(r) ==
  /\ req[r].at = "setRevoked"
  /\ row' = [row EXCEPT ![req[r].op.cred].status = "revoked"]
  /\ Return(r)
  /\ UNCHANGED <<part, outbox>>

\* A request ends at any await: an error, a rejected check, a crash.
Abort(r) ==
  /\ req[r] # Idle
  /\ Return(r)
  /\ UNCHANGED <<tables, outbox>>

------------------------------------------------------------------------------
ParticipationStep(r) ==
  \/ \E p \in Pairs : CheckIn(r, p)
  \/ Register(r) \/ ReadState(r) \/ ReadLog(r) \/ SaveState(r) \/ SaveLog(r) \/ Update(r)

CredentialStep(r) ==
  \/ \E f \in Facts, x \in Contents : Issue(r, f, x)
  \/ AssertConfirmed(r) \/ FindByBusinessKey(r) \/ Insert(r) \/ Prepare(r)
  \/ \E o \in Ops : DashboardOffer(r, o) \/ Submit(r, o)
  \/ Project(r)
  \/ \E c \in Creds, reason \in Reasons : Revoke(r, c, reason)
  \/ SaveRow(r) \/ SetRevoked(r)

OutboxStep ==
  \E o \in Ops : Sign(o) \/ LedgerActs(o) \/ OutboxSaves(o)

Next ==
  \/ \E r \in Requests : ParticipationStep(r) \/ CredentialStep(r) \/ Abort(r)
  \/ \E f \in Facts, x \in Contents : DashboardCreate(f, x)
  \/ OutboxStep

Spec == Init /\ [][Next]_vars

------------------------------------------------------------------------------
(* Properties.                                                             *)

\* "Derived on-chain values, null until confirmed by readback": whatever
\* copies of a row overwrite each other, and whatever becomes of a verdict, a
\* ledger number stands in it only for an operation the ledger executed, and
\* a revocation follows an issue.
LedgersComeFromChain ==
  \A c \in Creds : row[c] # None =>
    /\ row[c].ledgers # {} => effect[IssueOp(c)] = "success"
    /\ "revoked" \in row[c].ledgers =>
         \E reason \in Reasons : effect[RevokeOp(c, reason)] = "success"

\* What is on chain can be checked against the table: a credential the ledger
\* executed has a row, and the hash that was anchored is the hash of that
\* row, although retries, two organizers and the dashboard may race for one
\* business key with different contents.
ChainHoldsRowContent ==
  \A c \in Creds : effect[IssueOp(c)] = "success" =>
    row[c] # None /\ intent[c] = row[c].content

\* A participation only says credential_issued when an operation for one of
\* its credentials was prepared, although the row, the operation and the
\* participation are written by separate statements that may fail.
IssuedHasCredential ==
  \A p \in Pairs : part[p] # None /\ part[p].state = "credential_issued" =>
    \E c \in Creds :
      /\ row[c] # None /\ Pair[row[c].fact] = p
      /\ offer[IssueOp(c)] \in {"open", "signed"}

\* The row of c and every copy of it that a request is about to save.
Copies(c) ==
  {row[c]} \cup {req[r].copy : r \in {s \in Requests :
                                       req[s].at = "saveRow" /\ req[s].op.cred = c}}

RevokedForGood(c)     == row[c] # None /\ \A copy \in Copies(c) : copy.status = "revoked"
RecordedForGood(c, k) == row[c] # None /\ \A copy \in Copies(c) : k \in copy.ledgers

\* A save writes a whole copy, so an older one takes back a revocation or a
\* ledger number.  It must be a copy that was out when the row was revoked:
\* once the row and every copy of it say revoked they say so for ever,
\* through late projections of the issue, repeated revocations, the
\* dashboard's update and requests that end half way; so does a ledger
\* number once all have it.
RevocationsSettle ==
  [][\A c \in Creds :
       /\ RevokedForGood(c) => RevokedForGood(c)'
       /\ \A k \in Statuses : RecordedForGood(c, k) => RecordedForGood(c, k)']_vars

\* "Only an audited participation_confirmed state" authorizes issuance: where
\* the state says confirmed, the log has the transition that says who did it.
ConfirmationIsAudited ==
  \A p \in Pairs :
    part[p] # None /\ part[p].state \in {"participation_confirmed", "credential_issued"} =>
      \E n \in DOMAIN part[p].log : part[p].log[n] = "participation_confirmed"
=============================================================================
