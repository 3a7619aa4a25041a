----------------------------- MODULE PublicPages -----------------------------
(***************************************************************************)
(* How a visitor checks a credential: the page of a code and the page of   *)
(* an id, while Issuance goes on.  Both read the row first and ask the     *)
(* contract afterwards, so the readings are of different moments; the page *)
(* of a code reads the row twice, and its banner is of the first reading.  *)
(* And what the pages that ask no contract show: the card of a credential  *)
(* and the list of the dashboard and of the organizer's panel, which take  *)
(* the word of the operation row.                                          *)
(*                                                                         *)
(* Whether issuer and subject are active and public is the business of     *)
(* Directory; here it is a choice.  A code belongs to one credential.      *)
(***************************************************************************)
EXTENDS Issuance

CONSTANTS
  Visitors,  \* people who check a credential
  MaxBusy    \* bound: requests and page loads in progress at once

ASSUME PublicPagesAssumption ==
  MaxBusy \in Nat /\ None \notin [status : Statuses, content : Contents]

VARIABLE visit  \* each visitor: the page being loaded

pageVars == <<vars, visit>>

\* The columns of a row that a page reads.
Columns == [status : Statuses, content : Contents]
Read(c) == [status |-> row[c].status, content |-> row[c].content]

\* card: what the page of a code read first, to show it; None on the page of
\* an id.  copy: what the verification read, to ask the contract about it.
Visit == [at : {"away", "byCode", "byId", "ask"}, cred : Creds \cup {None},
          card : Columns \cup {None}, copy : Columns \cup {None}]

Away == [at |-> "away", cred |-> None, card |-> None, copy |-> None]

PagesInit == Init /\ visit = [v \in Visitors |-> Away]

\* What get_credential of the contract tells of c.
OnChain(c) ==
  {s \in Statuses : /\ effect[IssueOp(c)] = "success"
                    /\ s = "revoked" => \E reason \in Reasons :
                                          effect[RevokeOp(c, reason)] = "success"}

VerifyCredential(c, content) ==
  [exists  |-> "issued" \in OnChain(c),
   matches |-> "issued" \in OnChain(c) /\ intent[c] = content,
   revoked |-> "revoked" \in OnChain(c)]

\* A revocation on chain outweighs the row, and a revoked row a chain that
\* does not know of it yet.
TrustRow(status, chain) == IF status = None THEN "not_found" ELSE status  \* mutant
ToVerificationStatus(status, chain) ==
  CASE ~ chain.exists /\ status = None -> "not_found"
    [] chain.revoked -> "revoked"
    [] ~ chain.revoked /\ status # None -> status

Answer(c, copy) ==
  LET chain == IF copy = None THEN [exists |-> FALSE, matches |-> FALSE, revoked |-> FALSE]
               ELSE VerifyCredential(c, copy.content) IN
  [exists |-> chain.exists, matches |-> chain.matches, revoked |-> chain.revoked,
   status |-> ToVerificationStatus(IF copy = None THEN None ELSE copy.status, chain)]

\* What a page shows its visitor.  The banner of the page of a code (valid,
\* revoked) and the hash it prints are those of the card; only the two labels
\* of its box come from the contract, and without an answer there is no box.
\* The page of an id labels the status of the answer the state in contract.
CodePage(card, answer) ==
  [banner |-> card.status, hash |-> card.content,
   verified |-> answer.exists /\ answer.matches, revoked |-> answer.revoked]
IdPage(answer) ==
  [label |-> answer.status, registered |-> answer.exists, matches |-> answer.matches]

------------------------------------------------------------------------------
(* What is shown without asking the contract.                              *)

\* The issue operation of c, as the lateral join of a query finds it.
Phase(c) ==
  LET o == IssueOp(c) IN
  CASE offer[o] = "absent"  -> None
    [] offer[o] = "open"    -> "awaiting_signature"
    [] offer[o] = "refused" -> "failed_terminal"
    [] offer[o] = "signed" /\ verdict[o] = "open" -> "submitted"
    [] offer[o] = "signed" /\ verdict[o] # "open" -> verdict[o]

DeriveEarly(phase) ==                                               \* mutant
  IF phase = None THEN "not_registered" ELSE "registered"
DeriveStellarStatus(phase) ==
  CASE phase = None -> "not_registered"
    [] phase = "confirmed" -> "registered"
    [] phase \in {"failed_retryable", "failed_terminal"} -> "failed"
    [] phase \notin {None, "confirmed", "failed_retryable", "failed_terminal"} -> "pending"

\* A credential with the names of its issuer, subject and event; those come
\* from joins and are left out.  The two mappers are one text twice.
Mapped(c) ==
  [id |-> c, status |-> row[c].status, metadata_hash |-> row[c].content,
   stellar_status |-> DeriveStellarStatus(Phase(c))]
MapRowToCredential(c) == Mapped(c)
MapRowToPopulatedCredential(c) == Mapped(c)

\* Every row, whoever issued it: the list of the dashboard, and the choice
\* of the organizer who revokes.
ListCredentials == {MapRowToCredential(c) : c \in {d \in Creds : row[d] # None}}

\* The card of a credential on the page of its code.
PublicCredentials ==
  {MapRowToPopulatedCredential(c) : c \in {d \in Creds : row[d] # None}}

------------------------------------------------------------------------------
Come(v, c, at, card) ==
  /\ visit[v] = Away
  /\ visit' = [visit EXCEPT ![v] = [Away EXCEPT !.at = at, !.cred = c, !.card = card]]
  /\ UNCHANGED vars

\* The page of a code looks the credential up by itself before it verifies,
\* and shows what it found.
GetPublicCredentialByCode(v, c) == row[c] # None /\ Come(v, c, "byCode", Read(c))
VerifyCredentialOnChainByCode(v) ==
  /\ visit[v].at = "byCode"
  /\ visit' = [visit EXCEPT ![v].at = "byId"]
  /\ UNCHANGED vars
CredentialValidationPage(v) ==
  (\E c \in Creds : GetPublicCredentialByCode(v, c)) \/ VerifyCredentialOnChainByCode(v)

VerifyPage(v) == \E c \in Creds : Come(v, c, "byId", None)

\* verifyCredentialById: the row, then the contract; without a row the
\* contract is not asked.  The visitor has the answer and may come again.
ReadRow(v) ==
  LET c == visit[v].cred IN
  /\ visit[v].at = "byId"
  /\ visit' = [visit EXCEPT ![v] =
       IF row[c] = None THEN Away
       ELSE [@ EXCEPT !.at = "ask", !.copy = Read(c)]]
  /\ UNCHANGED vars

AskContract(v) ==
  /\ visit[v].at = "ask"
  /\ visit' = [visit EXCEPT ![v] = Away]
  /\ UNCHANGED vars

VerifyCredentialById(v) == ReadRow(v) \/ AskContract(v)

VisitorStep(v) == CredentialValidationPage(v) \/ VerifyPage(v) \/ VerifyCredentialById(v)

Busy == Cardinality({r \in Requests : req[r] # Idle})
          + Cardinality({v \in Visitors : visit[v] # Away})

PagesNext ==
  /\ \/ Next /\ UNCHANGED visit
     \/ \E v \in Visitors : VisitorStep(v)
  /\ Busy' <= MaxBusy      \* bound

PagesSpec == PagesInit /\ [][PagesNext]_pageVars

------------------------------------------------------------------------------
(* Properties.                                                             *)

Answered(v) == visit[v].at \in {"byId", "ask"} /\ visit'[v].at = "away"

\* What the page of v shows of its credential, against the contract.
Honest(v) ==
  LET c      == visit[v].cred
      card   == visit[v].card
      answer == Answer(c, visit[v].copy)
      code   == CodePage(card, answer)
      id     == IdPage(answer) IN
  /\ card # None => /\ code.verified <=> "issued" \in OnChain(c)
                    /\ code.verified => intent[c] = code.hash
                    /\ code.revoked <=> "revoked" \in OnChain(c)
  /\ card = None => /\ id.registered <=> "issued" \in OnChain(c)
                    /\ id.registered => id.matches /\ id.label # "not_found"
                    /\ "revoked" \in OnChain(c) => id.label = "revoked"

\* What a page says the contract says is true of the moment the visitor gets
\* it, although the row was read once or twice before, may lag behind the
\* contract and is overwritten by older copies.  The box of the page of a
\* code says verified exactly when the contract holds the credential with
\* the hash printed on the card, and revoked exactly when it is revoked there,
\* whatever the banner above it says; the banner is the row's word alone and
\* is not part of this.  The page of an id finds what the contract holds,
\* with its hash, and calls revoked what is revoked there.
VerificationIsHonest ==
  [][\A v \in Visitors : Answered(v) => Honest(v)]_pageVars

\* What a list or a card calls registered without asking is held by the
\* contract with the hash that is shown beside it, although the verdict they
\* take the word of may be overwritten by any later save of the operation.
ListsAreHonest ==
  \A shown \in ListCredentials \cup PublicCredentials :
    shown.stellar_status = "registered" =>
      VerifyCredential(shown.id, shown.metadata_hash).matches
==============================================================================
