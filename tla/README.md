# CulturaGO: a verification project

CulturaGO keeps people, organisations, events and their credentials in
PostgreSQL and anchors the credentials on Stellar through two Soroban
contracts. What can go wrong in it is mostly not in one function: it is in
requests, workers, a wallet, an RPC node and a ledger that act in any order,
lose answers and crash. This directory holds TLA+ models of those parts, the
TLC runs that check them on small instances, and TLAPS proofs of what matters
most for instances of any size.

`PROJECT.json` lists the components, the runs, the code lines each definition
stands for, the hazards of the code and the theorems.

## Running it

    tlc -config OutboxRaces.cfg MCStellarOutbox.tla          # any run below
    tlapm StellarOutboxProofs.tla                            # the proofs

## The system: components, state, operations

Paths are relative to the repository.

| component | state | operations | what makes it correct |
|---|---|---|---|
| operation state machine (`src/domain/operations/operationState.ts`) | none | the transition table, terminal phases | the table is obeyed by everything that writes a phase |
| outbox and gateway calls (`SorobanStellarGateway.ts`, `PostgreSQLOperationStore.ts`) | rows of `stellar_operations`: phase, signed envelope, hash, attempts, retry time, lease | prepare, submitSigned (first relay, recovery), reconcile | nothing is confirmed that is not on chain; nothing reaches the network that is not stored; a verdict is final once the calls at work are through; nothing is sent twice with effect |
| outbox worker (`StellarWorker.ts`, `StellarWorkerManager.ts`) | the batch in hand | claimBatch, process, catch block, stop | a row is in one worker's hands; every signed operation settles |
| RPC transport and network (`SdkSorobanTransport.ts`; the ledger is external) | queued and included transactions, account sequence numbers | simulate, submit, poll, readback | at most one of the transactions competing for a sequence number is included |
| credential registry contract (`contracts/cultural-credential-registry`) | credential records, token and business-key indexes, roles, issuer links, schemas, admin | issue, revoke, link, unlink, grant, revoke role, allow schema, transfer and accept admin, reads | indexes agree with records; one credential per business key; revocation is final; only linked issuers and authorised revokers act |
| entity registry contract (`contracts/cultural-entity-registry`) | entity records and their versions, roles, schemas, admin | register, version, deactivate, roles, verify | versions are consecutive and immutable; an inactive entity does not verify |
| admin provisioning (`AdminStellarService.ts`, `api/admin/provision`) | its operations in the outbox, `issuer_operators` | grant, link, unlink | the table of issuers follows the chain |
| event indexer and passport (`PostgreSQLIndexer.ts`, `PassportService.ts`) | event inbox, cursors, projection | ingest, process, rebuild, read | not wired; its queries raise on the schema of the migrations |
| TTL queue (`PostgreSQLTtlQueue.ts`) | restore jobs | enqueue, claimDue, complete | not wired; its queries raise on the schema of the migrations |
| rate and budget limits (`perimeter.ts`, `PostgreSQLRateBudgetStore.ts`) | windows with counters | hit | no window admits more than its limit |
| identity (`PasskeyService.ts`, `ClaimService.ts`, `SessionService.ts`, stores) | challenges and codes, passkeys, sessions, accounts | begin/finish registration and login, claim, recover, revoke | a challenge buys one thing, for its own account and purpose; nothing exists for an account nobody claimed |
| issuance flow (`dashboard/credenciales/actions.ts`, `organizer/actions.ts`, `api/sign/submit`) | rows of `credentials` | create, issue, sign, project the ledger, revoke, verify | ledger numbers and anchored hashes in the table are true; a participation says issued only when an issue was prepared; a verification is true of the moment of the question or later |
| entities and participations (`dashboard/*/actions.ts`, `manage-participation.ts`, `domain/`) | entity rows with their kind rows, `entity_versions`, relationships, participations | create, edit, delete, relate, register, project the version, check in, confirm | the versions of an entity are the confirmed ones, numbered without gaps; what is deleted is gone from the pages |
| pages (`app/actions.ts`, `p/`, `o/`, `proveedor/`, `evento/`, `credencial/`, `verify/`) | what a visitor's page has read so far | load, verify | nothing is called registered that the registry does not hold |
| smart wallet deployment (`api/smart-wallet/deploy`, `lib/smartWallet`) | deploy transactions, the wallet of an account, wallets, claims | deploy, link, sign and submit | every linked address is a deployed contract with approved code |
| operation poller (`useOperationPoller.ts`) | attempt, next poll, the operation shown | poll, restart, stop | it backs off and stops |
| pilot scripts (`import-fdvc2026-pilot.mjs`, `update-fdvc2026-emails.mjs`) | one transaction each | import a file, write codes and e-mails | all of a file or nothing of it |
| canonical hashing, configuration, exports, migrations | - | - | pure functions, start-up checks, presentation, one-shot tools: not modelled |

How they interact: pages and API routes call the gateway; the gateway and the
workers share the rows of the outbox; the gateway reaches the contracts through
the RPC transport; the issuance flow writes the `credentials` and `participations`
tables before the gateway calls and after them; the relay route copies a confirmed
registration into `entities` and `entity_versions`; the pages read all of these and the
contract, each at a moment of its own. No lock is held across an await:
each call reads a row, works on its copy and writes it back whole. That is the
source of the hard behaviours, together with crashes between two awaits, answers
that are lost after the network acted, leases that expire in the middle of a
batch, retries, and sequence numbers read long before they are used.

## The modules

| module | what it is | proofs |
|---|---|---|
| `OperationPhases` | phases, the transition table, who may claim and reconcile what | - |
| `OperationLifecycle` | abstract: what the outbox promises about an operation | - |
| `StellarOutbox` | gateway calls, workers, rows, network | `StellarOutboxProofs` |
| `AccessControl` | the OpenZeppelin library under both contracts (external) | used by both below |
| `CredentialLedger` | abstract: facts are attested once and withdrawn once | - |
| `CredentialRegistry` | the credential contract | `CredentialRegistryProofs` |
| `EntityHistory` | abstract: append-only histories that can be closed | - |
| `EntityRegistry` | the entity contract | `EntityRegistryProofs` |
| `AdminProvision` | provisioning requests, the worker on their rows, the contract, `issuer_operators` | `AdminProvisionProofs` |
| `Identity` | challenges, codes, passkeys, sessions, accounts | `IdentityProofs` |
| `Issuance` | participations, credential rows and the requests that write them, over `OperationLifecycle` | `IssuanceProofs` |
| `PublicPages` | `Issuance` with a visitor who verifies a credential, and the lists of credentials | `IssuanceProofs` |
| `Directory` | entities, their kind rows, relationships and versions; the dashboard's actions, the projection of a registration, the public pages, over `OperationLifecycle` | `DirectoryProofs` |
| `SmartWallet` | wallet deployment, signing, polling and the windows they are counted in | `SmartWalletProofs` |
| `PilotImport` | the import and e-mail scripts, transactions and locks, and the dashboard beside them | `DirectoryProofs` |

`MCxxx` modules give the constants of `Xxx` their values for TLC and define its
symmetry. Definitions marked `mutant` are wrong versions of the definition below
them, kept to show that the property of a run notices the difference; nothing
else uses them.

Composition: `OperationPhases` is extended by the two modules that write phases;
both contracts extend `AccessControl`. `OperationLifecycle` has two specifications:
`Spec`, where a verdict is given once and stays, and `OverlapSpec`, where a save of an
older copy may replace a verdict or withdraw it. `StellarOutbox` implements both, under
two refinement mappings and with no condition on what overlaps. In `SavedLifecycle` the
verdict is what the row says at every moment, and that implements `OverlapSpec`; in
`Lifecycle` it is what the row says once no call holds a copy of it (`Settled`), and that
implements `Spec`. `Issuance` and `Directory` are built on the second, the weaker promise
(`Outbox == INSTANCE OperationLifecycle`, its `TakeEffect` and `Save` are their steps), so
what they show does not need calls that wait for each other; the races inside the outbox
and the races around it are explored in runs of their own. `PublicPages` extends `Issuance` and its next-state relation. The contracts
implement `CredentialLedger` and `EntityHistory`.

### StellarOutbox

`row` is `stellar_operations` without its text columns: phase, the stored
envelope (`intent.signed`), `tx_hash`, `attempt_count` and whether `next_retry_at`
has passed (`due`). `lease` is `claimed_by`/`claimed_until`; `envSeq` the sequence
number inside the prepared envelope. A caller (an HTTP request or a worker) has a
place in the code (`pc`), the operation it works on (`cur`) and its copy of the
row (`mem`): every `await` of `submitSigned`, `pollAndConfirm` and the catch block of
`runOneBatch` is a step between which anything else may run, and `Save` writes the
copy over the row, whatever the row has become, and clears the lease. `batch` is
what `claimBatch` returned to a worker.

The network is external: `tx` is what it did with each signed envelope, `accountSeq`
the last sequence number of the account, `made`/`revokedBy` the effect of the
contracts as far as a readback sees it. `Payloads` has one element for a classic
account (the hash ignores signatures) and more for a smart wallet, whose envelope
is assembled anew at each relay.

Abstractions: the phase of a row after a failed simulation is not restricted to
the moments where the contract would fail; backoff delays are "not yet" or "due",
and a stale save may postpone a retry again, which the code cannot do (the model
only delays more); a database error in the middle of a call has the effect of a
crash there, which `Crash` has; the comparisons of signatures and fingerprints only
reject calls.

### AccessControl, CredentialRegistry, EntityRegistry

One action per entry point of `lib.rs`, with its guards in the order the code has
them; an entry point that returns an error changes nothing and is no step. The
storage maps are functions (`byId`, `byToken`, `byKey`; `head`, `version`), the events
are a sequence, and `ledger` is the ledger number that admin handovers expire by.
`receipts` and `accepted` are history: the answers callers got. The
SHA-256 business key is taken as injective: it is the tuple it hashes, with subject
and event as one value. `MaxToken` and `MaxVersion` stand for the largest `u64` and
`u32`; at the last token the code refuses, and at the last version the
`overflow-checks` of the release profile abort the call, so neither wraps. Expiry
and restoring of storage entries and `set_role_admin` (never called) are left out.

### AdminProvision

`call` is a request of `POST /api/admin/provision` walking through its list of
operations (`execute`, `recover`, `finalize`, `verifyReadback` query by query); `job` is
the StellarWorker, which claims these rows too; `value` what the contracts hold;
`table` is `issuer_operators`. `SaveFails` is a database error at a save, which the code
turns into another save. Restoring archived entries is left out.

### Identity

`challenge`, `passkey`, `session` and `status` are the tables; `req` a request between
two statements. A challenge is spent by one `UPDATE ... RETURNING`; everything after it
runs on values read before. Any request may present any code, cookie or key. Whether
a signature verifies is left open, except for its counter. Suspension is external (no
code in `src` suspends an account). `SessionService.rotate` is no step: on PostgreSQL its
transaction always aborts (it passes a digest for a `UUID` column), and nothing
calls it.

### Issuance

`part` is a participation with the log of its transitions, `row` a credential. A
request walks through `checkIn`, `issueCredential`, `revokeCredential` of the organizer,
the dashboard's prepare and update actions, or the relay route's projection; each
query is a step, also the two queries of `getParticipation` and the three of
`saveParticipation`, whose transaction is `READ COMMITTED`. `offer` says whether an
operation exists, was signed or refused; `intent` is the content it was prepared with.
A check that only rejects (scope, link, wallet, origin, a constraint violation) is
`Abort`, which may happen at any await. `credential_code` and its uniqueness are left
out. `ledgers` is the set of ledger columns that are not null.

### PublicPages

`visit` is a page of a visitor, who comes back after every answer. `/credencial/[code]` looks
the credential up, keeps what it found (`card`) and then verifies it; `/verify/[id]`
verifies it at once; `verifyCredentialById` reads the row (`copy`) and asks the contract
afterwards. `CodePage` and `IdPage` are what the two pages show: on the page of a code the
banner ("Credencial Válida", "Credencial Revocada") and the hash are those of `card`, and
only the labels of the box below come from the contract; on the page of an id the label
"Estado en contrato" is the status of the answer, which is the row's unless the contract
says revoked. `VerificationIsHonest` is about what the pages say the contract says; the
banner is in the model and not in the property (see the known disagreements). `OnChain` is what `get_credential` answers, from the
effects of the outbox's operations, never from its verdicts. `ListCredentials` and `PublicCredentials` are what
the dashboard's list and a credential's card show without asking, from the row and the
verdict on its operation, which the outbox may still take back (`ListsAreHonest`). Joins with issuer, subject and event are left out.

### Directory

`entity` is `entities`, `detail` the row of the kind (its public columns as one value
`profile`, its contact columns as another), `rel` `relationships`, `version`
`entity_versions`. An administrator's browser runs one server action at a time (`call`),
begun from a page that may be old: every statement is a step, the first one with the
submission of the form, `fetchEntityWithKind` is
two readings and the kind row a third, the organization page reads both with one join,
`getEntityRecord` is two queries, and only `saveEntityRecord` is one transaction. A hash
is the payload it is computed from. `offer`, `intent`, `verdict` and `effect` are the
registration of an entity in the outbox. `RelationshipColumns` lists the columns of the
table as the migration has them, because `createRelationship` and the two listings name
one it lacks (`updated_at`) and raise; the pages' loads end there. The operators below
"What the pages show" are the views of the public pages and the lists.
`is_public`, which every writer leaves true, `deleteRelationship`, which always raises,
and the profile of an event's organizer are left out.

### SmartWallet

`tab` is a page with its request: the wallet it was rendered with, the wallet its
request's session had (`actor`), the clock before the count (`now`), the row
`upsertWallet` saw, and the poller's attempt and next time. `window` is
`rate_budget_windows`; `passed` is history, what was let through since a window began.
`code` is the ledger. `hitLimit` is one upsert and one step; every other await of the
three routes is one too. `Restart` is what a non-terminal answer does in the code: the
new operation object ends the effect and starts it again. The mutation gate, the origin
and the format of a body only reject and are left out, and an operation settles some
time after it was submitted (its fate is the subject of `StellarOutbox`).

### PilotImport

A name stands for its slug. `Plan` is the set of statements that `normalizePilotData`
and the import make of a file, and each says where in the script it stands: the loop, the
presentation, the entry in it. `Before` orders them, `IsNext` is the one a run is at, and
`Once` is the rule of the catalogs and of the set of relationships: of the entries with
one key the first is kept. The ids a run learnt are kept as the script keeps them, by
catalog and slug (`KindIn`, `ids`), because a school and a group may have one name and
different rows. `run` is a process with its open transaction, whose rows carry `by` until
it commits. PostgreSQL is external: a transaction reads what is committed and its own
rows, an `INSERT` of a key that another open transaction wrote waits, `ALTER TABLE` locks
the table, a constraint that fails rolls the transaction back. The dashboard creates and
renames entities meanwhile. Initial values, next-state relation and type invariant carry
the module's name (`PilotInit`, `PilotNext`, `PilotTypeOK`), since `DirectoryProofs`
extends this module and `Directory`.

## The runs

| run | instance | checks |
|---|---|---|
| `outbox_revocation` | issue and revoke of one credential, client and worker at once, fee payer, one number spent by others, 1 attempt, no crash; 1,153,253 states | `TypeOK`, `OverlapSpec` |
| `outbox_races` | one registration, 2 clients, a worker, 2 envelopes, 2 callers active, one crash, 1 attempt, fairness of the worker; 823,610 states | `ConfirmedIsOnChain`, `NetworkImpliesStored`, `SequenceUsedOnce`, `SignedSettles`, `NeverResubmitsBlind`, `LifecycleSpec` |
| `credential_records` | 3 ids, 2 issuers, 1 operator, 2 subjects, a valid and an invalid type, 3 tokens, 2 links; 212,432 states | `TypeOK`, `AnswersAgree`, `EventsAreAuthorised`, `EventsRebuildRecords`, `ImplementsLedger` |
| `entity_edits` | 1 entity, 2 accounts, 2 contents, 3 versions; 67,194 states | `TypeOK`, `OneEditWins`, `ImplementsHistory` |
| `admin_requests` | 1 issuer, 1 role, 2 requests and the worker, 2 transactions, one crash; 635,466 states | `TypeOK`, `ConfirmedTookEffect`, `TableBehindChain`, `RepollsKnownHash` |
| `identity_requests` | 2 accounts, 3 challenges, 2 keys, 2 tokens, 2 requests; 232,604 states | `TypeOK`, `SpentOnce`, `GrantsAreEarned`, `UnclaimedIsUntouched` |
| `issuance_requests` | 1 credential, 1 business key, 2 contents, 1 reason, 2 requests, 1 visitor, 2 of them at a time; 1,310,880 states | `TypeOK`, `LedgersComeFromChain`, `ChainHoldsRowContent`, `IssuedHasCredential`, `VerificationIsHonest`, `ListsAreHonest`, `RevocationsSettle` |
| `directory_edits` | the imported event and one more entity, 2 contents, 2 slugs, 2 administrators; 297,914 states | `TypeOK`, `AnchoredHistory`, `PagesShowAnchored` |
| `pilot_scripts` | a program of 3 presentations in 3 versions of its file, 2 processes, 3 scripts started, 1 edit; 338,441 states | `PilotTypeOK`, `ContactsComplete`, `ImportIsWhole` |
| `wallet_requests` | 2 tabs of one account, 2 contracts, 2 codes, 2 networks, 1 operation, limits of 2, windows of one tick; 1,472,891 states | `TypeOK`, `WindowAdmitsLimit`, `WalletsWereDeployed` |
| `directory_revival` | as `directory_edits` | violates `DeletedIsHidden` |
| `wallet_polling` | as `wallet_requests` | violates `PollsBackOff` |

What they show beyond the sentence each property has in its module:

- The outbox is safe for its main promise even though copies overwrite each other:
  a confirmed row always names an included, successful transaction with its effect in
  the contract, because every copy that can say `confirmed` was made after the
  readback, and what the ledger did is not undone. A verdict may be undone by a slower
  call that read the row before it was saved, and an answer of the network lost the same
  way (below). `LifecycleSpec` and `NeverResubmitsBlind` say how far that goes: once the
  calls that hold a copy without it are through, the verdict, or the answer, is there for
  good, and no envelope enters the network any more. `OverlapSpec` is about the time until
  then: one effect at most, and no save confirms what took none. No condition is put on
  what overlaps; a row that calls overlap on for ever, one after the other, is never
  `Settled`, and only `OverlapSpec` speaks of it.
- The sequence number is what prevents double effects between rivals: two relays of
  one smart-wallet operation share it (`SequenceUsedOnce`).
- The contracts keep the answers they gave and the event log in step with their records
  through role changes, links, handovers and both ends of their counters.
- The provisioning table never lists a link the chain did not have, but it follows only
  the first link of an issuer and operator (below). A hash that the row and every copy of it
  have is never lost or signed over (`RepollsKnownHash`); while a copy without it is out
  it can be (below).
- The credential row can lose its revocation to a copy that was out when it was revoked (a
  projection that read the row before writes `issued` back) and to nothing else
  (`RevocationsSettle`). Ledger numbers and contents in it stay true, and what the two
  verifying pages say the contract says is true, because the contract is asked after
  the row; the banner of the page of a code is the row's (below).
- Lists and cards take the word of the operation row. A verdict that is withdrawn makes
  them show less than the contract holds, never more, and never another hash.
- Two relays of one registration may both project it, so an entity may get a second
  version although the registry has one; both carry the hash the registry confirmed.
- The import is protected from the dashboard and from a second import by the unique
  slugs and by its single transaction alone: a lost race rolls the whole file back.
- Two tabs may deploy two wallets and the account keeps the one linked last; the other
  stays a deployed contract that no table has, or only `wallets` has. The run has one
  account: that no address belongs to two is shown by the theorem `LinkedAreDeployed` alone.

### Bounds, and why they are enough

`MaxInFlight` limits how many callers are inside their code at once. Two suffice for
every pair of a stale copy and a newer row; with three, racing copies make the
attempt counter grow without bound, which adds depth and no new pair. `MaxAttempts`
1 reaches the last attempt and the step after it. `MaxSeq` 1 lets other traffic
spend the number an envelope holds. One crash reaches every place a caller can die;
what two crashes leave behind is what one leaves, once more. `MaxToken` 3 with 3 ids and
`MaxVersion` 3 reach the exhausted counters. `MaxLinks` lets a link be removed and
made again. `MaxLedger` 2 lets a handover be accepted in time or expire. `MaxTx` 2
allows the second signature that `RepollsKnownHash` is about. `MaxLog` 3 is one more
transition than a participation has, which is what the torn readings produce; it stops
the write that would make a log longer. `outbox_revocation` has no crash, so that two
operations fit; `outbox_races` has one. In
`issuance_requests` two contents are what rivals for a business key differ in, one
visitor suffices because visitors write nothing, and `MaxBusy` 2 lets a visitor and a
request, or two requests, be under way at once: every pair of a writer and what it
overtakes. In `Directory` `MaxInFlight` 2 gives every
pair of an action begun from an old page and another; one entity besides the event is
every target of a race on a row, and two slugs let a form collide with a name in use.
`PilotImport`'s `MaxStarts` 3 gives two scripts at once and one after them, and `MaxEdits`
1 an entity created or renamed at any statement; the program has a soloist, a group with
the name of its school and a group to be confirmed, the three cases of the mapping.
In `SmartWallet` windows of one tick and `MaxTime` 1 give a window and its successor,
`MaxHits` 3 the first request over the limits of 2, and `MaxAttempts` 1 the last poll and
the stop after it.

Symmetry is declared for sets of interchangeable model values only, and never in a run
with a liveness property. `CHECK_DEADLOCK FALSE` is set because the systems may stop:
every operation may be settled, every code spent, every bound reached.

### Fairness

Only `outbox_races` depends on any: a worker that can step does, in a batch and in a call
(`StellarWorkerManager` loops until it is stopped, and an await of an RPC call has a
timeout), and retry times and leases pass. Clients, crashes and the network owe nothing:
a client may stand still in the middle of a call for ever, and a transaction may stay
pending for ever. So `SignedSettles` says of an operation whose envelope is stored that
again and again a client is in a call, or there is a verdict, or the attempts the
workers may make on it are spent.

## What the runs that fail say

- `directory_revival` (`PostgreSQLDatabaseGateway.ts:118`): the relay route reads the entity,
  adds a version to its copy and `saveEntityRecord` writes the copy's `active` with it. A
  deletion in between is undone: the entity is on the pages and in the lists again, with
  the status `archived`. This happens to entities the registry holds and to no other, and
  only to a deletion between the two ends of a projection (`RevivedRegistered`,
  `DeletionsStay`).
- `wallet_polling` (`useOperationPoller.ts:98`): the effect depends on the operation object,
  and each answer that is not terminal becomes that object. The effect starts again with
  attempt 0 and no delay: a pending operation is polled as fast as the route answers, and
  60 attempts are never counted. The backoff only works for errors.

### Known disagreements without a run of their own

All of them are steps of the models or facts of the schema the models use.

In the outbox: `save` has no condition on the stored phase, so a confirmed or failed row
returns to `confirming` under a call that read it earlier (`PostgreSQLOperationStore.ts:119`,
against `operationState.ts:35`; `TerminalIsFinal` is false of `Spec` with two callers in
flight, `SettledIsFinal` is what holds), and an envelope whose answer that call has not
read may be sent again, without a second effect. `claimBatch`
needs `attempt_count < max`, the catch block gives up at `> max`: a row whose attempts are
spent while `unknown` stays so (`PostgreSQLOperationStore.ts:176`; `UnknownConverges` under
`FairSpec`). `save` clears the lease of whoever holds it, so two workers may hold one row
(`PostgreSQLOperationStore.ts:134`, against `OperationStore.ts:65`). `reconcile` accepts
`failed_retryable` and `restoring` but then asserts a transition the table does not have
(`SorobanStellarGateway.ts:493`). The worker settles provisioning rows it cannot read back
as `failed_terminal` (`PostgreSQLOperationStore.ts:160`).

In provisioning: the operation id of a link is a function of operator and issuer; after
an unlink, linking again returns the old confirmation, sends nothing and puts the link
into the table (`AdminStellarService.ts:128`, against `provision/route.ts:87`;
`MirrorFollowsChain` with the operations link, unlink, link; `WrongOnlyOfUndone` says that
it happens to undone operations only). An operation that throws ends
the request before the links confirmed earlier reach the table (`provision/route.ts:88`).
A request that read the row before another stored its hash signs a second transaction, or
writes its copy without the hash over the row, whatever the comment at
`AdminStellarService.ts:209` says of a stored hash; so does the next request after a crash
between submission and save.

In identity: `claimAccount` reads the status and writes it in two statements, so two codes
of one account may both claim it (`ClaimService.ts:39`; `ClaimedOnce` is false of `Spec`).
Of two logins with one key the slower writes the smaller counter back
(`PasskeyService.ts:169`). `ClaimsSettle` and `CountersSettle` say how far each goes.

In the issuance flow: state and transitions of a participation are read by two queries;
two check-ins that race can store `registered -> checked_in` twice and then a confirmed
state with no transition to it (`PostgreSQLDatabaseGateway.ts:184`, against
`participation.ts:70`; `ConfirmationIsAudited` is false of `Spec`, and
`AuditLostToOvertaken` says which step breaks it). The relay route and the organizer save
whole rows over a concurrent revocation (`sign/submit/route.ts:118`, against
`CredentialRevokeDialog.tsx:89`; `RevocationsSettle` is what holds).

On the pages: the banner of `/credencial/[code]` ("Credencial Válida", "vigente y debidamente
autenticada", `page.tsx:114`) is the status of the row read first. A credential that the
contract has revoked and whose row lags behind, or has lost the revocation, is called valid
there, above a box that says "Revocada on-chain" (`page.tsx:192`), or above no box when the
verification raised (`page.tsx:184`). The label of its QR code says it verifies the
validity in real time (`page.tsx:214`), and `docs/soroban-contract-architecture.md:298` that a
revoked credential never verifies as valid again. The box says "Vigente on-chain" also of
a credential the contract does not have, next to "No verificado". The page of an id shows the
row's status as "Estado en contrato" (`verify/[credentialId]/page.tsx:42`), also when the
contract has nothing.

In the directory: `relationships` has no `updated_at` and `events` no `slug`, so
`createRelationship`, `deleteRelationship`, both listings of relationships,
`getPublicCredentialsBySubjectId` and the payload of an event always raise; adding a
participant in the event panel leaves the entity and no link, and a second try meets its
slug. A creation that ends between its two inserts leaves an entity that the landing page
lists and no page shows. An organization has a different hash when it is prepared from
the event panel. The update actions do not ask whether the entity was deleted.

Around the wallet: a deployment whose relayer gave up, or whose request died before the
link, leaves a contract that no table knows; two tabs without a wallet deploy one each;
`upsertWallet` reads and then inserts, so a person may get two rows (`PostgreSQLIdentityStore.ts:335`;
`RowsSettle` says how far that goes); an operation that was
prepared for a replaced wallet can neither be submitted nor polled any more.

In the scripts: an import after a rename on the dashboard creates the person again; an
entity of another kind with the slug of the event makes every import roll back; renames
that swap slugs during the e-mail update make a second run give a code twice.

In the indexer: `stellar_indexed_events` has no `event_index` and `stellar_ttl_jobs` no
claim columns, so their queries raise, and with them the passport's verification and the
exports; a duplicate event aborts the transaction in which `ingest` goes on, and when it
comes last the `COMMIT` is a silent rollback (`PostgreSQLIndexer.ts:14`).

## What is proved

All proofs are for any number of operations, callers, envelopes, ids, accounts,
entities, requests and so on, from the `ASSUME`s of the modules only: the constants have
their types, and null is no other value; and the tables written into the two pilot scripts
name no person outside the catalog, give a number one presentation and a subject one
number (`PilotAssumption`). No theorem has a condition on how actors interleave: each is
`Spec => ...` (`PagesSpec` for what the pages show, `PilotSpec` for the scripts), from an
inductive invariant with `Init => IInv` and `IInv /\ [Next]_vars => IInv'`.

Several of them have one form, because the code has one weakness: a row is read, and its
copy written back whole. What was saved may be undone by a copy that was out then, so that
"a verdict, a hash, a revocation, a counter, a deletion stays" is false. What is true, and
proved for any number of actors, is a stable predicate: once the fact is in the row *and in
every copy that may still be written over it*, no step of anyone takes it back, copies made
later included. The predicate is about the state reached, which the races are free to
delay; that it is reached is not claimed. It fails as soon as one guard or one assignment
of the code lets a fresh copy lose the fact, which is what the mutants of the runs do.

- `StellarOutboxProofs`: `TypeCorrect`, `ConfirmedCorrect`, `HashKnown`, `IncludedOnce`. The
  property "a confirmed row is on chain" is not inductive because rows are overwritten by
  copies. `IInv` says of every copy, at each place in the code, what the row must
  satisfy once the copy is written back (`RowsSound`, `CopiesSound`, `BatchesSound`), that
  a successful transaction has its effect (`SuccessTookEffect`) and that an included
  envelope's number is spent (`EnvelopesSound`).
  - `EnvelopesStored`: what the network was offered is stored. A row once signed never
    becomes unsigned again, because every copy that may still be written carries the
    envelope if the row has one (`StoreInv`, over `Ages`: rows only move away from the
    unsigned phases).
  - `LifecycleImplemented` and `SettledIsFinal`: from a terminal row no new copy is ever
    made that could be saved (`CanSubmit`, `CanReconcile`, `Claimable` all refuse it), so once
    the copies that were out are gone nothing writes the row again. The abstract verdict
    is given at the step after which that holds, the save or the return of the last call,
    and an inclusion is `TakeEffect`, since the ledger has spent the number of every
    envelope that was included before. `NeverBlind` is the same for the network's answer:
    a copy with the hash is never relayed (`AnswerInv`: a call that is about to send, and a
    row that says signed, has none).
  - `OverlapImplemented`: every step is a step of `OverlapSpec` or a stutter. A save is `Save`
    of the copy's verdict, and the copy says confirmed only with an effect (`CopiesSound`).
- `CredentialRegistryProofs`: `TypeCorrect`, `EntriesAgree`, `TokensNumbered`,
  `AnswersConsistent`, `LogAuthorised`, `LogRebuilds`, `VerdictsFinal`, `LedgerImplemented`.
  `IInv` adds that every answer is recorded, the links are those of the log and the counter
  counts. `LogRebuilds` is about logs of any length: what a follower holds of a credential
  is given by the last issuance of its id and the last revocation after it
  (`Rebuilt`), and an appended event either is that last one or leaves it where it was; a
  largest position exists by well-founded induction on the distance to the end.
- `EntityRegistryProofs`: `TypeCorrect`, `NoGaps`, `OneWinner`, `PublishedVerifiable`,
  `HistoryImplemented`.
- `AdminProvisionProofs`: `TypeCorrect`, `ConfirmedByLedger`, `TableEarned`,
  `KnownHashRepolled`, `WrongOnlyOfUndone`. A hash in a row, in a copy or in a job belongs to a transaction of
  that operation, transactions are only added and an included one keeps its result
  (`Grows`), so a copy that says confirmed still has a success behind it when it is
  written, and so has a link that a request is about to put into the table.
  - `KnownHashRepolled`: a transaction is only signed by a request whose copy has no hash,
    and every new copy is of the row (`CopyFrom`, `JobCopyFrom`, `RowFrom`), so once the row
    and all copies have the hash the operation is polled and never signed again.
  - `WrongOnlyOfUndone`: whatever the lists ask for, a confirmed row, or a
    link of the table, can disagree with the contract only if a transaction of the opposite
    operation succeeded. A target that transactions turned one way only is that way
    (`ValuesFollow`), whatever was confirmed, saved again or lost in between.
- `IdentityProofs`: `TypeCorrect`, `ChallengesBuyOnce`, `GrantsEarned`, `UnclaimedUntouched`.
  `IInv` says what a request holds at each place (`Sound`) and that no two requests
  hold the same spent challenge (`HeldApart`).
  - `ClaimsClose`: an account never becomes pending again and a claim is only let through
    by a pending one. So once an account is not pending and no claim that read it so is under
    way, no claim code buys a session for it any more, whatever is presented; of its codes
    only those that were presented together can both buy.
  - `CountersStay`: a login is let through only with no less than the counter it reads, so a count that
    the key and every login about to write it have reached is never fallen short of.
- `IssuanceProofs`: `TypeCorrect`, `LedgersEarned`, `AnchoredContentStored`,
  `IssuedPrepared`. The argument is that the tables grow in what matters (`Grows`): a
  participation stays, a row keeps its key and content, offers and effects are not
  withdrawn; so what a request learnt stays true until it uses it (`RequestSound`).
  `AnswersHonest` is about `PagesSpec`, the same system with visitors: what a visit read
  of the content of a row stays true (`Kept`), so an answer put
  together from two moments is true at the second. `ListedHonestly` is about what is shown
  without asking: nothing in it rests on a verdict staying, only on what a verdict meant
  when it was saved, the effect, which stays.
  - `AuditLostToOvertaken`: the log of a participation tells its state (`LogTells`) until
    a write of readings that are no longer so (`Overtaken`); every other step, however many
    requests there are, keeps it. `ConfirmationIsAudited` is false of `Spec` through that
    one step. `IssuedCloses`: an issued participation that no request holds an earlier
    reading of never changes again.
  - `RevocationsStay`: what a copy is made of is the row, changed by `Projection` or the
    dashboard's update, and neither takes anything back; so what the row and all copies
    have, a revocation or a ledger number, is in every later row.
- `DirectoryProofs`: `TypeCorrect`, `HistoryAnchored`, `PagesAnchored`. Rows stay,
  `latest_version` never decreases and no effect is taken back (`Grows`); so what a
  call read of an entity stays a lower bound (`CallSound`), and the version a projection
  writes carries a hash the registry confirmed, whoever wrote in between.
  - `RevivedRegistered`: an entity that was deleted and is shown again is one the registry
    holds, because only a projection writes the flag back and it only starts after the
    effect. `DeletionsStay`: it must be a projection that read the row before the deletion.
    Once none is under way (`Buried`) the entity stays inactive, in no list and on no page,
    for ever, through edits, registrations and later projections.
- `DirectoryProofs` also has the scripts: `PilotTypeCorrect`, `ContactsStayComplete`,
  `ImportsWhole`, for any files, runs, entities and edits. None of them is inductive: they
  speak of what is committed, and a script works on rows nobody else sees. `PilotIInv` says
  of every run that the rows whose ids it holds are there and are visible to it
  (`HasRow`), that every statement of the plan it has made has left its effect (`Made`),
  and that no rival can take it away. So an import that has nothing left commits the
  whole plan. For this the plan must be sound as a plan: every entity is ensured in a loop
  before the ones that refer to it, although the catalogs keep only first entries
  (`Once`); a first entry exists because the places are well-founded. The contacts
  stay complete because the e-mail script counts alone: a participation that is not
  committed holds a lock it waits for (`PartSound`, `Alone`), so its count is of what it
  commits. The slugs stay unique although the id of a new row is chosen among the free
  ones: there is always one, by counting (`Cardinality`), as long as a name is unused.
- `SmartWalletProofs`: `TypeCorrect`, `LimitsHold`, `LinkedAreDeployed`. What a window let
  through is never more than what it counted, also when the clock was read before; a
  contract belongs to the one account that deployed it (`OneDeployer`, `NotForeign`), and
  whatever a request or a table names was deployed before (`UsedDeployed`).
  - `RowsStay`: once an account has a row in `wallets` and no tab of it that saw none is about
    to insert one, the number of its rows never changes, however many wallets it deploys.

Only model-checked: liveness (`SignedSettles`), which is out of the prover's reach. Every
invariant, action property and refinement of the passing runs is a theorem.
`DeletedIsHidden` and `PollsBackOff` are false of the code. `IndexesAgree`, `ClaimsSettle`,
`CountersSettle`, `DeletionsSettle`, `RowsSettle` and what the theorems without a property
in `PROJECT.json` state are proved and checked by no run. The proofs are of the models:
that a model is the code is what the map of `PROJECT.json` is for.

## Not modelled

- The event indexer and the passport (`PostgreSQLIndexer.ts`, `PassportService.ts`), and the
  TTL queue (`PostgreSQLTtlQueue.ts`): nothing constructs the indexer or the queue, and
  the queries of all three raise on the schema of the migrations (they name columns the
  tables lack). They have no behaviour beyond raising; the hazards of their code that
  wait for a schema that fits are listed without a property.
- The exports: they go through the passport's queries and raise.
- `manage-entity.ts` and the other use cases nothing calls; `deleteRelationship`, which always
  raises; `SessionService.rotate`, which always aborts.
- Restoring archived entries of the contracts' storage (`restoring`): the outbox has the
  phase and its dead end, not the restore transaction, whose builder needs the
  footprint of a simulation.
- `migrate.mjs` and the check scripts: one-shot tools over the schema itself. The
  constraints they create are guards of the modules that use them.
- Canonical hashing and XDR conversion (pure computation; hashes are values),
  configuration and start-up gates, layout, the forms' parsing, the profile of the
  organizer on an event's page, the in-memory stores that only tests use.

## Plan

The core is modelled, checked and proved. What would extend it, in this order:

1. An abstract specification of provisioning (a table that follows the contract's links)
   and the condition on its operation ids under which `AdminProvision` implements it;
   `WrongOnlyOfUndone` is what holds of the ids as they are.
2. The restore path, once the code drives one to its end.
3. Indexer, passport and TTL queue, once their queries fit the schema: every event
   projected once, the cursor never behind what was acknowledged.
4. More theorems that say how far a known disagreement goes: the scripts when the
   dashboard renames somebody, the operation id of a link that was removed.
