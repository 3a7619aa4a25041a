---------------------------- MODULE StellarOutbox ----------------------------
(***************************************************************************)
(* The durable outbox of chain operations and everything that writes it:   *)
(* the HTTP calls that prepare, relay and reconcile an operation, and the  *)
(* StellarWorker processes that pick up what those calls left unfinished.  *)
(* Every gateway call works on its own copy of a row and writes that copy  *)
(* back whole, so a call is modelled as a sequence of steps, one per await *)
(* (a query, an RPC call), with the copy kept in between.                  *)
(*                                                                         *)
(* The network is external: transactions of one fee payer account, whose   *)
(* sequence number admits each number once, and the effect of the two      *)
(* contracts as far as the readback of an operation can see it.            *)
(***************************************************************************)
EXTENDS OperationPhases, Integers, FiniteSets

CONSTANTS
  Ops,          \* operations: one idempotency key each
  Subjects,     \* credentials or entities the operations are about
  Kind,         \* [Ops -> Kinds]
  Subject,      \* [Ops -> Subjects]
  Payloads,     \* signed envelopes: one for a classic account, whose hash
                \* ignores signatures; several for a smart wallet, whose
                \* envelope is re-assembled at every relay
  Clients,      \* HTTP calls in progress
  Workers,      \* StellarWorker processes
  None,         \* null
  BatchSize,    \* StellarWorker.options.batchSize
  MaxAttempts,  \* LEAST(options.maxAttempts, max_attempts)
  FeePayer,     \* TRUE when config.feePayerSecret is set
  MaxInFlight,  \* bound: callers active at the same time
  MaxCrashes,   \* bound: crashes of a caller
  MaxSeq        \* bound: sequence numbers spent by other traffic

Kinds   == {"register_entity", "issue_credential", "revoke_credential"}
Callers == Clients \cup Workers
Absent  == "absent"   \* the phase of a row that does not exist yet

ASSUME OutboxAssumption ==
  /\ Kind \in [Ops -> Kinds]
  /\ Subject \in [Ops -> Subjects]
  /\ Clients \cap Workers = {}
  /\ None \notin Ops \cup Payloads \cup Callers
  /\ BatchSize \in Nat \ {0}
  /\ MaxAttempts \in Nat \ {0}
  /\ FeePayer \in BOOLEAN
  /\ MaxInFlight \in Nat
  /\ MaxCrashes \in Nat
  /\ MaxSeq \in Nat
  \* the keys issue:<credential> and register:<entity> have one row each
  /\ \A o, u \in Ops :
       Kind[o] = Kind[u] /\ Kind[o] # "revoke_credential"
         /\ Subject[o] = Subject[u] => o = u

VARIABLES
  row,        \* the rows of stellar_operations
  lease,      \* claimed_by, None when claimed_until is null or past
  envSeq,     \* sequence number inside the prepared envelope of a row
  pc,         \* where each caller is in its code
  cur,        \* the operation a caller is working on
  mem,        \* the caller's own copy of that row
  batch,      \* what a worker claimed and has not processed yet
  tx,         \* what the network did with each signed envelope
  accountSeq, \* last sequence number the fee payer account has used
  made,       \* the operation that created a subject on chain
  revokedBy,  \* the operation that revoked it
  crashes     \* crashes so far

dbVars    == <<row, lease, envSeq>>
callVars  == <<pc, cur, mem>>
chainVars == <<tx, accountSeq, made, revokedBy>>
vars      == <<dbVars, callVars, batch, chainVars, crashes>>

TxStates == {"unseen", "pending", "success", "failed"}
Included == {"success", "failed"}

Row == [phase : Phases \cup {Absent}, signed : Payloads \cup {None},
        hash : Payloads \cup {None}, attempts : Nat, due : BOOLEAN]

Blank == [phase |-> Absent, signed |-> None, hash |-> None,
          attempts |-> 0, due |-> TRUE]

Item == [op : Ops, phase : Phases, signed : Payloads \cup {None}]

PCs == {"idle", "saveSigned", "submit", "saveSubmitted", "saveRetry",
        "saveConfirming", "poll", "readback", "saveResult", "handler",
        "saveHandler"}

TypeOK ==
  /\ row \in [Ops -> Row]
  /\ lease \in [Ops -> Workers \cup {None}]
  /\ envSeq \in [Ops -> Nat]
  /\ pc \in [Callers -> PCs]
  /\ cur \in [Callers -> Ops \cup {None}]
  /\ mem \in [Callers -> Row]
  /\ batch \in [Workers -> SUBSET Item]
  /\ tx \in [Ops -> [Payloads -> TxStates]]
  /\ accountSeq \in Nat
  /\ made \in [Subjects -> Ops \cup {None}]
  /\ revokedBy \in [Subjects -> Ops \cup {None}]
  /\ crashes \in Nat

Init ==
  /\ row = [o \in Ops |-> Blank]
  /\ lease = [o \in Ops |-> None]
  /\ envSeq = [o \in Ops |-> 0]
  /\ pc = [c \in Callers |-> "idle"]
  /\ cur = [c \in Callers |-> None]
  /\ mem = [c \in Callers |-> Blank]
  /\ batch = [w \in Workers |-> {}]
  /\ tx = [o \in Ops |-> [p \in Payloads |-> "unseen"]]
  /\ accountSeq = 0
  /\ made = [s \in Subjects |-> None]
  /\ revokedBy = [s \in Subjects |-> None]
  /\ crashes = 0

------------------------------------------------------------------------------
(* Moving a caller through its code.                                       *)

Busy(c) == pc[c] # "idle" \/ (c \in Workers /\ batch[c] # {})

\* A caller in the middle of a gateway call or of a save: it holds a copy.
HoldsCopy(c) == pc[c] \notin {"idle", "handler"}

\* The bound on concurrency: a caller starts only when a slot is free.
HasSlot == Cardinality({c \in Callers : Busy(c)}) < MaxInFlight

\* The caller holds copy r of row o and goes on at step s.
Goto(c, s, o, r) ==
  /\ pc' = [pc EXCEPT ![c] = s]
  /\ cur' = [cur EXCEPT ![c] = o]
  /\ mem' = [mem EXCEPT ![c] = r]

Continue(c, s, r) == Goto(c, s, cur[c], r)

Return(c) == Goto(c, "idle", None, Blank)

\* An exception ends a client's call and sends a worker to its catch block.
Throw(c) == IF c \in Workers THEN Goto(c, "handler", cur[c], Blank)
                             ELSE Return(c)

\* OperationStore.save: the whole row is overwritten and its lease cleared.
Save(c) ==
  /\ row' = [row EXCEPT ![cur[c]] = mem[c]]
  /\ lease' = [lease EXCEPT ![cur[c]] = None]
  /\ UNCHANGED envSeq

\* scheduleRetry and markUnknown
RetryUncounted(r) == [r EXCEPT !.due = FALSE]            \* mutant
ScheduleRetry(r) == [r EXCEPT !.attempts = @ + 1, !.due = FALSE]

MarkLost(r) == [ScheduleRetry(r) EXCEPT !.phase = "lost"] \* mutant
MarkUnknown(r) == [ScheduleRetry(r) EXCEPT !.phase = "unknown"]

\* The copy after the network answered p with a hash.
AcceptedAsFinal(r, p) == [r EXCEPT !.hash = p, !.phase = "confirmed"] \* mutant
Accepted(r, p) == [r EXCEPT !.hash = p, !.phase = "submitted"]

------------------------------------------------------------------------------
(* Preparing an operation.                                                 *)

\* The chain state under which the simulation of o finds no contract error.
Executable(o) ==
  LET s == Subject[o] IN
  IF Kind[o] = "revoke_credential"
    THEN made[s] # None /\ revokedBy[s] = None
    ELSE made[s] = None

\* prepare: the key is free, so the verdict of the simulation is inserted
\* together with an envelope that carries the next sequence number as the
\* simulation read it, which may be stale by the time of the insert.  A
\* restore with a fee payer spends one sequence number of its own first.
Prepare(o) ==
  /\ row[o].phase = Absent
  /\ \/ /\ row' = [row EXCEPT ![o].phase = "failed_terminal"]
        /\ UNCHANGED <<envSeq, accountSeq>>
     \/ /\ ~FeePayer
        /\ row' = [row EXCEPT ![o].phase = "restoring"]
        /\ UNCHANGED <<envSeq, accountSeq>>
     \/ /\ FeePayer /\ Executable(o) /\ accountSeq < MaxSeq
        /\ accountSeq' = accountSeq + 1
        /\ row' = [row EXCEPT ![o].phase = "awaiting_signature"]
        /\ envSeq' = [envSeq EXCEPT ![o] = accountSeq + 2]
     \/ /\ Executable(o)
        /\ \E s \in 1..(accountSeq + 1) : envSeq' = [envSeq EXCEPT ![o] = s]
        /\ row' = [row EXCEPT ![o].phase = "awaiting_signature"]
        /\ UNCHANGED accountSeq
  /\ UNCHANGED <<lease, callVars, batch, tx, made, revokedBy, crashes>>

------------------------------------------------------------------------------
(* Entering the gateway.  Each entry reads the row once and then works on  *)
(* the copy.                                                               *)

\* submitSigned on a copy of row o with envelope p: a first relay records
\* the envelope, a recovery goes straight to the network with the stored one.
RelayAlways(r, p) == r.phase = "awaiting_signature" \/ r.signed = p \* mutant
CanSubmit(r, p) ==
  \/ r.phase = "awaiting_signature"
  \/ r.phase = "signed" /\ r.signed = p

SubmitUnsaved(c, o, p) ==                                          \* mutant
  Goto(c, "submit", o, [row[o] EXCEPT !.phase = "signed", !.signed = p])
EnterSubmit(c, o, p) ==
  IF row[o].phase = "awaiting_signature"
    THEN Goto(c, "saveSigned", o,
              [row[o] EXCEPT !.phase = "signed", !.signed = p])
    ELSE Goto(c, "submit", o, row[o])

\* reconcile, as far as pollAndConfirm's own save.
ReconcileAnswered(r) == r.hash # None                             \* mutant
CanReconcile(r) ==
  /\ r.phase \in Reconcilable
  /\ r.hash # None
  /\ CanTransition(r.phase, "confirming")

EnterReconcile(c, o) ==
  Goto(c, "saveConfirming", o, [row[o] EXCEPT !.phase = "confirming"])

\* POST /api/sign/submit
ClientSubmit(c, o, p) ==
  /\ pc[c] = "idle" /\ HasSlot
  /\ row[o].attempts <= MaxAttempts   \* bound on client retries
  /\ CanSubmit(row[o], p) /\ EnterSubmit(c, o, p)
  /\ UNCHANGED <<dbVars, batch, chainVars, crashes>>

\* reconcileEntityOperation
ClientReconcile(c, o) ==
  /\ pc[c] = "idle" /\ HasSlot
  /\ row[o].attempts <= MaxAttempts   \* bound on client retries
  /\ CanReconcile(row[o])
  /\ EnterReconcile(c, o)
  /\ UNCHANGED <<dbVars, batch, chainVars, crashes>>

------------------------------------------------------------------------------
(* The worker.                                                             *)

Claimable(o) ==
  /\ row[o].phase \in ClaimPhases
  /\ row[o].due
  /\ lease[o] = None
  /\ row[o].attempts < MaxAttempts

\* claimBatch: one statement leases up to BatchSize rows and returns copies.
Claim(w) ==
  /\ pc[w] = "idle" /\ batch[w] = {} /\ HasSlot
  /\ \E S \in SUBSET {o \in Ops : Claimable(o)} :
       /\ S # {}
       /\ Cardinality(S) <= BatchSize
       /\ Cardinality(S) = BatchSize \/ S = {o \in Ops : Claimable(o)}
       /\ lease' = [o \in Ops |-> IF o \in S THEN w ELSE lease[o]]
       /\ batch' = [batch EXCEPT ![w] =
            {[op |-> o, phase |-> row[o].phase, signed |-> row[o].signed] :
               o \in S}]
  /\ UNCHANGED <<row, envSeq, callVars, chainVars, crashes>>

\* process: the claimed copy chooses the gateway call, which reads the row
\* again; whatever that call rejects is an exception.
Process(w) ==
  /\ pc[w] = "idle"
  /\ \E item \in batch[w] :
       LET o == item.op IN
       /\ batch' = [batch EXCEPT ![w] = @ \ {item}]
       /\ \/ /\ item.phase = "signed" /\ CanSubmit(row[o], item.signed)
             /\ EnterSubmit(w, o, item.signed)
          \/ /\ item.phase = "signed" /\ ~CanSubmit(row[o], item.signed)
             /\ Goto(w, "handler", o, Blank)
          \/ /\ item.phase # "signed" /\ CanReconcile(row[o])
             /\ EnterReconcile(w, o)
          \/ /\ item.phase # "signed"
             /\ row[o].phase \in Reconcilable /\ ~CanReconcile(row[o])
             /\ Goto(w, "handler", o, Blank)
          \/ /\ item.phase # "signed" /\ row[o].phase \notin Reconcilable
             /\ Return(w)
  /\ UNCHANGED <<dbVars, chainVars, crashes>>

\* The catch block of runOneBatch reads the row once more.
Handle(w) ==
  /\ pc[w] = "handler"
  /\ LET r == row[cur[w]] IN
     \/ /\ r.phase = "signed" /\ ~r.due
        /\ Continue(w, "saveHandler", r)
     \/ /\ r.phase \in Terminal
        /\ Return(w)
     \/ /\ r.phase \notin Terminal /\ ~(r.phase = "signed" /\ ~r.due)
        /\ Continue(w, "saveHandler",
             IF r.attempts + 1 > MaxAttempts
               THEN [r EXCEPT !.attempts = @ + 1, !.phase = "failed_terminal"]
               ELSE [ScheduleRetry(r) EXCEPT !.phase = "failed_retryable"])
  /\ UNCHANGED <<dbVars, batch, chainVars, crashes>>

SaveHandler(w) ==
  /\ pc[w] = "saveHandler"
  /\ Save(w) /\ Return(w)
  /\ UNCHANGED <<batch, chainVars, crashes>>

------------------------------------------------------------------------------
(* The steps of a gateway call.                                            *)

\* A relay that rebuilds the envelope with a fresh sequence number.
SaveRebuilt(c) ==                                                   \* mutant
  /\ pc[c] = "saveSigned"
  /\ row' = [row EXCEPT ![cur[c]] = mem[c]]
  /\ lease' = [lease EXCEPT ![cur[c]] = None]
  /\ envSeq' = [envSeq EXCEPT ![cur[c]] = accountSeq + 1]
  /\ Continue(c, "submit", mem[c])
  /\ UNCHANGED <<batch, chainVars, crashes>>

\* The envelope is stored in phase 'signed' before the network is touched.
SaveSigned(c) ==
  /\ pc[c] = "saveSigned"
  /\ Save(c) /\ Continue(c, "submit", mem[c])
  /\ UNCHANGED <<batch, chainVars, crashes>>

\* transport.submit: the network queues an envelope whose sequence number is
\* not spent.  It may answer with a hash without queueing (TRY_AGAIN_LATER,
\* DUPLICATE), and its answer may be lost after it queued the envelope.
Submit(c) ==
  /\ pc[c] = "submit"
  /\ LET o == cur[c]
         p == mem[c].signed
     IN \E queued, answered \in BOOLEAN :
          /\ queued \/ answered => envSeq[o] > accountSeq
          /\ tx' = IF queued /\ tx[o][p] = "unseen"
                     THEN [tx EXCEPT ![o][p] = "pending"] ELSE tx
          /\ IF answered
               THEN Continue(c, "saveSubmitted", Accepted(mem[c], p))
               ELSE Continue(c, "saveRetry", ScheduleRetry(mem[c]))
  /\ UNCHANGED <<dbVars, batch, accountSeq, made, revokedBy, crashes>>

SaveRetry(c) ==
  /\ pc[c] = "saveRetry"
  /\ Save(c) /\ Throw(c)
  /\ UNCHANGED <<batch, chainVars, crashes>>

\* The save of 'submitted' and the start of pollAndConfirm.
SaveSubmitted(c) ==
  /\ pc[c] = "saveSubmitted"
  /\ Save(c)
  /\ Continue(c, "saveConfirming", [mem[c] EXCEPT !.phase = "confirming"])
  /\ UNCHANGED <<batch, chainVars, crashes>>

SaveConfirming(c) ==
  /\ pc[c] = "saveConfirming"
  /\ Save(c) /\ Continue(c, "poll", mem[c])
  /\ UNCHANGED <<batch, chainVars, crashes>>

\* transport.pollTransaction.  An RPC node may lag behind the ledger, answer
\* SUCCESS without a ledger number, or fail.
Poll(c) ==
  /\ pc[c] = "poll"
  /\ LET status == tx[cur[c]][mem[c].hash] IN
     \/ Continue(c, "saveResult", MarkUnknown(mem[c]))
     \/ /\ status = "failed"
        /\ Continue(c, "saveResult",
             [mem[c] EXCEPT !.phase = "failed_terminal", !.due = TRUE])
     \/ /\ status = "success"
        /\ Continue(c, "readback", mem[c])
     \/ Throw(c)
  /\ UNCHANGED <<dbVars, batch, chainVars, crashes>>

\* readbackMatches against the contract record of the subject; the ledger
\* number it compares identifies the transaction that wrote the record.
ReadbackMatches(o) ==
  LET s == Subject[o] IN
  CASE Kind[o] = "register_entity"   -> made[s] # None
    [] Kind[o] = "issue_credential"  -> made[s] = o /\ revokedBy[s] = None
    [] Kind[o] = "revoke_credential" -> revokedBy[s] = o

\* A readback that cannot be simulated reads as null, which is a mismatch.
Readback(c) ==
  /\ pc[c] = "readback"
  /\ \/ /\ ReadbackMatches(cur[c])
        /\ Continue(c, "saveResult", [mem[c] EXCEPT !.phase = "confirmed"])
     \/ Continue(c, "saveResult", [mem[c] EXCEPT !.phase = "failed_terminal"])
     \/ Throw(c)
  /\ UNCHANGED <<dbVars, batch, chainVars, crashes>>

SaveResult(c) ==
  /\ pc[c] = "saveResult"
  /\ Save(c) /\ Return(c)
  /\ UNCHANGED <<batch, chainVars, crashes>>

------------------------------------------------------------------------------
(* Time, crashes and the network.                                          *)

\* next_retry_at passes.  A stale copy saved later may postpone it again,
\* which in the code it cannot: the model only delays a retry more.
BackoffElapses(o) ==
  /\ ~row[o].due
  /\ row' = [row EXCEPT ![o].due = TRUE]
  /\ UNCHANGED <<lease, envSeq, callVars, batch, chainVars, crashes>>

\* claimed_until passes, in the middle of a batch too.
LeaseExpires(o) ==
  /\ lease[o] # None
  /\ lease' = [lease EXCEPT ![o] = None]
  /\ UNCHANGED <<row, envSeq, callVars, batch, chainVars, crashes>>

\* A process dies between two steps: its copies are gone, its leases stay.
Crash(c) ==
  /\ Busy(c) /\ crashes < MaxCrashes
  /\ Return(c)
  /\ batch' = [w \in Workers |-> IF w = c THEN {} ELSE batch[w]]
  /\ crashes' = crashes + 1
  /\ UNCHANGED <<dbVars, chainVars>>

\* A ledger closes over a queued envelope with the account's next number.
LedgerIncludes(o, p) ==
  /\ tx[o][p] = "pending"
  /\ envSeq[o] = accountSeq + 1
  /\ accountSeq' = accountSeq + 1
  /\ \/ /\ Executable(o)
        /\ tx' = [tx EXCEPT ![o][p] = "success"]
        /\ IF Kind[o] = "revoke_credential"
             THEN /\ revokedBy' = [revokedBy EXCEPT ![Subject[o]] = o]
                  /\ UNCHANGED made
             ELSE /\ made' = [made EXCEPT ![Subject[o]] = o]
                  /\ UNCHANGED revokedBy
     \/ /\ tx' = [tx EXCEPT ![o][p] = "failed"]
        /\ UNCHANGED <<made, revokedBy>>
  /\ UNCHANGED <<dbVars, callVars, batch, crashes>>

\* The network forgets a queued envelope (it expired or was evicted).
NetworkDrops(o, p) ==
  /\ tx[o][p] = "pending"
  /\ tx' = [tx EXCEPT ![o][p] = "unseen"]
  /\ UNCHANGED <<dbVars, callVars, batch, accountSeq, made, revokedBy, crashes>>

\* Another transaction of the fee payer spends a sequence number.
OtherTraffic ==
  /\ accountSeq < MaxSeq
  /\ accountSeq' = accountSeq + 1
  /\ UNCHANGED <<dbVars, callVars, batch, tx, made, revokedBy, crashes>>

------------------------------------------------------------------------------
CallStep(c) ==
  \/ SaveSigned(c) \/ Submit(c) \/ SaveRetry(c) \/ SaveSubmitted(c)
  \/ SaveConfirming(c) \/ Poll(c) \/ Readback(c) \/ SaveResult(c)

WorkerStep(w) == Claim(w) \/ Process(w) \/ Handle(w) \/ SaveHandler(w)

ClientStep(c) ==
  \E o \in Ops : ClientReconcile(c, o) \/ \E p \in Payloads : ClientSubmit(c, o, p)

Network ==
  \/ OtherTraffic
  \/ \E o \in Ops, p \in Payloads : LedgerIncludes(o, p) \/ NetworkDrops(o, p)

Clock == \E o \in Ops : BackoffElapses(o) \/ LeaseExpires(o)

Next ==
  \/ \E o \in Ops : Prepare(o)
  \/ \E c \in Clients : ClientStep(c)
  \/ \E w \in Workers : WorkerStep(w)
  \/ \E c \in Callers : CallStep(c) \/ Crash(c)
  \/ Clock
  \/ Network

Spec == Init /\ [][Next]_vars

\* A worker that runs keeps taking its steps and time passes; clients, crashes
\* and the network owe nothing.
Fairness ==
  /\ \A w \in Workers : WF_vars(WorkerStep(w) \/ CallStep(w))
  /\ \A o \in Ops : WF_vars(BackoffElapses(o)) /\ WF_vars(LeaseExpires(o))

FairSpec == Spec /\ Fairness

------------------------------------------------------------------------------
(* Properties.                                                             *)

\* What operation o wrote on chain is there.
EffectOnChain(o) ==
  IF Kind[o] = "revoke_credential" THEN revokedBy[Subject[o]] = o
                                   ELSE made[Subject[o]] = o

\* "A returned tx hash NEVER marks an operation confirmed; only ledger
\* inclusion + contract readback does": whatever calls and workers race, a
\* confirmed row names an envelope the ledger included with success, and the
\* contract holds the record that operation wrote.
ConfirmedIsOnChain ==
  \A o \in Ops : row[o].phase = "confirmed" =>
    /\ row[o].hash # None
    /\ tx[o][row[o].hash] = "success"
    /\ EffectOnChain(o)

\* The crash window between signing and submission is closed: an envelope
\* the network may execute belongs to a row that has a stored envelope and
\* is not offered for signature again.
NetworkImpliesStored ==
  \A o \in Ops : (\E p \in Payloads : tx[o][p] # "unseen") =>
    /\ row[o].signed # None
    /\ row[o].phase \notin {Absent, "awaiting_signature", "restoring"}

\* However often an operation is relayed, re-signed and recovered, and even
\* when operations were prepared with the same sequence number, the ledger
\* includes at most one of the competing envelopes.
SequenceUsedOnce ==
  \A o, u \in Ops, p, q \in Payloads :
    /\ tx[o][p] \in Included /\ tx[u][q] \in Included
    /\ envSeq[o] = envSeq[u]
    => o = u /\ p = q

\* The phases reconcile is meant for carry the hash it needs.
PolledPhasesHaveHash ==
  \A o \in Ops :
    row[o].phase \in {"submitted", "confirming", "unknown", "confirmed"} =>
      row[o].hash # None

\* "Terminal phases never move again."
TerminalIsFinal ==
  [][\A o \in Ops : row[o].phase \in Terminal =>
       row'[o].phase = row[o].phase]_vars

\* No blind re-submission: once the network's answer is in the row of an
\* operation and every call still at work on it has read that answer, the
\* answer is never lost again and no further envelope of the operation enters
\* the network, whatever workers, retries and new calls do next.
Answered(o) ==
  /\ row[o].hash # None
  /\ \A c \in Callers : HoldsCopy(c) /\ cur[c] = o => mem[c].hash # None

NeverResubmitsBlind ==
  [][\A o \in Ops : Answered(o) =>
       /\ Answered(o)'
       /\ \A p \in Payloads : tx[o][p] = "unseen" => tx'[o][p] = "unseen"]_vars

\* Once an envelope is stored the operation is not forgotten: again and again
\* a client is at it, or it has a verdict, or the workers have spent the
\* attempts they may make on it, whatever calls left behind.
SignedSettles ==
  \A o \in Ops :
    []<>(\/ row[o].signed = None
         \/ row[o].phase \in Terminal
         \/ row[o].attempts >= MaxAttempts
         \/ \E c \in Clients : Busy(c))

\* An operation nobody knows the fate of converges to a verdict: the workers
\* go on asking until they have one or give it up.
UnknownConverges ==
  \A o \in Ops : row[o].phase = "unknown" ~> row[o].phase \in Terminal

\* The row has a verdict and no call is left that holds a copy of it.
Settled(o) ==
  /\ row[o].phase \in Terminal
  /\ \A c \in Callers : HoldsCopy(c) => cur[c] # o

\* What the ledger did with operation o.
Effect(o) ==
  IF \E p \in Payloads : tx[o][p] = "success" THEN "success"
  ELSE IF \E p \in Payloads : tx[o][p] = "failed" THEN "failed"
  ELSE "none"

\* The abstract life of an operation: its verdict is given when the last call
\* that holds a copy of its row is through.
Lifecycle == INSTANCE OperationLifecycle WITH
  verdict <- [o \in Ops |-> IF Settled(o) THEN row[o].phase ELSE "open"],
  effect  <- [o \in Ops |-> Effect(o)]

\* Whatever calls, workers, retries and crashes overlap, an operation takes
\* effect at most once, and when the calls at work on it are through the
\* verdict they leave is its only one: no later call, worker or claim reopens
\* or changes it, and it is confirmed only if it took effect.
LifecycleSpec == Lifecycle!Spec

\* The same operation as its saved row tells it at every moment.
SavedLifecycle == INSTANCE OperationLifecycle WITH
  verdict <- [o \in Ops |-> IF row[o].phase \in Terminal THEN row[o].phase
                                                        ELSE "open"],
  effect  <- [o \in Ops |-> Effect(o)]

\* While calls, workers and retries overlap, a verdict may be overwritten by
\* an older copy of its row; still the operation takes effect at most once,
\* whatever is relayed again, and no save, however late, calls it confirmed
\* when it did not take effect.
OverlapSpec == SavedLifecycle!OverlapSpec
==============================================================================
