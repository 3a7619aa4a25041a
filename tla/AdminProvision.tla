--------------------------- MODULE AdminProvision ---------------------------
(***************************************************************************)
(* AdminStellarService: contract administration on behalf of an operator,  *)
(* one durable row per (operation, operator, issuer), and the route that   *)
(* copies confirmed links into issuer_operators.  Several requests may     *)
(* run at once, and the StellarWorker claims these rows like any other.    *)
(*                                                                         *)
(* An operation turns a target on or off: a link of the operator to an     *)
(* issuer, which the contract can read back, or a role, which it cannot.   *)
(* The worker takes one row at a time and needs no lease; batches and      *)
(* leases are in StellarOutbox.  Restoring archived entries is left out.   *)
(***************************************************************************)
EXTENDS OperationPhases, Integers, Sequences, FiniteSets

CONSTANTS
  Links,       \* issuers the operator may be linked to
  RoleNames,   \* contract roles the operator may hold
  Plans,       \* operation lists a request may carry
  Requests,    \* HTTP requests in progress
  Workers,     \* the StellarWorker, or no worker
  MaxAttempts, \* LEAST(options.maxAttempts, max_attempts)
  MaxInFlight, \* bound: callers active at the same time
  MaxTx,       \* bound: signed transactions
  MaxCrashes   \* bound: crashes of a request or the worker

Targets == Links \cup RoleNames
Ops     == [target : Targets, to : {"on", "off"}]
Absent  == "absent"   \* the phase of a row that does not exist yet
NoHash  == 0

ASSUME ProvisionAssumption ==
  /\ Links \cap RoleNames = {}
  /\ Plans \subseteq Seq(Ops) \ {<<>>}
  /\ Requests \cap Workers = {}
  /\ MaxAttempts \in Nat \ {0} /\ MaxInFlight \in Nat /\ MaxTx \in Nat /\ MaxCrashes \in Nat

VARIABLES
  row,        \* the admin_provision rows of stellar_operations
  tx,         \* signed transactions of the admin account, by hash
  accountSeq, \* its last used sequence number
  value,      \* what the contracts hold for each target
  table,      \* issuer_operators
  call,       \* each request: where it is and what it holds
  job,        \* the worker: where it is and its copy of a row
  crashes     \* crashes so far

vars == <<row, tx, accountSeq, value, table, call, job, crashes>>
chain == <<tx, accountSeq, value>>

Row == [phase : Phases \cup {Absent}, hash : 0..MaxTx,
        attempts : Nat, due : BOOLEAN]
Blank == [phase |-> Absent, hash |-> NoHash, attempts |-> 0, due |-> TRUE]

Tx == [op : Ops, seq : Nat, state : {"pending", "success", "failed", "gone"}]

CallSteps == {"idle", "find", "create", "saveStart", "simulate", "submit",
              "saveHash", "poll", "readback", "saveResult", "saveFailed", "sync"}
JobSteps  == {"idle", "claimed", "save", "poll", "readback", "saveResult",
              "handler", "saveHandler"}

\* todo starts with the operation in hand; fresh while execute's try block
\* covers the call; links are the confirmed links the route will copy.
IdleCall == [at |-> "idle", todo |-> <<>>, links |-> <<>>, mem |-> Blank,
             fresh |-> FALSE, seq |-> 0]
IdleJob  == [at |-> "idle", ops |-> {}, mem |-> Blank]

TypeOK ==
  /\ row \in [Ops -> Row]
  /\ tx \in Seq(Tx) /\ Len(tx) <= MaxTx
  /\ accountSeq \in Nat
  /\ value \in [Targets -> {"on", "off"}]
  /\ table \in [Links -> {"on", "off"}]
  /\ \A r \in Requests :
       /\ call[r].at \in CallSteps
       /\ call[r].todo \in Seq(Ops) /\ call[r].links \in Seq(Ops)
       /\ call[r].mem \in Row /\ call[r].seq \in Nat
       /\ call[r].at \notin {"idle", "sync"} => call[r].todo # <<>>
  /\ \A w \in Workers :
       /\ job[w].at \in JobSteps /\ job[w].mem \in Row
       /\ job[w].ops \subseteq Ops
       /\ Cardinality(job[w].ops) = (IF job[w].at = "idle" THEN 0 ELSE 1)
  /\ crashes \in 0..MaxCrashes

Init ==
  /\ row = [o \in Ops |-> Blank]
  /\ tx = <<>> /\ accountSeq = 0
  /\ value = [t \in Targets |-> "off"]
  /\ table = [l \in Links |-> "off"]
  /\ call = [r \in Requests |-> IdleCall]
  /\ job = [w \in Workers |-> IdleJob]
  /\ crashes = 0

\* The bound on concurrency: a caller starts only when a slot is free.
HasSlot ==
  Cardinality({r \in Requests : call[r].at # "idle"})
    + Cardinality({w \in Workers : job[w].at # "idle"}) < MaxInFlight

------------------------------------------------------------------------------
(* Moving a request.                                                       *)

Op(r) == Head(call[r].todo)

Go(r, s, m) == call' = [call EXCEPT ![r].at = s, ![r].mem = m, ![r].seq = 0]

\* An exception inside execute's try block is saved as the verdict; in
\* recover it just leaves the request.
Throw(r) ==
  IF call[r].fresh
    THEN Go(r, "saveFailed", [call[r].mem EXCEPT !.phase = "failed_terminal"])
    ELSE call' = [call EXCEPT ![r] = IdleCall]

\* The result of one operation; the route reads the results when all are in.
AnswerEarly(r, phase) ==                                           \* mutant
  call' = [call EXCEPT ![r].at = IF call[r].todo = <<>> THEN "sync" ELSE "find",
                       ![r].todo = Tail(@), ![r].mem = Blank]
AnswerAll(r, phase) ==                                             \* mutant
  call' = [call EXCEPT
    ![r].at = IF Len(call[r].todo) = 1 THEN "sync" ELSE "find",
    ![r].todo = Tail(@),
    ![r].mem = Blank,
    ![r].links = IF Op(r).target \in Links THEN Append(@, Op(r)) ELSE @]
Answer(r, phase) ==
  call' = [call EXCEPT
    ![r].at = IF Len(call[r].todo) = 1 THEN "sync" ELSE "find",
    ![r].todo = Tail(@),
    ![r].mem = Blank,
    ![r].links = IF phase = "confirmed" /\ Op(r).target \in Links
                   THEN Append(@, Op(r)) ELSE @]

Save(o, m) == row' = [row EXCEPT ![o] = m]

Begin(r) ==
  /\ call[r].at = "idle" /\ HasSlot
  /\ \E p \in Plans :
       call' = [call EXCEPT ![r] = [IdleCall EXCEPT !.at = "find", !.todo = p]]
  /\ UNCHANGED <<row, chain, table, job, crashes>>

\* Both assertTransitions of recover: a failed_retryable row passes through
\* 'submitted' on its way to 'confirming'.
CanRecover(phase) ==
  CanTransition(IF phase = "failed_retryable" THEN "submitted" ELSE phase,
                "confirming")

\* findByIdempotencyKey: a verdict is returned as it is; anything else is
\* recovered, from the stored hash if there is one.
RecoverAlways(r) == "simulate"                                     \* mutant
RecoverFrom(r) == IF row[Op(r)].hash = NoHash THEN "simulate" ELSE "saveHash"
Find(r) ==
  /\ call[r].at = "find"
  /\ row[Op(r)].attempts <= MaxAttempts   \* bound on retries
  /\ LET old == row[Op(r)] IN
     CASE old.phase = Absent -> Go(r, "create", Blank)
       [] old.phase \in Terminal -> Answer(r, old.phase)
       [] old.phase \notin Terminal \cup {Absent} ->
            IF CanRecover(old.phase)
              THEN call' = [call EXCEPT ![r].at = RecoverFrom(r),
                             ![r].mem = [old EXCEPT !.phase = "confirming"],
                             ![r].fresh = FALSE]
              ELSE call' = [call EXCEPT ![r] = IdleCall]
  /\ UNCHANGED <<row, chain, table, job, crashes>>

\* The insert of a second request for the same key fails.
Create(r) ==
  /\ call[r].at = "create"
  /\ IF row[Op(r)].phase # Absent
       THEN /\ call' = [call EXCEPT ![r] = IdleCall]
            /\ UNCHANGED row
       ELSE LET new == [Blank EXCEPT !.phase = "submitted"] IN
            /\ Save(Op(r), new)
            /\ call' = [call EXCEPT ![r].at = "saveStart", ![r].fresh = TRUE,
                          ![r].mem = [new EXCEPT !.phase = "confirming"]]
  /\ UNCHANGED <<chain, table, job, crashes>>

SaveStart(r) ==
  /\ call[r].at = "saveStart"
  /\ Save(Op(r), call[r].mem) /\ Go(r, "simulate", call[r].mem)
  /\ UNCHANGED <<chain, table, job, crashes>>

\* Revoking a role that is not held is a contract error; links are idempotent.
Executable(o) ==
  o.target \in RoleNames /\ o.to = "off" => value[o.target] = "on"

\* The simulation reads the sequence number the transaction will carry.
Simulate(r) ==
  /\ call[r].at = "simulate"
  /\ \/ /\ Executable(Op(r))
        /\ call' = [call EXCEPT ![r].at = "submit", ![r].seq = accountSeq + 1]
     \/ Throw(r)
  /\ UNCHANGED <<row, chain, table, job, crashes>>

\* transport.submit: the network queues a transaction whose number is not
\* spent, and may drop it again at once; its answer may be lost.
Submit(r) ==
  /\ call[r].at = "submit"
  /\ \/ /\ Throw(r)
        /\ UNCHANGED tx
     \/ /\ Len(tx) < MaxTx
        /\ call[r].seq > accountSeq
        /\ tx' = Append(tx, [op |-> Op(r), seq |-> call[r].seq,
                             state |-> "pending"])
        /\ \/ Go(r, "saveHash", [call[r].mem EXCEPT !.hash = Len(tx) + 1])
           \/ Throw(r)
  /\ UNCHANGED <<row, accountSeq, value, table, job, crashes>>

SaveHash(r) ==
  /\ call[r].at = "saveHash"
  /\ Save(Op(r), call[r].mem) /\ Go(r, "poll", call[r].mem)
  /\ UNCHANGED <<chain, table, job, crashes>>

\* pollTransaction and finalize: a role has no readback, so the ledger's
\* word is the verdict.
PollHopeful(r, m) ==                                               \* mutant
  \/ Go(r, "saveResult", [m EXCEPT !.phase = "confirmed"])
  \/ Throw(r)
PollOutcome(r, m) ==
  \/ Go(r, "saveResult", [m EXCEPT !.phase = "unknown"])
  \/ /\ tx[m.hash].state = "failed"
     /\ Go(r, "saveResult", [m EXCEPT !.phase = "failed_terminal"])
  \/ /\ tx[m.hash].state = "success"
     /\ IF Op(r).target \in Links
          THEN Go(r, "readback", m)
          ELSE Go(r, "saveResult", [m EXCEPT !.phase = "confirmed"])
  \/ Throw(r)
Poll(r) ==
  /\ call[r].at = "poll"
  /\ PollOutcome(r, call[r].mem)
  /\ UNCHANGED <<row, chain, table, job, crashes>>

\* verifyReadback; a readback that cannot be simulated is a mismatch.
Readback(r) ==
  /\ call[r].at = "readback"
  /\ \/ /\ value[Op(r).target] = Op(r).to
        /\ Go(r, "saveResult", [call[r].mem EXCEPT !.phase = "confirmed"])
     \/ Go(r, "saveResult", [call[r].mem EXCEPT !.phase = "failed_terminal"])
     \/ Throw(r)
  /\ UNCHANGED <<row, chain, table, job, crashes>>

SaveResult(r) ==
  /\ call[r].at = "saveResult"
  /\ Save(Op(r), call[r].mem) /\ Answer(r, call[r].mem.phase)
  /\ UNCHANGED <<chain, table, job, crashes>>

\* The catch block saves its verdict and throws on: the route ends without
\* looking at the results of the operations before this one.
SaveFailed(r) ==
  /\ call[r].at = "saveFailed"
  /\ Save(Op(r), call[r].mem)
  /\ call' = [call EXCEPT ![r] = IdleCall]
  /\ UNCHANGED <<chain, table, job, crashes>>

\* A save inside the try block fails and reaches the catch block.
SaveFails(r) ==
  /\ call[r].at \in {"saveStart", "saveHash", "saveResult"} /\ call[r].fresh
  /\ Throw(r)
  /\ UNCHANGED <<row, chain, table, job, crashes>>

\* The loop of the route over the results, one statement per confirmed link.
Synced(r) ==
  LET o == Head(call[r].links) IN [table EXCEPT ![o.target] = o.to]
Sync(r) ==
  /\ call[r].at = "sync"
  /\ IF call[r].links = <<>>
       THEN /\ call' = [call EXCEPT ![r] = IdleCall]
            /\ UNCHANGED table
       ELSE /\ table' = Synced(r)
            /\ call' = [call EXCEPT ![r].links = Tail(@)]
  /\ UNCHANGED <<row, chain, job, crashes>>

------------------------------------------------------------------------------
(* The worker on these rows: reconcile, or its catch block.                *)

JobOp(w) == CHOOSE o \in job[w].ops : TRUE

Turn(w, s, m) == job' = [job EXCEPT ![w].at = s, ![w].mem = m]

Rest(w) == job' = [job EXCEPT ![w] = IdleJob]

ScheduleRetry(m) == [m EXCEPT !.attempts = @ + 1, !.due = FALSE]

Claim(w) ==
  /\ job[w].at = "idle" /\ HasSlot
  /\ \E o \in Ops :
       /\ row[o].phase \in ClaimPhases /\ row[o].due
       /\ row[o].attempts < MaxAttempts
       /\ job' = [job EXCEPT ![w] = [IdleJob EXCEPT !.at = "claimed", !.ops = {o}]]
  /\ UNCHANGED <<row, chain, table, call, crashes>>

Process(w) ==
  /\ job[w].at = "claimed"
  /\ LET r == row[JobOp(w)] IN
     IF r.phase \in Terminal THEN Rest(w)
     ELSE IF r.hash # NoHash /\ CanTransition(r.phase, "confirming")
            THEN Turn(w, "save", [r EXCEPT !.phase = "confirming"])
            ELSE Turn(w, "handler", Blank)
  /\ UNCHANGED <<row, chain, table, call, crashes>>

JobSave(w) ==
  /\ job[w].at \in {"save", "saveResult", "saveHandler"}
  /\ Save(JobOp(w), job[w].mem)
  /\ IF job[w].at = "save" THEN Turn(w, "poll", job[w].mem) ELSE Rest(w)
  /\ UNCHANGED <<chain, table, call, crashes>>

JobPoll(w) ==
  /\ job[w].at = "poll"
  /\ LET m == job[w].mem IN
     \/ Turn(w, "saveResult", [ScheduleRetry(m) EXCEPT !.phase = "unknown"])
     \/ /\ tx[m.hash].state = "failed"
        /\ Turn(w, "saveResult",
             [m EXCEPT !.phase = "failed_terminal", !.due = TRUE])
     \/ /\ tx[m.hash].state = "success"
        /\ Turn(w, "readback", m)
     \/ Turn(w, "handler", Blank)
  /\ UNCHANGED <<row, chain, table, call, crashes>>

\* readbackMatches answers false for this kind, whatever the contract holds.
JobReadback(w) ==
  /\ job[w].at = "readback"
  /\ \/ Turn(w, "saveResult", [job[w].mem EXCEPT !.phase = "failed_terminal"])
     \/ Turn(w, "handler", Blank)
  /\ UNCHANGED <<row, chain, table, call, crashes>>

Handle(w) ==
  /\ job[w].at = "handler"
  /\ LET r == row[JobOp(w)] IN
     IF r.phase \in Terminal THEN Rest(w)
     ELSE Turn(w, "saveHandler",
            IF r.attempts + 1 > MaxAttempts
              THEN [r EXCEPT !.attempts = @ + 1, !.phase = "failed_terminal"]
              ELSE [ScheduleRetry(r) EXCEPT !.phase = "failed_retryable"])
  /\ UNCHANGED <<row, chain, table, call, crashes>>

------------------------------------------------------------------------------
(* Time, crashes and the network.                                          *)

BackoffElapses(o) ==
  /\ ~row[o].due
  /\ row' = [row EXCEPT ![o].due = TRUE]
  /\ UNCHANGED <<chain, table, call, job, crashes>>

Crash ==
  /\ crashes < MaxCrashes
  /\ crashes' = crashes + 1
  /\ \/ /\ \E r \in Requests : /\ call[r].at # "idle"
                               /\ call' = [call EXCEPT ![r] = IdleCall]
        /\ UNCHANGED job
     \/ /\ \E w \in Workers : job[w].at # "idle" /\ Rest(w)
        /\ UNCHANGED call
  /\ UNCHANGED <<row, chain, table>>

LedgerIncludes(n) ==
  /\ tx[n].state = "pending" /\ tx[n].seq = accountSeq + 1
  /\ accountSeq' = accountSeq + 1
  /\ LET o == tx[n].op IN
     \/ /\ Executable(o)
        /\ tx' = [tx EXCEPT ![n].state = "success"]
        /\ value' = [value EXCEPT ![o.target] = o.to]
     \/ /\ tx' = [tx EXCEPT ![n].state = "failed"]
        /\ UNCHANGED value
  /\ UNCHANGED <<row, table, call, job, crashes>>

NetworkDrops(n) ==
  /\ tx[n].state = "pending"
  /\ tx' = [tx EXCEPT ![n].state = "gone"]
  /\ UNCHANGED <<row, accountSeq, value, table, call, job, crashes>>

RequestStep(r) ==
  \/ Begin(r) \/ Find(r) \/ Create(r) \/ SaveStart(r) \/ Simulate(r)
  \/ Submit(r) \/ SaveHash(r) \/ Poll(r) \/ Readback(r) \/ SaveResult(r)
  \/ SaveFailed(r) \/ SaveFails(r) \/ Sync(r)

WorkerStep(w) ==
  \/ Claim(w) \/ Process(w) \/ JobSave(w) \/ JobPoll(w) \/ JobReadback(w)
  \/ Handle(w)

Next ==
  \/ \E r \in Requests : RequestStep(r)
  \/ \E w \in Workers : WorkerStep(w)
  \/ \E o \in Ops : BackoffElapses(o)
  \/ \E n \in 1..Len(tx) : LedgerIncludes(n) \/ NetworkDrops(n)
  \/ Crash

Spec == Init /\ [][Next]_vars

------------------------------------------------------------------------------
(* Properties.                                                             *)

Succeeded(o) == \E n \in 1..Len(tx) : tx[n].op = o /\ tx[n].state = "success"

\* Whatever requests and the worker race over a row, a confirmed operation
\* names a transaction of its own that the ledger included with success.
ConfirmedTookEffect ==
  \A o \in Ops : row[o].phase = "confirmed" =>
    /\ row[o].hash # NoHash
    /\ tx[row[o].hash].op = o /\ tx[row[o].hash].state = "success"

\* The table never moves ahead of the chain: an operator it lists was linked
\* by a transaction, and one it forgot was unlinked by one.
TableBehindChain ==
  /\ \A l \in Links : table[l] = "on" => Succeeded([target |-> l, to |-> "on"])
  /\ \A r \in Requests : \A i \in DOMAIN call[r].links : Succeeded(call[r].links[i])

\* The steps at which a request, or the worker, holds a copy of a row.
Holding    == CallSteps \ {"idle", "find", "create", "sync"}
JobHolding == {"save", "poll", "readback", "saveResult", "saveHandler"}

\* The hash of operation o is in its row and in every copy that may still be
\* written back to it.
Hashed(o) ==
  /\ row[o].hash # NoHash
  /\ \A r \in Requests :
       call[r].at \in Holding /\ Op(r) = o => call[r].mem.hash # NoHash
  /\ \A w \in Workers :
       job[w].at \in JobHolding /\ JobOp(w) = o => job[w].mem.hash # NoHash

\* "Once the hash is persisted we can safely re-poll": when a hash is stored
\* and the requests that read the row without it are through, no request,
\* worker, retry or crash loses it again and the operation is never signed a
\* second time.
RepollsKnownHash ==
  [][\A o \in Ops : Hashed(o) =>
       /\ Hashed(o)'
       /\ \A n \in 1..Len(tx') : n > Len(tx) => tx'[n].op # o]_vars

Quiet ==
  /\ \A r \in Requests : call[r].at = "idle"
  /\ \A o \in Ops : row[o].phase \in {Absent, "confirmed"}

\* "Keep the off-chain issuer_operators table in sync with on-chain links":
\* when every request has returned and every operation is confirmed, the
\* table lists exactly the links the contract holds.
MirrorFollowsChain == Quiet => \A l \in Links : table[l] = value[l]
==============================================================================
