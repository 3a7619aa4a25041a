------------------------ MODULE AdminProvisionProofs ------------------------
(***************************************************************************)
(* Proofs about AdminProvision, for any number of links, roles, requests,  *)
(* workers and transactions.  Rows are overwritten by copies that requests *)
(* and workers took earlier, so the invariant speaks of the copies: the    *)
(* hash in a row or in a copy is of a transaction of that operation, and   *)
(* a copy that says confirmed, or an answer the route will put into the    *)
(* table, has a successful transaction behind it.  The ledger takes no     *)
(* transaction back (Grows), so what a copy relies on stays.               *)
(***************************************************************************)
EXTENDS AdminProvision, SequenceTheorems, FiniteSetTheorems, TLAPS

Call == [at : CallSteps, todo : Seq(Ops), links : Seq(Ops), mem : Row,
         fresh : BOOLEAN, seq : Nat]
Job  == [at : JobSteps, ops : SUBSET Ops, mem : Row]

\* A ledger executed operation o, as far as the transactions t tell.
Took(t, o) == \E n \in 1..Len(t) : t[n].op = o /\ t[n].state = "success"

\* What makes m fit to be the row of operation o.
Good(t, o, m) ==
  /\ m.hash # NoHash => m.hash \in 1..Len(t) /\ t[m.hash].op = o
  /\ m.phase = "confirmed" => m.hash # NoHash /\ t[m.hash].state = "success"

Unsent  == {"saveStart", "simulate", "submit"}
Sent    == {"saveHash", "poll", "readback"}
Verdict == {"saveResult", "saveFailed"}

\* A request k, at each step with a copy: before the transaction is sent it
\* has no hash, afterwards it has one.
CallGood(t, k) ==
  /\ k.at \notin {"idle", "sync"} => k.todo # <<>>
  /\ k.at \in Unsent \cup Sent \cup Verdict => Good(t, Head(k.todo), k.mem)
  /\ k.at \in Unsent \cup Sent => k.mem.phase = "confirming"
  /\ k.at \in Unsent => k.mem.hash = NoHash
  /\ k.at \in Sent => k.mem.hash # NoHash
  /\ k.at = "readback" => t[k.mem.hash].state = "success"
  /\ \A i \in DOMAIN k.links : Took(t, k.links[i])

\* A worker j has one row in hand, and a copy of it from the save on.
JobGood(t, j) ==
  /\ j.at = "idle" => j.ops = {}
  /\ j.at # "idle" => \E o \in Ops : j.ops = {o}
  /\ j.at \in {"save", "poll", "readback", "saveResult", "saveHandler"} =>
       Good(t, CHOOSE o \in j.ops : TRUE, j.mem)
  /\ j.at \in {"save", "poll", "readback"} => j.mem.phase = "confirming"

StateTypes ==
  /\ row \in [Ops -> Row]
  /\ tx \in Seq(Tx) /\ Len(tx) <= MaxTx
  /\ accountSeq \in Nat
  /\ value \in [Targets -> {"on", "off"}]
  /\ table \in [Links -> {"on", "off"}]
  /\ call \in [Requests -> Call]
  /\ job \in [Workers -> Job]
  /\ crashes \in 0..MaxCrashes

RowsGood  == \A o \in Ops : Good(tx, o, row[o])
CallsGood == \A r \in Requests : CallGood(tx, call[r])
JobsGood  == \A w \in Workers : JobGood(tx, job[w])
TableGood ==
  \A l \in Links : table[l] = "on" => Took(tx, [target |-> l, to |-> "on"])

IInv == StateTypes /\ RowsGood /\ CallsGood /\ JobsGood /\ TableGood

\* The transactions only grow: each keeps its operation, and its success.
Grows ==
  /\ Len(tx) <= Len(tx')
  /\ \A n \in 1..Len(tx) :
       /\ tx'[n].op = tx[n].op
       /\ tx[n].state = "success" => tx'[n].state = "success"

------------------------------------------------------------------------------
(* Types and the effect of the helpers.                                    *)

\* A row that does not exist yet has no transaction.
LEMMA BlankGood ==
  /\ Blank \in Row /\ Blank.phase = Absent /\ Blank.hash = NoHash
  /\ Blank.attempts = 0
  BY ProvisionAssumption DEF Blank, Row, NoHash

\* A row with another phase, and a retry, are rows of the same transaction.
LEMMA RowUpdates ==
  ASSUME NEW m \in Row, NEW ph \in Phases
  PROVE  /\ [m EXCEPT !.phase = ph] \in Row
         /\ [m EXCEPT !.phase = ph].phase = ph
         /\ [m EXCEPT !.phase = ph].hash = m.hash
         /\ [m EXCEPT !.phase = ph, !.due = TRUE] \in Row
         /\ [m EXCEPT !.phase = ph, !.due = TRUE].phase = ph
         /\ [m EXCEPT !.phase = ph, !.due = TRUE].hash = m.hash
         /\ [m EXCEPT !.attempts = @ + 1, !.phase = ph] \in Row
         /\ [m EXCEPT !.attempts = @ + 1, !.phase = ph].phase = ph
         /\ [m EXCEPT !.attempts = @ + 1, !.phase = ph].hash = m.hash
         /\ [ScheduleRetry(m) EXCEPT !.phase = ph] \in Row
         /\ [ScheduleRetry(m) EXCEPT !.phase = ph].phase = ph
         /\ [ScheduleRetry(m) EXCEPT !.phase = ph].hash = m.hash
<1>1. m.attempts + 1 \in Nat
  BY DEF Row
<1>2. /\ [m EXCEPT !.phase = ph] \in Row
      /\ [m EXCEPT !.phase = ph].phase = ph
      /\ [m EXCEPT !.phase = ph].hash = m.hash
  BY DEF Row
<1>3. /\ [m EXCEPT !.phase = ph, !.due = TRUE] \in Row
      /\ [m EXCEPT !.phase = ph, !.due = TRUE].phase = ph
      /\ [m EXCEPT !.phase = ph, !.due = TRUE].hash = m.hash
  BY DEF Row
<1>4. /\ [m EXCEPT !.attempts = @ + 1, !.phase = ph] \in Row
      /\ [m EXCEPT !.attempts = @ + 1, !.phase = ph].phase = ph
      /\ [m EXCEPT !.attempts = @ + 1, !.phase = ph].hash = m.hash
  BY <1>1 DEF Row
<1>5. ScheduleRetry(m) \in Row /\ ScheduleRetry(m).hash = m.hash
  BY <1>1 DEF Row, ScheduleRetry
<1>6. /\ [ScheduleRetry(m) EXCEPT !.phase = ph] \in Row
      /\ [ScheduleRetry(m) EXCEPT !.phase = ph].phase = ph
      /\ [ScheduleRetry(m) EXCEPT !.phase = ph].hash = m.hash
  BY <1>5 DEF Row
<1> QED
  BY <1>2, <1>3, <1>4, <1>6

\* A copy with no verdict of success is fit wherever its hash is.
LEMMA GoodOpen ==
  ASSUME NEW t, NEW o, NEW m, NEW q, Good(t, o, m), q.hash = m.hash,
         q.phase # "confirmed"
  PROVE  Good(t, o, q)
  BY DEF Good

\* Where a request with operations to do works.
LEMMA HeadType ==
  ASSUME StateTypes, CallsGood, NEW r \in Requests,
         call[r].at \notin {"idle", "sync"}
  PROVE  /\ call[r] \in Call
         /\ call[r].todo \in Seq(Ops) /\ call[r].todo # <<>>
         /\ Op(r) \in Ops /\ Op(r) = Head(call[r].todo)
         /\ Tail(call[r].todo) \in Seq(Ops)
<1>1. call[r] \in Call /\ call[r].todo \in Seq(Ops) /\ call[r].todo # <<>>
  BY DEF StateTypes, CallsGood, CallGood, Call
<1>2. Head(call[r].todo) \in Ops /\ Tail(call[r].todo) \in Seq(Ops)
  BY <1>1
<1> QED
  BY <1>1, <1>2 DEF Op

\* The row a busy worker has in hand.
LEMMA JobRow ==
  ASSUME StateTypes, JobsGood, NEW w \in Workers, job[w].at # "idle"
  PROVE  /\ job[w] \in Job /\ JobOp(w) \in Ops
         /\ JobOp(w) = CHOOSE o \in job[w].ops : TRUE
  BY DEF StateTypes, JobsGood, JobGood, JobOp

------------------------------------------------------------------------------
(* What stays true while the transactions grow.                            *)

\* A success, a fit row and sound callers stay so.
LEMMA TookStays ==
  ASSUME StateTypes, Grows, NEW o, Took(tx, o)
  PROVE  Took(tx', o)
<1>1. PICK n \in 1..Len(tx) : tx[n].op = o /\ tx[n].state = "success"
  BY DEF Took
<1>2. Len(tx) \in Nat /\ tx' = tx' /\ Len(tx) <= Len(tx')
  BY DEF StateTypes, Grows
<1>3. n \in 1..Len(tx')
  BY <1>2
<1> QED
  BY <1>1, <1>3 DEF Took, Grows

LEMMA GoodStays ==
  ASSUME StateTypes, Grows, NEW o, NEW m, Good(tx, o, m)
  PROVE  Good(tx', o, m)
<1>1. Len(tx) \in Nat /\ Len(tx) <= Len(tx')
  BY DEF StateTypes, Grows
<1>2. CASE m.hash = NoHash
  BY <1>2 DEF Good
<1>3. CASE m.hash # NoHash
  BY <1>1, <1>3 DEF Good, Grows
<1> QED
  BY <1>2, <1>3

LEMMA CallStays ==
  ASSUME StateTypes, Grows, NEW k, CallGood(tx, k)
  PROVE  CallGood(tx', k)
<1>1. \A i \in DOMAIN k.links : Took(tx', k.links[i])
  BY TookStays DEF CallGood
<1>2. k.at \in Unsent \cup Sent \cup Verdict => Good(tx', Head(k.todo), k.mem)
  BY GoodStays DEF CallGood
<1>3. k.at = "readback" => tx'[k.mem.hash].state = "success"
  BY DEF CallGood, Good, Grows, Sent
<1> QED
  BY <1>1, <1>2, <1>3 DEF CallGood

LEMMA JobStays ==
  ASSUME StateTypes, Grows, NEW j, JobGood(tx, j)
  PROVE  JobGood(tx', j)
<1>1. j.at \in {"save", "poll", "readback", "saveResult", "saveHandler"} =>
        Good(tx', CHOOSE o \in j.ops : TRUE, j.mem)
  BY GoodStays DEF JobGood
<1> QED
  BY <1>1 DEF JobGood

\* A step that leaves the transactions lets them grow, trivially.
LEMMA NothingGrows ==
  ASSUME StateTypes, UNCHANGED tx
  PROVE  Grows
<1>1. Len(tx) \in Nat
  BY DEF StateTypes
<1> QED
  BY <1>1 DEF Grows

------------------------------------------------------------------------------
(* One step of a request, a worker or a row among all.                     *)

\* A request moves to k and nothing but rows and transactions moves with it.
LEMMA CallMoves ==
  ASSUME IInv, Grows, NEW r \in Requests, NEW k \in Call,
         call' = [call EXCEPT ![r] = k], CallGood(tx', k)
  PROVE  call' \in [Requests -> Call] /\ CallsGood'
<1>1. /\ call' \in [Requests -> Call]
      /\ \A d \in Requests : call'[d] = IF d = r THEN k ELSE call[d]
  BY DEF IInv, StateTypes
<1>2. \A d \in Requests : CallGood(tx', call[d])
  BY CallStays DEF IInv, CallsGood
<1> QED
  BY <1>1, <1>2 DEF CallsGood

\* A worker moves to j.
LEMMA JobMoves ==
  ASSUME IInv, Grows, NEW w \in Workers, NEW j \in Job,
         job' = [job EXCEPT ![w] = j], JobGood(tx', j)
  PROVE  job' \in [Workers -> Job] /\ JobsGood'
<1>1. /\ job' \in [Workers -> Job]
      /\ \A d \in Workers : job'[d] = IF d = w THEN j ELSE job[d]
  BY DEF IInv, StateTypes
<1>2. \A d \in Workers : JobGood(tx', job[d])
  BY JobStays DEF IInv, JobsGood
<1> QED
  BY <1>1, <1>2 DEF JobsGood

\* What is left when a step moves callers only.
LEMMA OthersKeep ==
  ASSUME IInv, Grows
  PROVE  /\ (UNCHANGED call) => call' \in [Requests -> Call] /\ CallsGood'
         /\ (UNCHANGED job) => job' \in [Workers -> Job] /\ JobsGood'
         /\ (UNCHANGED row) => row' \in [Ops -> Row] /\ RowsGood'
         /\ (UNCHANGED table) =>
              table' \in [Links -> {"on", "off"}] /\ TableGood'
<1>1. (UNCHANGED call) => call' \in [Requests -> Call] /\ CallsGood'
  BY CallStays DEF IInv, StateTypes, CallsGood
<1>2. (UNCHANGED job) => job' \in [Workers -> Job] /\ JobsGood'
  BY JobStays DEF IInv, StateTypes, JobsGood
<1>3. (UNCHANGED row) => row' \in [Ops -> Row] /\ RowsGood'
  BY GoodStays DEF IInv, StateTypes, RowsGood
<1>4. (UNCHANGED table) =>
        table' \in [Links -> {"on", "off"}] /\ TableGood'
  BY TookStays DEF IInv, StateTypes, TableGood
<1> QED
  BY <1>1, <1>2, <1>3, <1>4

\* A fit copy is written back.
LEMMA SaveKeeps ==
  ASSUME IInv, Grows, NEW o \in Ops, NEW m \in Row, Save(o, m),
         Good(tx', o, m)
  PROVE  row' \in [Ops -> Row] /\ RowsGood'
<1>1. /\ row' \in [Ops -> Row]
      /\ \A u \in Ops : row'[u] = IF u = o THEN m ELSE row[u]
  BY DEF IInv, StateTypes, Save
<1>2. \A u \in Ops : Good(tx', u, row[u])
  BY GoodStays DEF IInv, RowsGood
<1> QED
  BY <1>1, <1>2 DEF RowsGood

\* A request step that leaves the transactions, the table and the worker.
LEMMA RequestKeeps ==
  ASSUME IInv, UNCHANGED <<chain, job, crashes>>,
         call' \in [Requests -> Call], CallsGood',
         row' \in [Ops -> Row], RowsGood',
         table' \in [Links -> {"on", "off"}], TableGood'
  PROVE  IInv'
<1>1. Grows
  BY NothingGrows DEF chain, IInv
<1> QED
  BY <1>1, OthersKeep DEF IInv, StateTypes, chain

\* A caller that does nothing knows nothing.
LEMMA IdleGood ==
  /\ IdleCall \in Call /\ \A t : CallGood(t, IdleCall)
  /\ IdleJob \in Job /\ \A t : JobGood(t, IdleJob)
<1>1. IdleCall \in Call /\ IdleJob \in Job
  BY BlankGood DEF IdleCall, IdleJob, Call, Job, CallSteps, JobSteps
<1>2. \A t : CallGood(t, IdleCall)
  BY DEF IdleCall, CallGood, Unsent, Sent, Verdict
<1>3. \A t : JobGood(t, IdleJob)
  BY DEF IdleJob, JobGood
<1> QED
  BY <1>1, <1>2, <1>3

\* The forms in which a request moves.
LEMMA GoForm ==
  ASSUME StateTypes, NEW r \in Requests, NEW s \in CallSteps, NEW m \in Row,
         Go(r, s, m)
  PROVE  \E k \in Call :
           /\ call' = [call EXCEPT ![r] = k]
           /\ k.at = s /\ k.mem = m /\ k.todo = call[r].todo
           /\ k.links = call[r].links /\ k.fresh = call[r].fresh
<1> DEFINE k == [call[r] EXCEPT !.at = s, !.mem = m, !.seq = 0]
<1>1. call[r] \in Call
  BY DEF StateTypes
<1>2. /\ k \in Call /\ k.at = s /\ k.mem = m /\ k.todo = call[r].todo
      /\ k.links = call[r].links /\ k.fresh = call[r].fresh
  BY <1>1 DEF Call
<1>3. call' = [call EXCEPT ![r] = k]
  BY DEF Go, StateTypes
<1> QED
  BY <1>2, <1>3

\* Going on to s with copy m keeps the request good.
LEMMA GoKeeps ==
  ASSUME IInv, Grows, NEW r \in Requests,
         call[r].at \notin {"idle", "sync"},
         NEW s \in Unsent \cup Sent \cup Verdict, NEW m \in Row, Go(r, s, m),
         Good(tx', Op(r), m),
         s \in Unsent \cup Sent => m.phase = "confirming",
         s \in Unsent => m.hash = NoHash,
         s \in Sent => m.hash # NoHash,
         s = "readback" => tx'[m.hash].state = "success"
  PROVE  call' \in [Requests -> Call] /\ CallsGood'
<1>1. s \in CallSteps
  BY DEF Unsent, Sent, Verdict, CallSteps
<1>2. PICK k \in Call :
        /\ call' = [call EXCEPT ![r] = k]
        /\ k.at = s /\ k.mem = m /\ k.todo = call[r].todo
        /\ k.links = call[r].links
  BY <1>1, GoForm DEF IInv
<1>3. call[r].todo # <<>> /\ Op(r) = Head(call[r].todo)
  BY HeadType DEF IInv
<1>4. \A i \in DOMAIN call[r].links : Took(tx', call[r].links[i])
  BY TookStays DEF IInv, CallsGood, CallGood
<1>5. CallGood(tx', k)
  BY <1>2, <1>3, <1>4 DEF CallGood
<1> QED
  BY <1>2, <1>5, CallMoves

\* An exception leaves the request, or goes to the catch block.
LEMMA ThrowKeeps ==
  ASSUME IInv, Grows, NEW r \in Requests,
         call[r].at \in Unsent \cup Sent \cup {"saveResult"}, Throw(r)
  PROVE  call' \in [Requests -> Call] /\ CallsGood'
<1>1. CASE call' = [call EXCEPT ![r] = IdleCall]
  BY <1>1, IdleGood, CallMoves
<1>2. CASE Go(r, "saveFailed", [call[r].mem EXCEPT !.phase = "failed_terminal"])
  <2> DEFINE m == [call[r].mem EXCEPT !.phase = "failed_terminal"]
  <2>1. /\ call[r].at \notin {"idle", "sync"}
        /\ call[r].mem \in Row
        /\ Good(tx, Op(r), call[r].mem)
    BY DEF IInv, StateTypes, Call, CallsGood, CallGood, Op, Unsent, Sent, Verdict
  <2>2. m \in Row /\ m.phase = "failed_terminal" /\ m.hash = call[r].mem.hash
    BY <2>1, RowUpdates, ZenonT(60) DEF Phases
  <2>3. Good(tx', Op(r), call[r].mem)
    BY <2>1, GoodStays DEF IInv
  <2>4. Good(tx', Op(r), m)
    BY <2>2, <2>3, GoodOpen
  <2> QED
    BY <1>2, <2>1, <2>2, <2>4, GoKeeps DEF Unsent, Sent, Verdict
<1> QED
  BY <1>1, <1>2 DEF Throw

\* An answer is recorded: a confirmed link is one the ledger executed.
LEMMA AnswerKeeps ==
  ASSUME IInv, Grows, NEW r \in Requests, NEW phase,
         call[r].at \notin {"idle", "sync"}, Answer(r, phase),
         phase = "confirmed" => Took(tx', Op(r))
  PROVE  call' \in [Requests -> Call] /\ CallsGood'
<1>1. /\ call[r] \in Call /\ Op(r) \in Ops
      /\ call[r].todo \in Seq(Ops) /\ call[r].todo # <<>>
      /\ Tail(call[r].todo) \in Seq(Ops)
      /\ call[r].links \in Seq(Ops)
  BY HeadType DEF IInv, Call
<1> DEFINE s == IF Len(call[r].todo) = 1 THEN "sync" ELSE "find"
           added == IF phase = "confirmed" /\ Op(r).target \in Links
                      THEN Append(call[r].links, Op(r)) ELSE call[r].links
           k == [call[r] EXCEPT !.at = s, !.todo = Tail(call[r].todo),
                                !.mem = Blank, !.links = added]
<1>2. call' = [call EXCEPT ![r] = k]
  BY DEF Answer, IInv, StateTypes
<1>3. added \in Seq(Ops)
  BY <1>1
<1>4. s \in CallSteps
  BY DEF CallSteps
<1> HIDE DEF s, added
<1>5. /\ k \in Call /\ k.at = s /\ k.todo = Tail(call[r].todo)
      /\ k.links = added
  BY <1>1, <1>3, <1>4, BlankGood DEF Call
<1>6. \A i \in DOMAIN added : Took(tx', added[i])
  <2>1. \A i \in DOMAIN call[r].links : Took(tx', call[r].links[i])
    BY TookStays DEF IInv, CallsGood, CallGood
  <2>2. CASE added = call[r].links
    BY <2>1, <2>2
  <2>3. CASE added = Append(call[r].links, Op(r)) /\ phase = "confirmed"
    <3>1. /\ Len(added) = Len(call[r].links) + 1
          /\ \A i \in 1..Len(call[r].links) : added[i] = call[r].links[i]
          /\ added[Len(call[r].links) + 1] = Op(r)
      BY <1>1, <2>3, AppendProperties
    <3>2. /\ DOMAIN added = 1..Len(added) /\ Len(call[r].links) \in Nat
          /\ DOMAIN call[r].links = 1..Len(call[r].links)
      BY <1>1, <1>3
    <3>3. \A i \in DOMAIN added :
            \/ i \in DOMAIN call[r].links /\ added[i] = call[r].links[i]
            \/ added[i] = Op(r)
      BY <3>1, <3>2
    <3> QED
      BY <2>1, <2>3, <3>3
  <2> QED
    BY <2>2, <2>3 DEF added
<1>7. s = "find" => Tail(call[r].todo) # <<>>
  <2>1. s = "find" => Len(call[r].todo) # 1
    BY DEF s
  <2>2. /\ Len(Tail(call[r].todo)) = Len(call[r].todo) - 1
        /\ Len(call[r].todo) \in Nat /\ Len(call[r].todo) # 0
    BY <1>1, HeadTailProperties, EmptySeq
  <2>3. Tail(call[r].todo) = <<>> => Len(Tail(call[r].todo)) = 0
    <3>1. Len(<<>>) = 0
      OBVIOUS
    <3> QED
      BY <3>1, Zenon
  <2> HIDE DEF k
  <2> QED
    BY <2>1, <2>2, <2>3
<1>8. s \in {"find", "sync"}
  BY DEF s
<1>9. CallGood(tx', k)
  BY <1>5, <1>6, <1>7, <1>8 DEF CallGood, Unsent, Sent, Verdict
<1> QED
  BY <1>2, <1>5, <1>9, CallMoves

------------------------------------------------------------------------------
(* The steps of a request.                                                 *)

\* A request starts with one of the lists.
LEMMA BeginInv ==
  ASSUME IInv, NEW r \in Requests, Begin(r)
  PROVE  IInv'
<1>1. UNCHANGED <<row, chain, table, job, crashes>> /\ UNCHANGED tx
  BY DEF Begin, chain
<1>2. Grows
  BY <1>1, NothingGrows DEF IInv
<1>3. PICK p \in Plans :
        call' = [call EXCEPT ![r] = [IdleCall EXCEPT !.at = "find", !.todo = p]]
  BY DEF Begin
<1> DEFINE k == [IdleCall EXCEPT !.at = "find", !.todo = p]
<1>4. p \in Seq(Ops) /\ p # <<>>
  BY ProvisionAssumption
<1>5. k \in Call /\ k.at = "find" /\ k.todo = p /\ k.links = <<>>
  <2>1. IdleCall \in Call /\ IdleCall.links = <<>>
    BY IdleGood DEF IdleCall
  <2> QED
    BY <1>4, <2>1 DEF Call, CallSteps
<1>6. CallGood(tx', k)
  BY <1>4, <1>5 DEF CallGood, Unsent, Sent, Verdict
<1> QED
  BY <1>1, <1>2, <1>3, <1>5, <1>6, CallMoves, OthersKeep, RequestKeeps

\* A verdict is answered, an open row is recovered with or without its hash.
LEMMA FindInv ==
  ASSUME IInv, NEW r \in Requests, Find(r)
  PROVE  IInv'
<1>1. /\ UNCHANGED <<row, chain, table, job, crashes>> /\ UNCHANGED tx
      /\ call[r].at = "find"
  BY DEF Find, chain
<1>2. Grows
  BY <1>1, NothingGrows DEF IInv
<1> DEFINE old == row[Op(r)]
<1>3. /\ Op(r) \in Ops /\ old \in Row /\ Good(tx, Op(r), old)
      /\ call[r] \in Call /\ call[r].todo # <<>>
      /\ Op(r) = Head(call[r].todo)
  BY <1>1, HeadType DEF IInv, StateTypes, RowsGood
<1>4. CASE Go(r, "create", Blank)
  <2>1. PICK k \in Call :
          /\ call' = [call EXCEPT ![r] = k]
          /\ k.at = "create" /\ k.todo = call[r].todo
          /\ k.links = call[r].links
    BY <1>4, BlankGood, GoForm DEF IInv, CallSteps
  <2>2. CallGood(tx', k)
    BY <1>1, <1>3, <2>1 DEF IInv, CallsGood, CallGood, Unsent, Sent, Verdict
  <2> QED
    BY <1>1, <1>2, <2>1, <2>2, CallMoves, OthersKeep, RequestKeeps
<1>5. CASE Answer(r, old.phase)
  <2>1. old.phase = "confirmed" => Took(tx', Op(r))
    BY <1>1, <1>3 DEF Good, Took
  <2>2. call' \in [Requests -> Call] /\ CallsGood'
    BY <1>1, <1>2, <1>5, <2>1, AnswerKeeps
  <2> QED
    BY <1>1, <1>2, <2>2, OthersKeep, RequestKeeps
<1>6. CASE call' = [call EXCEPT ![r] = IdleCall]
  BY <1>1, <1>2, <1>6, IdleGood, CallMoves, OthersKeep, RequestKeeps
<1>7. CASE call' = [call EXCEPT ![r].at = RecoverFrom(r),
                      ![r].mem = [old EXCEPT !.phase = "confirming"],
                      ![r].fresh = FALSE]
  <2> DEFINE m == [old EXCEPT !.phase = "confirming"]
             s == RecoverFrom(r)
             k == [call[r] EXCEPT !.at = s, !.mem = m, !.fresh = FALSE]
  <2>1. m \in Row /\ m.phase = "confirming" /\ m.hash = old.hash
    BY <1>3, RowUpdates, ZenonT(60) DEF Phases
  <2>2. /\ s \in {"simulate", "saveHash"}
        /\ s = "simulate" <=> m.hash = NoHash
    BY <2>1 DEF RecoverFrom
  <2>3. call' = [call EXCEPT ![r] = k]
    BY <1>7 DEF IInv, StateTypes
  <2> HIDE DEF m, s
  <2>4. /\ k \in Call /\ k.at = s /\ k.mem = m /\ k.todo = call[r].todo
        /\ k.links = call[r].links
    BY <1>3, <2>1, <2>2 DEF Call, CallSteps
  <2> HIDE DEF k
  <2>5. Good(tx', Op(r), m)
    BY <1>1, <1>3, <2>1, GoodOpen
  <2>6. \A i \in DOMAIN k.links : Took(tx', k.links[i])
    BY <1>1, <2>4 DEF IInv, CallsGood, CallGood
  <2>7. CallGood(tx', k)
    BY <1>3, <2>1, <2>2, <2>4, <2>5, <2>6
       DEF CallGood, Unsent, Sent, Verdict
  <2> QED
    BY <1>1, <1>2, <2>3, <2>4, <2>7, CallMoves, OthersKeep, RequestKeeps
<1>8. \/ Go(r, "create", Blank)
      \/ Answer(r, old.phase)
      \/ call' = [call EXCEPT ![r] = IdleCall]
      \/ call' = [call EXCEPT ![r].at = RecoverFrom(r),
                     ![r].mem = [old EXCEPT !.phase = "confirming"],
                     ![r].fresh = FALSE]
  BY <1>3 DEF Find, Row, Terminal
<1> QED
  BY <1>4, <1>5, <1>6, <1>7, <1>8

\* The row of a new operation.
LEMMA CreateInv ==
  ASSUME IInv, NEW r \in Requests, Create(r)
  PROVE  IInv'
<1>1. /\ UNCHANGED <<chain, table, job, crashes>> /\ UNCHANGED tx
      /\ call[r].at = "create"
  BY DEF Create, chain
<1>2. Grows
  BY <1>1, NothingGrows DEF IInv
<1>3. CASE call' = [call EXCEPT ![r] = IdleCall] /\ UNCHANGED row
  BY <1>1, <1>2, <1>3, IdleGood, CallMoves, OthersKeep, RequestKeeps
<1> DEFINE new == [Blank EXCEPT !.phase = "submitted"]
           m == [new EXCEPT !.phase = "confirming"]
           k == [call[r] EXCEPT !.at = "saveStart", !.fresh = TRUE, !.mem = m]
<1>4. CASE Save(Op(r), new)
           /\ call' = [call EXCEPT ![r].at = "saveStart", ![r].fresh = TRUE,
                         ![r].mem = m]
  <2>1. /\ Op(r) \in Ops /\ call[r] \in Call /\ call[r].todo # <<>>
        /\ Op(r) = Head(call[r].todo)
    BY <1>1, HeadType DEF IInv
  <2>2. new \in Row /\ new.phase = "submitted" /\ new.hash = NoHash
    BY BlankGood, RowUpdates, ZenonT(60) DEF Phases
  <2>3. m \in Row /\ m.phase = "confirming" /\ m.hash = NoHash
    BY <2>2, RowUpdates, ZenonT(60) DEF Phases
  <2>4. call' = [call EXCEPT ![r] = k]
    BY <1>4 DEF IInv, StateTypes
  <2> HIDE DEF m, new
  <2>5. /\ k \in Call /\ k.at = "saveStart" /\ k.mem = m
        /\ k.todo = call[r].todo /\ k.links = call[r].links
    BY <2>1, <2>3 DEF Call, CallSteps
  <2> HIDE DEF k
  <2>6. Good(tx', Op(r), m) /\ Good(tx', Op(r), new)
    BY <2>2, <2>3 DEF Good
  <2>7. \A i \in DOMAIN k.links : Took(tx', k.links[i])
    BY <1>1, <2>5 DEF IInv, CallsGood, CallGood
  <2>8. CallGood(tx', k)
    BY <2>1, <2>3, <2>5, <2>6, <2>7 DEF CallGood, Unsent, Sent, Verdict
  <2>9. row' \in [Ops -> Row] /\ RowsGood'
    BY <1>2, <1>4, <2>1, <2>2, <2>6, SaveKeeps
  <2> QED
    BY <1>1, <1>2, <2>4, <2>5, <2>8, <2>9, CallMoves, OthersKeep, RequestKeeps
<1> QED
  BY <1>3, <1>4 DEF Create

\* What a request holds at the steps with a copy.
LEMMA CopyAt ==
  ASSUME IInv, NEW r \in Requests,
         call[r].at \in Unsent \cup Sent \cup Verdict
  PROVE  /\ call[r].at \notin {"idle", "sync"}
         /\ Op(r) \in Ops /\ call[r].mem \in Row
         /\ Good(tx, Op(r), call[r].mem)
         /\ call[r].at \in Unsent \cup Sent => call[r].mem.phase = "confirming"
         /\ call[r].at \in Unsent => call[r].mem.hash = NoHash
         /\ call[r].at \in Sent => call[r].mem.hash # NoHash
         /\ call[r].at = "readback" => tx[call[r].mem.hash].state = "success"
<1>1. call[r].at \notin {"idle", "sync"}
  BY DEF Unsent, Sent, Verdict
<1>2. Op(r) \in Ops /\ Op(r) = Head(call[r].todo) /\ call[r] \in Call
  BY <1>1, HeadType DEF IInv
<1> QED
  BY <1>1, <1>2 DEF IInv, CallsGood, CallGood, Call

\* The steps that write a copy back and go on.
LEMMA RequestSaveInv ==
  ASSUME IInv, NEW r \in Requests, SaveStart(r) \/ SaveHash(r)
  PROVE  IInv'
<1>1. /\ UNCHANGED <<chain, table, job, crashes>> /\ UNCHANGED tx
      /\ call[r].at \in {"saveStart", "saveHash"}
      /\ Save(Op(r), call[r].mem)
  BY DEF SaveStart, SaveHash, chain
<1>2. Grows
  BY <1>1, NothingGrows DEF IInv
<1>3. /\ call[r].at \notin {"idle", "sync"}
      /\ Op(r) \in Ops /\ call[r].mem \in Row
      /\ Good(tx', Op(r), call[r].mem)
      /\ call[r].mem.phase = "confirming"
      /\ call[r].at = "saveStart" => call[r].mem.hash = NoHash
      /\ call[r].at = "saveHash" => call[r].mem.hash # NoHash
  BY <1>1, CopyAt DEF Unsent, Sent
<1>4. row' \in [Ops -> Row] /\ RowsGood'
  BY <1>1, <1>2, <1>3, SaveKeeps
<1>5. call' \in [Requests -> Call] /\ CallsGood'
  <2>1. CASE SaveStart(r)
    BY <1>2, <1>3, <2>1, GoKeeps DEF SaveStart, Unsent, Sent
  <2>2. CASE SaveHash(r)
    BY <1>2, <1>3, <2>2, GoKeeps DEF SaveHash, Unsent, Sent
  <2> QED
    BY <2>1, <2>2
<1> QED
  BY <1>1, <1>2, <1>4, <1>5, OthersKeep, RequestKeeps

\* The simulation leaves the copy without a hash.
LEMMA SimulateInv ==
  ASSUME IInv, NEW r \in Requests, Simulate(r)
  PROVE  IInv'
<1>1. /\ UNCHANGED <<row, chain, table, job, crashes>> /\ UNCHANGED tx
      /\ call[r].at = "simulate"
  BY DEF Simulate, chain
<1>2. Grows
  BY <1>1, NothingGrows DEF IInv
<1>3. call' \in [Requests -> Call] /\ CallsGood'
  <2>1. CASE Throw(r)
    BY <1>1, <1>2, <2>1, ThrowKeeps DEF Unsent
  <2>2. CASE call' = [call EXCEPT ![r].at = "submit", ![r].seq = accountSeq + 1]
    <3> DEFINE k == [call[r] EXCEPT !.at = "submit", !.seq = accountSeq + 1]
    <3>1. call[r] \in Call /\ accountSeq + 1 \in Nat
      BY DEF IInv, StateTypes
    <3>2. call' = [call EXCEPT ![r] = k]
      BY <2>2 DEF IInv, StateTypes
    <3>3. /\ k \in Call /\ k.at = "submit" /\ k.mem = call[r].mem
          /\ k.todo = call[r].todo /\ k.links = call[r].links
      BY <3>1 DEF Call, CallSteps
    <3> HIDE DEF k
    <3>4. CallGood(tx, call[r])
      BY DEF IInv, CallsGood
    <3>5. CallGood(tx', k)
      BY <1>1, <3>3, <3>4 DEF CallGood, Unsent, Sent, Verdict
    <3> QED
      BY <1>2, <3>2, <3>3, <3>5, CallMoves
  <2> QED
    BY <2>1, <2>2 DEF Simulate
<1> QED
  BY <1>1, <1>2, <1>3, OthersKeep, RequestKeeps

\* A transaction joins the end of the sequence.
LEMMA SubmitInv ==
  ASSUME IInv, NEW r \in Requests, Submit(r)
  PROVE  IInv'
<1>1. /\ UNCHANGED <<row, accountSeq, value, table, job, crashes>>
      /\ call[r].at = "submit"
  BY DEF Submit
<1>2. /\ Op(r) \in Ops /\ call[r].mem \in Row
      /\ call[r].mem.phase = "confirming"
      /\ call[r].at \notin {"idle", "sync"}
      /\ call[r].seq \in Nat
  <2>1. call[r] \in Call
    BY DEF IInv, StateTypes
  <2> QED
    BY <1>1, <2>1, CopyAt DEF Unsent, Sent, Call
<1>3. tx \in Seq(Tx) /\ Len(tx) \in Nat /\ Len(tx) <= MaxTx
  BY DEF IInv, StateTypes
<1>4. CASE Throw(r) /\ UNCHANGED tx
  <2>1. Grows
    BY <1>4, NothingGrows DEF IInv
  <2>2. call' \in [Requests -> Call] /\ CallsGood'
    BY <1>1, <1>4, <2>1, ThrowKeeps DEF Unsent
  <2> QED
    BY <1>1, <1>4, <2>1, <2>2, OthersKeep, RequestKeeps DEF chain
<1> DEFINE t == [op |-> Op(r), seq |-> call[r].seq, state |-> "pending"]
           m == [call[r].mem EXCEPT !.hash = Len(tx) + 1]
<1>5. CASE /\ Len(tx) < MaxTx /\ tx' = Append(tx, t)
           /\ Go(r, "saveHash", m) \/ Throw(r)
  <2>1. t \in Tx /\ t.op = Op(r)
    BY <1>2 DEF Tx
  <2> HIDE DEF t
  <2>2. /\ tx' \in Seq(Tx) /\ Len(tx') = Len(tx) + 1
        /\ \A n \in 1..Len(tx) : tx'[n] = tx[n]
        /\ tx'[Len(tx) + 1] = t
    BY <1>3, <1>5, <2>1, AppendProperties
  <2>3. Grows
    BY <1>3, <2>2 DEF Grows
  <2>4. Len(tx') <= MaxTx
    BY <1>3, <1>5, <2>2, ProvisionAssumption
  <2>5. CASE Go(r, "saveHash", m)
    <3>1. m \in Row /\ m.hash = Len(tx) + 1 /\ m.phase = "confirming"
      <4>1. Len(tx) + 1 \in 0..MaxTx
        BY <1>3, <1>5, ProvisionAssumption
      <4> QED
        BY <1>2, <4>1 DEF Row
    <3> HIDE DEF m
    <3>2. Good(tx', Op(r), m) /\ m.hash # NoHash
      BY <1>3, <2>1, <2>2, <3>1 DEF Good, NoHash
    <3> QED
      BY <1>1, <1>2, <2>2, <2>3, <2>4, <2>5, <3>1, <3>2, GoKeeps, OthersKeep
         DEF IInv, StateTypes, Unsent, Sent
  <2>6. CASE Throw(r)
    <3>1. call' \in [Requests -> Call] /\ CallsGood'
      BY <1>1, <2>3, <2>6, ThrowKeeps DEF Unsent
    <3> QED
      BY <1>1, <2>2, <2>3, <2>4, <3>1, OthersKeep DEF IInv, StateTypes
  <2> QED
    BY <1>5, <2>5, <2>6
<1> QED
  BY <1>4, <1>5 DEF Submit

\* The answers of the network and of the contract.
LEMMA PollInv ==
  ASSUME IInv, NEW r \in Requests, Poll(r) \/ Readback(r)
  PROVE  IInv'
<1>1. /\ UNCHANGED <<row, chain, table, job, crashes>> /\ UNCHANGED tx
      /\ call[r].at \in {"poll", "readback"}
  BY DEF Poll, Readback, chain
<1>2. Grows
  BY <1>1, NothingGrows DEF IInv
<1> DEFINE m == call[r].mem
           with(ph) == [call[r].mem EXCEPT !.phase = ph]
<1>3. /\ call[r].at \notin {"idle", "sync"}
      /\ Op(r) \in Ops /\ m \in Row
      /\ Good(tx', Op(r), m) /\ m.phase = "confirming" /\ m.hash # NoHash
      /\ call[r].at = "readback" => tx'[m.hash].state = "success"
  BY <1>1, CopyAt DEF Unsent, Sent
<1>4. ASSUME NEW ph \in {"unknown", "failed_terminal", "confirmed"},
             Go(r, "saveResult", with(ph)),
             ph = "confirmed" => tx'[m.hash].state = "success"
      PROVE  call' \in [Requests -> Call] /\ CallsGood'
  <2>1. with(ph) \in Row /\ with(ph).phase = ph /\ with(ph).hash = m.hash
    <3>1. ph \in Phases
      BY DEF Phases
    <3> QED
      BY <1>3, <3>1, RowUpdates
  <2> HIDE DEF with
  <2>2. Good(tx', Op(r), with(ph))
    BY <1>3, <1>4, <2>1 DEF Good
  <2> QED
    BY <1>2, <1>3, <1>4, <2>1, <2>2, GoKeeps DEF Unsent, Sent, Verdict
<1>5. CASE Throw(r)
  <2>1. call' \in [Requests -> Call] /\ CallsGood'
    BY <1>1, <1>2, <1>5, ThrowKeeps DEF Sent
  <2> QED
    BY <1>1, <1>2, <2>1, OthersKeep, RequestKeeps
<1>6. CASE Go(r, "readback", m) /\ tx[m.hash].state = "success"
  <2>1. call' \in [Requests -> Call] /\ CallsGood'
    BY <1>1, <1>2, <1>3, <1>6, GoKeeps DEF Unsent, Sent
  <2> QED
    BY <1>1, <1>2, <2>1, OthersKeep, RequestKeeps
<1>7. CASE \E ph \in {"unknown", "failed_terminal", "confirmed"} :
             /\ Go(r, "saveResult", with(ph))
             /\ ph = "confirmed" => tx'[m.hash].state = "success"
  BY <1>1, <1>2, <1>4, <1>7, OthersKeep, RequestKeeps
<1>8. \/ Throw(r)
      \/ Go(r, "readback", m) /\ tx[m.hash].state = "success"
      \/ \E ph \in {"unknown", "failed_terminal", "confirmed"} :
           /\ Go(r, "saveResult", with(ph))
           /\ ph = "confirmed" => tx'[m.hash].state = "success"
  <2>1. CASE Poll(r)
    BY <1>1, <2>1 DEF Poll, PollOutcome
  <2>2. CASE Readback(r)
    BY <1>3, <2>2 DEF Readback
  <2> QED
    BY <2>1, <2>2
<1> QED
  BY <1>5, <1>6, <1>7, <1>8

\* The saves of a verdict, and a save that fails.
LEMMA VerdictInv ==
  ASSUME IInv, NEW r \in Requests,
         SaveResult(r) \/ SaveFailed(r) \/ SaveFails(r)
  PROVE  IInv'
<1>1. /\ UNCHANGED <<chain, table, job, crashes>> /\ UNCHANGED tx
      /\ call[r].at \in Unsent \cup Sent \cup Verdict
  BY DEF SaveResult, SaveFailed, SaveFails, chain, Unsent, Sent, Verdict
<1>2. Grows
  BY <1>1, NothingGrows DEF IInv
<1>3. /\ call[r].at \notin {"idle", "sync"}
      /\ Op(r) \in Ops /\ call[r].mem \in Row
      /\ Good(tx', Op(r), call[r].mem)
  BY <1>1, CopyAt
<1>4. CASE SaveResult(r)
  <2>1. row' \in [Ops -> Row] /\ RowsGood'
    BY <1>2, <1>3, <1>4, SaveKeeps DEF SaveResult
  <2>2. call[r].mem.phase = "confirmed" => Took(tx', Op(r))
    BY <1>3 DEF Good, Took
  <2>3. call' \in [Requests -> Call] /\ CallsGood'
    BY <1>2, <1>3, <1>4, <2>2, AnswerKeeps DEF SaveResult
  <2> QED
    BY <1>1, <1>2, <2>1, <2>3, OthersKeep, RequestKeeps
<1>5. CASE SaveFailed(r)
  <2>1. row' \in [Ops -> Row] /\ RowsGood'
    BY <1>2, <1>3, <1>5, SaveKeeps DEF SaveFailed
  <2>2. call' \in [Requests -> Call] /\ CallsGood'
    BY <1>2, <1>5, IdleGood, CallMoves DEF SaveFailed
  <2> QED
    BY <1>1, <1>2, <2>1, <2>2, OthersKeep, RequestKeeps
<1>6. CASE SaveFails(r)
  <2>1. call' \in [Requests -> Call] /\ CallsGood'
    BY <1>2, <1>6, ThrowKeeps DEF SaveFails, Unsent, Sent
  <2> QED
    BY <1>1, <1>2, <1>6, <2>1, OthersKeep, RequestKeeps DEF SaveFails
<1> QED
  BY <1>4, <1>5, <1>6

\* The table takes over what the ledger executed.
LEMMA SyncInv ==
  ASSUME IInv, NEW r \in Requests, Sync(r)
  PROVE  IInv'
<1>1. /\ UNCHANGED <<row, chain, job, crashes>> /\ UNCHANGED tx
      /\ call[r].at = "sync"
  BY DEF Sync, chain
<1>2. Grows
  BY <1>1, NothingGrows DEF IInv
<1>3. CASE call' = [call EXCEPT ![r] = IdleCall] /\ UNCHANGED table
  BY <1>1, <1>2, <1>3, IdleGood, CallMoves, OthersKeep, RequestKeeps
<1>4. CASE /\ call[r].links # <<>> /\ table' = Synced(r)
           /\ call' = [call EXCEPT ![r].links = Tail(@)]
  <2> DEFINE l == call[r].links
             o == Head(l)
             k == [call[r] EXCEPT !.links = Tail(l)]
  <2>1. /\ call[r] \in Call /\ l \in Seq(Ops) /\ Len(l) \in Nat \ {0}
        /\ o \in Ops /\ Tail(l) \in Seq(Ops)
        /\ Len(Tail(l)) = Len(l) - 1
        /\ \A i \in 1..Len(Tail(l)) : Tail(l)[i] = l[i + 1]
        /\ o = l[1]
    <3>1. call[r] \in Call /\ l \in Seq(Ops) /\ l # <<>>
      BY <1>4 DEF IInv, StateTypes, Call
    <3> QED
      BY <3>1, HeadTailProperties, EmptySeq
  <2>2. \A i \in 1..Len(l) : Took(tx', l[i])
    <3>1. DOMAIN l = 1..Len(l)
      BY <2>1
    <3> QED
      BY <1>1, <3>1 DEF IInv, CallsGood, CallGood
  <2>3. \A i \in DOMAIN Tail(l) : Took(tx', Tail(l)[i])
    <3>1. DOMAIN Tail(l) = 1..Len(Tail(l))
      BY <2>1
    <3> SUFFICES ASSUME NEW i \in 1..Len(Tail(l))
                 PROVE  Took(tx', Tail(l)[i])
      BY <3>1
    <3>2. i + 1 \in 1..Len(l) /\ Tail(l)[i] = l[i + 1]
      BY <2>1
    <3> QED
      BY <2>2, <3>2
  <2>4. call' = [call EXCEPT ![r] = k]
    BY <1>4 DEF IInv, StateTypes
  <2>5. /\ k \in Call /\ k.at = "sync" /\ k.links = Tail(l)
    BY <1>1, <2>1 DEF Call
  <2>6. CallGood(tx', k)
    BY <2>3, <2>5 DEF CallGood, Unsent, Sent, Verdict
  <2>7. table' \in [Links -> {"on", "off"}] /\ TableGood'
    <3>1. o.to \in {"on", "off"} /\ o = [target |-> o.target, to |-> o.to]
      BY <2>1 DEF Ops
    <3>2. Took(tx', o)
      BY <2>1, <2>2
    <3>3. table' = [table EXCEPT ![o.target] = o.to]
      BY <1>4 DEF Synced
    <3> HIDE DEF o
    <3>4. /\ table' \in [Links -> {"on", "off"}]
          /\ \A j \in Links : table'[j] = IF j = o.target THEN o.to ELSE table[j]
      BY <3>1, <3>3 DEF IInv, StateTypes
    <3>5. \A j \in Links : table'[j] = "on" => Took(tx', [target |-> j, to |-> "on"])
      <4> SUFFICES ASSUME NEW j \in Links, table'[j] = "on"
                   PROVE  Took(tx', [target |-> j, to |-> "on"])
        OBVIOUS
      <4>1. CASE j = o.target
        BY <3>1, <3>2, <3>4, <4>1
      <4>2. CASE j # o.target
        BY <1>1, <3>4, <4>2 DEF IInv, TableGood
      <4> QED
        BY <4>1, <4>2
    <3> QED
      BY <3>4, <3>5 DEF TableGood
  <2> QED
    BY <1>1, <1>2, <2>4, <2>5, <2>6, <2>7, CallMoves, OthersKeep, RequestKeeps
<1> QED
  BY <1>3, <1>4 DEF Sync

------------------------------------------------------------------------------
(* The steps of the worker.                                                *)

\* A worker's step that leaves the rows.
LEMMA JobKeeps ==
  ASSUME IInv, UNCHANGED <<chain, table, call, crashes>>,
         row' \in [Ops -> Row], RowsGood',
         job' \in [Workers -> Job], JobsGood'
  PROVE  IInv'
<1>1. Grows
  BY NothingGrows DEF chain, IInv
<1> QED
  BY <1>1, OthersKeep DEF IInv, StateTypes, chain

\* The worker goes on to s with copy m.
LEMMA TurnKeeps ==
  ASSUME IInv, Grows, NEW w \in Workers, job[w].at # "idle",
         NEW s \in JobSteps \ {"idle"}, NEW m \in Row, Turn(w, s, m),
         s \notin {"claimed", "handler"} => Good(tx', JobOp(w), m),
         s \in {"save", "poll", "readback"} => m.phase = "confirming"
  PROVE  job' \in [Workers -> Job] /\ JobsGood'
<1> DEFINE j == [job[w] EXCEPT !.at = s, !.mem = m]
<1>1. /\ job[w] \in Job
      /\ JobOp(w) = CHOOSE o \in job[w].ops : TRUE
      /\ \E o \in Ops : job[w].ops = {o}
  BY JobRow DEF IInv, JobsGood, JobGood
<1>2. job' = [job EXCEPT ![w] = j]
  BY DEF Turn, IInv, StateTypes
<1>3. j \in Job /\ j.at = s /\ j.mem = m /\ j.ops = job[w].ops
  BY <1>1 DEF Job
<1> HIDE DEF j
<1>4. JobGood(tx', j)
  BY <1>1, <1>3 DEF JobGood
<1> QED
  BY <1>2, <1>3, <1>4, JobMoves

\* The worker is done with its row.
LEMMA RestKeeps ==
  ASSUME IInv, Grows, NEW w \in Workers, Rest(w)
  PROVE  job' \in [Workers -> Job] /\ JobsGood'
  BY IdleGood, JobMoves DEF Rest

\* The worker takes a row.
LEMMA ClaimInv ==
  ASSUME IInv, NEW w \in Workers, Claim(w)
  PROVE  IInv'
<1>1. UNCHANGED <<row, chain, table, call, crashes>> /\ UNCHANGED tx
  BY DEF Claim, chain
<1>2. Grows
  BY <1>1, NothingGrows DEF IInv
<1>3. PICK o \in Ops :
        job' = [job EXCEPT ![w] = [IdleJob EXCEPT !.at = "claimed", !.ops = {o}]]
  BY DEF Claim
<1> DEFINE j == [IdleJob EXCEPT !.at = "claimed", !.ops = {o}]
<1>4. j \in Job /\ j.at = "claimed" /\ j.ops = {o}
  <2>1. IdleJob \in Job
    BY IdleGood
  <2> QED
    BY <2>1 DEF Job, JobSteps
<1> HIDE DEF j
<1>5. JobGood(tx', j)
  BY <1>4 DEF JobGood
<1>6. job' \in [Workers -> Job] /\ JobsGood'
  BY <1>2, <1>3, <1>4, <1>5, JobMoves DEF j
<1> QED
  BY <1>1, <1>2, <1>6, OthersKeep, JobKeeps

\* The steps that read the row anew.
LEMMA JobReadsInv ==
  ASSUME IInv, NEW w \in Workers, Process(w) \/ Handle(w)
  PROVE  IInv'
<1>1. /\ UNCHANGED <<row, chain, table, call, crashes>> /\ UNCHANGED tx
      /\ job[w].at # "idle"
  BY DEF Process, Handle, chain
<1>2. Grows
  BY <1>1, NothingGrows DEF IInv
<1> DEFINE q == row[JobOp(w)]
           confirming == [q EXCEPT !.phase = "confirming"]
           failed == [q EXCEPT !.attempts = @ + 1, !.phase = "failed_terminal"]
           again == [ScheduleRetry(q) EXCEPT !.phase = "failed_retryable"]
<1>3. q \in Row /\ Good(tx', JobOp(w), q)
  BY <1>1, JobRow DEF IInv, StateTypes, RowsGood
<1>4. /\ confirming \in Row /\ failed \in Row /\ again \in Row
      /\ confirming.phase = "confirming" /\ failed.phase = "failed_terminal"
      /\ again.phase = "failed_retryable"
      /\ confirming.hash = q.hash /\ failed.hash = q.hash /\ again.hash = q.hash
  <2>1. {"confirming", "failed_terminal", "failed_retryable"} \subseteq Phases
    BY DEF Phases
  <2> QED
    BY <1>3, <2>1, RowUpdates
<1>5. \/ Rest(w)
      \/ Turn(w, "save", confirming)
      \/ Turn(w, "handler", Blank)
      \/ Turn(w, "saveHandler", failed)
      \/ Turn(w, "saveHandler", again)
  BY DEF Process, Handle
<1> HIDE DEF q, confirming, failed, again
<1>6. /\ Good(tx', JobOp(w), confirming)
      /\ Good(tx', JobOp(w), failed) /\ Good(tx', JobOp(w), again)
  BY <1>3, <1>4, GoodOpen
<1>7. job' \in [Workers -> Job] /\ JobsGood'
  <2>1. {"save", "handler", "saveHandler"} \subseteq JobSteps \ {"idle"}
    BY DEF JobSteps
  <2>2. CASE Rest(w)
    BY <1>2, <2>2, RestKeeps
  <2>3. CASE Turn(w, "save", confirming)
    BY <1>1, <1>2, <1>4, <1>6, <2>1, <2>3, TurnKeeps
  <2>4. CASE Turn(w, "handler", Blank)
    BY <1>1, <1>2, <2>1, <2>4, BlankGood, TurnKeeps
  <2>5. CASE Turn(w, "saveHandler", failed)
    BY <1>1, <1>2, <1>4, <1>6, <2>1, <2>5, TurnKeeps
  <2>6. CASE Turn(w, "saveHandler", again)
    BY <1>1, <1>2, <1>4, <1>6, <2>1, <2>6, TurnKeeps
  <2> QED
    BY <1>5, <2>2, <2>3, <2>4, <2>5, <2>6
<1> QED
  BY <1>1, <1>2, <1>7, OthersKeep, JobKeeps

\* What the worker holds at the steps with a copy.
LEMMA JobCopyAt ==
  ASSUME IInv, NEW w \in Workers,
         job[w].at \in {"save", "poll", "readback", "saveResult", "saveHandler"}
  PROVE  /\ job[w].at # "idle" /\ JobOp(w) \in Ops /\ job[w].mem \in Row
         /\ Good(tx, JobOp(w), job[w].mem)
         /\ job[w].at \in {"save", "poll", "readback"} =>
              job[w].mem.phase = "confirming"
  BY JobRow DEF IInv, JobsGood, JobGood, Job

\* The worker's saves.
LEMMA JobSaveInv ==
  ASSUME IInv, NEW w \in Workers, JobSave(w)
  PROVE  IInv'
<1>1. /\ UNCHANGED <<chain, table, call, crashes>> /\ UNCHANGED tx
      /\ job[w].at \in {"save", "saveResult", "saveHandler"}
      /\ Save(JobOp(w), job[w].mem)
  BY DEF JobSave, chain
<1>2. Grows
  BY <1>1, NothingGrows DEF IInv
<1>3. /\ job[w].at # "idle" /\ JobOp(w) \in Ops /\ job[w].mem \in Row
      /\ Good(tx', JobOp(w), job[w].mem)
      /\ job[w].at = "save" => job[w].mem.phase = "confirming"
  BY <1>1, JobCopyAt
<1>4. row' \in [Ops -> Row] /\ RowsGood'
  BY <1>1, <1>2, <1>3, SaveKeeps
<1>5. job' \in [Workers -> Job] /\ JobsGood'
  <2>1. CASE job[w].at = "save" /\ Turn(w, "poll", job[w].mem)
    BY <1>2, <1>3, <2>1, TurnKeeps DEF JobSteps
  <2>2. CASE Rest(w)
    BY <1>2, <2>2, RestKeeps
  <2> QED
    BY <2>1, <2>2 DEF JobSave
<1> QED
  BY <1>1, <1>2, <1>4, <1>5, OthersKeep, JobKeeps

\* The worker's questions to the network.
LEMMA JobPollInv ==
  ASSUME IInv, NEW w \in Workers, JobPoll(w) \/ JobReadback(w)
  PROVE  IInv'
<1>1. /\ UNCHANGED <<row, chain, table, call, crashes>> /\ UNCHANGED tx
      /\ job[w].at \in {"poll", "readback"}
  BY DEF JobPoll, JobReadback, chain
<1>2. Grows
  BY <1>1, NothingGrows DEF IInv
<1> DEFINE m == job[w].mem
           lost == [ScheduleRetry(m) EXCEPT !.phase = "unknown"]
           refused == [m EXCEPT !.phase = "failed_terminal", !.due = TRUE]
           failed == [m EXCEPT !.phase = "failed_terminal"]
<1>3. /\ job[w].at # "idle" /\ m \in Row
      /\ Good(tx', JobOp(w), m) /\ m.phase = "confirming"
  BY <1>1, JobCopyAt
<1>4. /\ lost \in Row /\ refused \in Row /\ failed \in Row
      /\ lost.phase = "unknown" /\ refused.phase = "failed_terminal"
      /\ failed.phase = "failed_terminal"
      /\ lost.hash = m.hash /\ refused.hash = m.hash /\ failed.hash = m.hash
  <2>1. {"unknown", "failed_terminal"} \subseteq Phases
    BY DEF Phases
  <2> QED
    BY <1>3, <2>1, RowUpdates, ZenonT(60)
<1>5. \/ Turn(w, "saveResult", lost)
      \/ Turn(w, "saveResult", refused)
      \/ Turn(w, "saveResult", failed)
      \/ Turn(w, "readback", m)
      \/ Turn(w, "handler", Blank)
  BY DEF JobPoll, JobReadback
<1> HIDE DEF m, lost, refused, failed
<1>6. /\ Good(tx', JobOp(w), lost)
      /\ Good(tx', JobOp(w), refused) /\ Good(tx', JobOp(w), failed)
  BY <1>3, <1>4, GoodOpen
<1>7. job' \in [Workers -> Job] /\ JobsGood'
  <2>1. {"saveResult", "readback", "handler"} \subseteq JobSteps \ {"idle"}
    BY DEF JobSteps
  <2>2. CASE Turn(w, "saveResult", lost)
    BY <1>2, <1>3, <1>4, <1>6, <2>1, <2>2, TurnKeeps
  <2>3. CASE Turn(w, "saveResult", refused)
    BY <1>2, <1>3, <1>4, <1>6, <2>1, <2>3, TurnKeeps
  <2>4. CASE Turn(w, "saveResult", failed)
    BY <1>2, <1>3, <1>4, <1>6, <2>1, <2>4, TurnKeeps
  <2>5. CASE Turn(w, "readback", m)
    BY <1>2, <1>3, <2>1, <2>5, TurnKeeps
  <2>6. CASE Turn(w, "handler", Blank)
    BY <1>2, <1>3, <2>1, <2>6, BlankGood, TurnKeeps
  <2> QED
    BY <1>5, <2>2, <2>3, <2>4, <2>5, <2>6
<1> QED
  BY <1>1, <1>2, <1>7, OthersKeep, JobKeeps

------------------------------------------------------------------------------
(* Time, crashes and the network.                                          *)

\* A retry falls due.
LEMMA BackoffInv ==
  ASSUME IInv, NEW o \in Ops, BackoffElapses(o)
  PROVE  IInv'
<1>1. /\ UNCHANGED <<chain, table, call, job, crashes>> /\ UNCHANGED tx
      /\ row' = [row EXCEPT ![o].due = TRUE]
  BY DEF BackoffElapses, chain
<1>2. Grows
  BY <1>1, NothingGrows DEF IInv
<1> DEFINE m == [row[o] EXCEPT !.due = TRUE]
<1>3. row[o] \in Row /\ Good(tx', o, row[o])
  BY <1>1 DEF IInv, StateTypes, RowsGood
<1>4. m \in Row /\ m.hash = row[o].hash /\ m.phase = row[o].phase
  BY <1>3 DEF Row
<1>5. Save(o, m)
  BY <1>1 DEF Save, IInv, StateTypes
<1>6. Good(tx', o, m)
  BY <1>3, <1>4 DEF Good
<1>7. row' \in [Ops -> Row] /\ RowsGood'
  BY <1>2, <1>4, <1>5, <1>6, SaveKeeps
<1> QED
  BY <1>1, <1>2, <1>7, OthersKeep, RequestKeeps

\* A request or a worker dies.
LEMMA CrashInv ==
  ASSUME IInv, Crash
  PROVE  IInv'
<1>1. UNCHANGED <<row, chain, table>> /\ UNCHANGED tx
  BY DEF Crash, chain
<1>2. Grows
  BY <1>1, NothingGrows DEF IInv
<1>3. crashes' \in 0..MaxCrashes
  BY ProvisionAssumption DEF Crash, IInv, StateTypes
<1>4. /\ call' \in [Requests -> Call] /\ CallsGood'
      /\ job' \in [Workers -> Job] /\ JobsGood'
  <2>1. CASE UNCHANGED job
             /\ \E r \in Requests : call' = [call EXCEPT ![r] = IdleCall]
    BY <1>2, <2>1, IdleGood, CallMoves, OthersKeep
  <2>2. CASE UNCHANGED call /\ \E w \in Workers : Rest(w)
    BY <1>2, <2>2, RestKeeps, OthersKeep
  <2> QED
    BY <2>1, <2>2 DEF Crash
<1> QED
  BY <1>1, <1>2, <1>3, <1>4, OthersKeep DEF IInv, StateTypes, chain

\* A ledger or the network decides about one transaction.
LEMMA TxDecided ==
  ASSUME IInv, NEW n \in 1..Len(tx), NEW v \in {"success", "failed", "gone"},
         tx[n].state = "pending", tx' = [tx EXCEPT ![n].state = v]
  PROVE  /\ tx' \in Seq(Tx) /\ Len(tx') = Len(tx) /\ Grows
<1> DEFINE t == [tx[n] EXCEPT !.state = v]
<1>1. tx \in Seq(Tx) /\ Len(tx) \in Nat /\ tx[n] \in Tx
  BY DEF IInv, StateTypes
<1>2. t \in Tx /\ t.op = tx[n].op
  BY <1>1 DEF Tx
<1>3. tx' = [tx EXCEPT ![n] = t]
  BY <1>1
<1> HIDE DEF t
<1>4. /\ tx' \in Seq(Tx) /\ Len(tx') = Len(tx)
      /\ \A i \in 1..Len(tx) : tx'[i] = IF i = n THEN t ELSE tx[i]
  BY <1>1, <1>2, <1>3, ExceptSeq
<1> QED
  BY <1>1, <1>2, <1>4 DEF Grows

\* Inclusion and eviction.
LEMMA NetworkInv ==
  ASSUME IInv, NEW n \in 1..Len(tx), LedgerIncludes(n) \/ NetworkDrops(n)
  PROVE  IInv'
<1>1. /\ UNCHANGED <<row, table, call, job, crashes>>
      /\ tx[n].state = "pending"
      /\ \E v \in {"success", "failed", "gone"} : tx' = [tx EXCEPT ![n].state = v]
  BY DEF LedgerIncludes, NetworkDrops
<1>2. tx' \in Seq(Tx) /\ Len(tx') = Len(tx) /\ Grows
  BY <1>1, TxDecided
<1>3. accountSeq' \in Nat /\ value' \in [Targets -> {"on", "off"}]
  <2>1. tx[n].op \in Ops
    <3>1. tx \in Seq(Tx)
      BY DEF IInv, StateTypes
    <3>2. tx[n] \in Tx
      BY <3>1
    <3> QED
      BY <3>2 DEF Tx
  <2>2. tx[n].op.target \in Targets /\ tx[n].op.to \in {"on", "off"}
    BY <2>1 DEF Ops
  <2> QED
    BY <2>2 DEF LedgerIncludes, NetworkDrops, IInv, StateTypes
<1> QED
  BY <1>1, <1>2, <1>3, OthersKeep DEF IInv, StateTypes

------------------------------------------------------------------------------
(* The theorems.                                                           *)

\* The invariant holds at the start and every step keeps it.
LEMMA InitInv == Init => IInv
<1> SUFFICES ASSUME Init
             PROVE  IInv
  OBVIOUS
<1>1. StateTypes
  <2>1. tx \in Seq(Tx) /\ Len(tx) = 0
    BY DEF Init
  <2> QED
    <3>1. tx \in Seq(Tx) /\ Len(tx) <= MaxTx /\ crashes \in 0..MaxCrashes
      BY <2>1, ProvisionAssumption DEF Init
    <3>2. row \in [Ops -> Row] /\ call \in [Requests -> Call]
          /\ job \in [Workers -> Job]
      BY BlankGood, IdleGood DEF Init
    <3> QED
      BY <3>1, <3>2 DEF Init, StateTypes
<1>2. RowsGood
  BY BlankGood DEF Init, RowsGood, Good, Absent
<1>3. CallsGood /\ JobsGood
  BY IdleGood DEF Init, CallsGood, JobsGood
<1>4. TableGood
  BY DEF Init, TableGood
<1> QED
  BY <1>1, <1>2, <1>3, <1>4 DEF IInv

LEMMA StepInv == IInv /\ [Next]_vars => IInv'
<1> SUFFICES ASSUME IInv, [Next]_vars
             PROVE  IInv'
  OBVIOUS
<1>1. ASSUME NEW r \in Requests, RequestStep(r)
      PROVE  IInv'
  BY <1>1, BeginInv, FindInv, CreateInv, RequestSaveInv, SimulateInv, SubmitInv,
     PollInv, VerdictInv, SyncInv DEF RequestStep
<1>2. ASSUME NEW w \in Workers, WorkerStep(w)
      PROVE  IInv'
  BY <1>2, ClaimInv, JobReadsInv, JobSaveInv, JobPollInv DEF WorkerStep
<1>3. CASE UNCHANGED vars
  <2>1. Grows
    BY <1>3, NothingGrows DEF vars, IInv
  <2> QED
    BY <1>3, <2>1, OthersKeep DEF vars, IInv, StateTypes
<1> QED
  BY <1>1, <1>2, <1>3, BackoffInv, CrashInv, NetworkInv DEF Next

\* The inductive invariant holds in every reachable state.
THEOREM Invariance == Spec => []IInv
  BY InitInv, StepInv, PTL DEF Spec

\* Rows, transactions, requests and workers keep their types, and a worker
\* has one row in hand or none.
THEOREM TypeCorrect == Spec => []TypeOK
<1>1. IInv => TypeOK
  <2> SUFFICES ASSUME IInv
               PROVE  TypeOK
    OBVIOUS
  <2>1. \A r \in Requests :
          /\ call[r].at \in CallSteps
          /\ call[r].todo \in Seq(Ops) /\ call[r].links \in Seq(Ops)
          /\ call[r].mem \in Row /\ call[r].seq \in Nat
          /\ call[r].at \notin {"idle", "sync"} => call[r].todo # <<>>
    BY DEF IInv, StateTypes, CallsGood, CallGood, Call
  <2>2. \A w \in Workers :
          /\ job[w].at \in JobSteps /\ job[w].mem \in Row
          /\ job[w].ops \subseteq Ops
    BY DEF IInv, StateTypes, Job
  <2>3. \A w \in Workers :
          Cardinality(job[w].ops) = (IF job[w].at = "idle" THEN 0 ELSE 1)
    BY FS_EmptySet, FS_Singleton DEF IInv, JobsGood, JobGood
  <2> QED
    BY <2>1, <2>2, <2>3 DEF IInv, StateTypes, TypeOK
<1> QED
  BY <1>1, Invariance, PTL

\* A confirmed administration names a transaction of its own that the ledger
\* included with success, whatever requests and the worker race over its row.
THEOREM ConfirmedByLedger == Spec => []ConfirmedTookEffect
<1>1. IInv => ConfirmedTookEffect
  BY DEF IInv, RowsGood, Good, ConfirmedTookEffect
<1> QED
  BY <1>1, Invariance, PTL

\* The table of issuers and the links a request is about to write into it are
\* never ahead of the chain: a successful transaction stands behind each.
THEOREM TableEarned == Spec => []TableBehindChain
<1>1. IInv => TableBehindChain
  BY DEF IInv, TableGood, CallsGood, CallGood, Took, Succeeded, TableBehindChain
<1> QED
  BY <1>1, Invariance, PTL

------------------------------------------------------------------------------
(* A stored hash.  A copy in hand was in hand before the step, or has just  *)
(* been read from its row; so a hash that is in the row and in all copies   *)
(* of it is never lost, and what is signed again has no hash.               *)

\* Only a row that does not exist yet is absent, and it has no hash.
Shown ==
  /\ \A o \in Ops : row[o].phase = Absent => row[o].hash = NoHash
  /\ \A r \in Requests : call[r].at \in Holding => call[r].mem.phase # Absent
  /\ \A w \in Workers : job[w].at \in JobHolding => job[w].mem.phase # Absent

HeldInv == IInv /\ Shown

\* A request, or the worker, goes on with its copy, and loses no hash.
CallKeeps(r) ==
  /\ call[r].at \in Holding
  /\ call[r].mem.hash # NoHash => call'[r].mem.hash # NoHash
JobKeepsHash(w) ==
  /\ job[w].at \in JobHolding
  /\ job[w].mem.hash # NoHash => job'[w].mem.hash # NoHash

\* Where the copy comes from that a request has after its step.
CopyFrom(r) ==
  /\ call'[r].mem.phase # Absent
  /\ Op(r)' = Op(r)
  /\ \/ CallKeeps(r)
     \/ call'[r].mem.hash = row[Op(r)].hash
     \/ row[Op(r)].phase = Absent

LEMMA GoesFrom ==
  ASSUME HeldInv, NEW r \in Requests, call[r].at \in Holding,
         NEW s, NEW m \in Row, Go(r, s, m), m.phase # Absent,
         call[r].mem.hash # NoHash => m.hash # NoHash
  PROVE  CopyFrom(r)
<1>1. call'[r].mem = m /\ call'[r].todo = call[r].todo
  BY DEF Go, HeldInv, IInv, StateTypes, Call
<1> QED
  BY <1>1 DEF CopyFrom, CallKeeps, Op

LEMMA ThrowsFrom ==
  ASSUME HeldInv, NEW r \in Requests, call[r].at \in Holding, Throw(r),
         call'[r].at \in Holding
  PROVE  CopyFrom(r)
<1>1. CASE call' = [call EXCEPT ![r] = IdleCall]
  <2>1. call'[r].at = "idle"
    BY <1>1 DEF HeldInv, IInv, StateTypes, IdleCall
  <2> QED
    BY <2>1 DEF Holding
<1>2. CASE Go(r, "saveFailed", [call[r].mem EXCEPT !.phase = "failed_terminal"])
  <2> DEFINE m == [call[r].mem EXCEPT !.phase = "failed_terminal"]
  <2>1. call[r].mem \in Row /\ "failed_terminal" \in Phases
    BY DEF HeldInv, IInv, StateTypes, Call, Phases
  <2>2. m \in Row /\ m.phase = "failed_terminal" /\ m.hash = call[r].mem.hash
    BY <2>1, RowUpdates
  <2> QED
    BY <1>2, <2>2, GoesFrom DEF Absent
<1> QED
  BY <1>1, <1>2 DEF Throw

LEMMA RequestOrigin ==
  ASSUME HeldInv, NEW r \in Requests, RequestStep(r), call'[r].at \in Holding
  PROVE  CopyFrom(r)
<1> DEFINE k == call[r]
<1>1. /\ call \in [Requests -> Call] /\ k \in Call /\ k.mem \in Row
      /\ row \in [Ops -> Row]
  BY DEF HeldInv, IInv, StateTypes, Call
<1>2. \A ph \in {"confirming", "failed_terminal", "unknown", "confirmed"} :
        ph \in Phases /\ ph # Absent
  BY DEF Phases, Absent
<1>3. ASSUME NEW q \in {"idle", "find", "sync"}, call'[r].at = q
      PROVE  FALSE
  BY <1>3 DEF Holding
<1>4. ASSUME k.at \in Holding, NEW s, Go(r, s, k.mem)
      PROVE  CopyFrom(r)
  BY <1>1, <1>4, GoesFrom DEF HeldInv, Shown
<1>5. ASSUME k.at \in Holding, NEW s,
             NEW ph \in {"confirming", "failed_terminal", "unknown", "confirmed"},
             Go(r, s, [k.mem EXCEPT !.phase = ph])
      PROVE  CopyFrom(r)
  BY <1>1, <1>2, <1>5, GoesFrom, RowUpdates
<1>6. CASE Begin(r) \/ SaveResult(r) \/ SaveFailed(r) \/ Sync(r)
  <2>1. call'[r].at \in {"idle", "find", "sync"}
    <3>1. CASE Begin(r)
      BY <1>1, <3>1 DEF Begin, IdleCall
    <3>2. CASE SaveResult(r)
      BY <1>1, <3>2 DEF SaveResult, Answer, Call
    <3>3. CASE SaveFailed(r)
      BY <1>1, <3>3 DEF SaveFailed, IdleCall
    <3>4. CASE Sync(r)
      BY <1>1, <3>4 DEF Sync, IdleCall, Call
    <3> QED
      BY <1>6, <3>1, <3>2, <3>3, <3>4
  <2> QED
    BY <1>3, <2>1
<1>7. CASE Find(r)
  <2> DEFINE old == row[Op(r)]
  <2>1. Op(r) \in Ops /\ old \in Row
    BY <1>1, <1>7, HeadType DEF Find, HeldInv, IInv
  <2>2. CASE Go(r, "create", Blank)
    <3>1. call'[r].at = "create"
      BY <1>1, <2>2 DEF Go, Call
    <3> QED
      BY <3>1 DEF Holding
  <2>3. CASE Answer(r, old.phase)
    <3>1. call'[r].at \in {"find", "sync"}
      BY <1>1, <2>3 DEF Answer, Call
    <3> QED
      BY <1>3, <3>1
  <2>4. CASE call' = [call EXCEPT ![r] = IdleCall]
    <3>1. call'[r].at = "idle"
      BY <1>1, <2>4 DEF IdleCall
    <3> QED
      BY <1>3, <3>1
  <2>5. CASE call' = [call EXCEPT ![r].at = RecoverFrom(r),
                        ![r].mem = [old EXCEPT !.phase = "confirming"],
                        ![r].fresh = FALSE]
    <3> DEFINE m == [old EXCEPT !.phase = "confirming"]
    <3>1. m.phase = "confirming" /\ m.hash = old.hash
      BY <1>2, <2>1, RowUpdates
    <3> HIDE DEF m
    <3>2. call'[r].mem = m /\ call'[r].todo = k.todo
      BY <1>1, <2>5 DEF Call, m
    <3> QED
      BY <3>1, <3>2 DEF CopyFrom, Op, Absent
  <2> QED
    BY <1>7, <2>2, <2>3, <2>4, <2>5 DEF Find
<1>8. CASE Create(r)
  <2>1. CASE call' = [call EXCEPT ![r] = IdleCall]
    <3>1. call'[r].at = "idle"
      BY <1>1, <2>1 DEF IdleCall
    <3> QED
      BY <1>3, <3>1
  <2>2. CASE row[Op(r)].phase = Absent
    <3> DEFINE new == [Blank EXCEPT !.phase = "submitted"]
               m == [new EXCEPT !.phase = "confirming"]
    <3>1. m.phase = "confirming"
      BY DEF Blank
    <3> HIDE DEF m
    <3>2. call'[r].mem = m /\ call'[r].todo = k.todo
      BY <1>1, <1>8, <2>2 DEF Create, Call, m
    <3> QED
      BY <2>2, <3>1, <3>2 DEF CopyFrom, Op, Absent
  <2> QED
    BY <1>8, <2>1, <2>2 DEF Create
<1>9. CASE SaveStart(r) \/ SaveHash(r)
  BY <1>4, <1>9 DEF SaveStart, SaveHash, Holding, CallSteps
<1>10. CASE Simulate(r)
  <2>1. k.at \in Holding
    BY <1>10 DEF Simulate, Holding, CallSteps
  <2>2. CASE Throw(r)
    BY <2>1, <2>2, ThrowsFrom
  <2>3. CASE call' = [call EXCEPT ![r].at = "submit", ![r].seq = accountSeq + 1]
    <3>1. call'[r].mem = k.mem /\ call'[r].todo = k.todo
      BY <1>1, <2>3 DEF Call
    <3> QED
      BY <2>1, <3>1 DEF CopyFrom, CallKeeps, Op, HeldInv, Shown
  <2> QED
    BY <1>10, <2>2, <2>3 DEF Simulate
<1>11. CASE Submit(r)
  <2>1. k.at \in Holding
    BY <1>11 DEF Submit, Holding, CallSteps
  <2>2. CASE Throw(r)
    BY <2>1, <2>2, ThrowsFrom
  <2>3. CASE Len(tx) < MaxTx /\ Go(r, "saveHash", [k.mem EXCEPT !.hash = Len(tx) + 1])
    <3> DEFINE m == [k.mem EXCEPT !.hash = Len(tx) + 1]
    <3>1. Len(tx) \in Nat /\ MaxTx \in Nat
      BY ProvisionAssumption DEF HeldInv, IInv, StateTypes
    <3>2. Len(tx) + 1 \in 0..MaxTx /\ Len(tx) + 1 # NoHash
      BY <2>3, <3>1 DEF NoHash
    <3>3. m \in Row /\ m.phase = k.mem.phase /\ m.hash = Len(tx) + 1
      BY <1>1, <3>2 DEF Row
    <3>4. m.phase # Absent /\ m.hash # NoHash
      BY <2>1, <3>2, <3>3 DEF HeldInv, Shown
    <3> QED
      BY <2>1, <2>3, <3>3, <3>4, GoesFrom
  <2> QED
    BY <1>11, <2>2, <2>3 DEF Submit
<1>12. CASE Poll(r) \/ Readback(r)
  <2>1. k.at \in Holding
    BY <1>12 DEF Poll, Readback, Holding, CallSteps
  <2>2. CASE Throw(r)
    BY <2>1, <2>2, ThrowsFrom
  <2> QED
    BY <1>4, <1>5, <1>12, <2>1, <2>2 DEF Poll, PollOutcome, Readback
<1>13. CASE SaveFails(r)
  BY <1>13, ThrowsFrom DEF SaveFails, Holding, CallSteps
<1> QED
  BY <1>6, <1>7, <1>8, <1>9, <1>10, <1>11, <1>12, <1>13 DEF RequestStep

\* Where the copy comes from that a worker has after its step.
JobCopyFrom(w) ==
  /\ job'[w].mem.phase # Absent
  /\ JobOp(w)' = JobOp(w)
  /\ JobKeepsHash(w) \/ job'[w].mem.hash = row[JobOp(w)].hash

LEMMA TurnsFrom ==
  ASSUME HeldInv, NEW w \in Workers, NEW s, NEW m \in Row, Turn(w, s, m),
         m.phase # Absent,
         \/ job[w].at \in JobHolding
            /\ (job[w].mem.hash # NoHash => m.hash # NoHash)
         \/ m.hash = row[JobOp(w)].hash
  PROVE  JobCopyFrom(w)
<1>1. job'[w].mem = m /\ job'[w].ops = job[w].ops
  BY DEF Turn, HeldInv, IInv, StateTypes, Job
<1> QED
  BY <1>1 DEF JobCopyFrom, JobKeepsHash, JobOp

LEMMA JobOrigin ==
  ASSUME HeldInv, NEW w \in Workers, WorkerStep(w), job'[w].at \in JobHolding
  PROVE  JobCopyFrom(w)
<1> DEFINE j == job[w]
           r == row[JobOp(w)]
<1>1. /\ job \in [Workers -> Job] /\ j \in Job /\ j.mem \in Row
      /\ row \in [Ops -> Row]
  BY DEF HeldInv, IInv, StateTypes, Job
<1>2. \A ph \in {"confirming", "failed_terminal", "failed_retryable", "unknown"} :
        ph \in Phases /\ ph # Absent
  BY DEF Phases, Absent
<1>3. ASSUME Rest(w) \/ Turn(w, "handler", Blank)
      PROVE  FALSE
  <2>1. job'[w].at \in {"idle", "handler"}
    BY <1>1, <1>3 DEF Rest, Turn, IdleJob, Job
  <2> QED
    BY <2>1 DEF JobHolding
<1>4. CASE Claim(w)
  <2>1. job'[w].at = "claimed"
    BY <1>1, <1>4 DEF Claim, IdleJob
  <2> QED
    BY <2>1 DEF JobHolding
<1>5. CASE Process(w) \/ Handle(w)
  <2> DEFINE q == [r EXCEPT !.phase = "confirming"]
             t == [r EXCEPT !.attempts = @ + 1, !.phase = "failed_terminal"]
             f == [ScheduleRetry(r) EXCEPT !.phase = "failed_retryable"]
  <2>1. r \in Row
    BY <1>1, <1>5, JobRow DEF Process, Handle, HeldInv, IInv
  <2>2. \A m \in {q, t, f} : m \in Row /\ m.phase # Absent /\ m.hash = r.hash
    <3>1. q \in Row /\ q.phase # Absent /\ q.hash = r.hash
      BY <1>2, <2>1, RowUpdates
    <3>2. t \in Row /\ t.phase # Absent /\ t.hash = r.hash
      BY <1>2, <2>1, RowUpdates
    <3>3. f \in Row /\ f.phase # Absent /\ f.hash = r.hash
      BY <1>2, <2>1, RowUpdates
    <3> HIDE DEF q, t, f, r
    <3> QED
      BY <3>1, <3>2, <3>3
  <2>3. \/ Rest(w) \/ Turn(w, "handler", Blank)
        \/ Turn(w, "save", q) \/ Turn(w, "saveHandler", t)
        \/ Turn(w, "saveHandler", f)
    BY <1>5 DEF Process, Handle
  <2> HIDE DEF q, t, f, r
  <2>4. ASSUME NEW m \in {q, t, f}, NEW s, Turn(w, s, m)
        PROVE  JobCopyFrom(w)
    BY <2>2, <2>4, TurnsFrom DEF r
  <2> QED
    BY <1>3, <2>3, <2>4
<1>6. CASE JobSave(w)
  BY <1>1, <1>3, <1>6, TurnsFrom DEF JobSave, JobHolding, HeldInv, Shown
<1>7. CASE JobPoll(w) \/ JobReadback(w)
  <2>1. j.at \in JobHolding /\ j.mem.phase # Absent
    BY <1>7 DEF JobPoll, JobReadback, JobHolding, HeldInv, Shown
  <2>2. ASSUME Turn(w, "readback", j.mem)
        PROVE  JobCopyFrom(w)
    BY <1>1, <2>1, <2>2, TurnsFrom
  <2> DEFINE q == [ScheduleRetry(j.mem) EXCEPT !.phase = "unknown"]
             t == [j.mem EXCEPT !.phase = "failed_terminal", !.due = TRUE]
             f == [j.mem EXCEPT !.phase = "failed_terminal"]
  <2>3. \A m \in {q, t, f} : m \in Row /\ m.phase # Absent /\ m.hash = j.mem.hash
    <3>1. q \in Row /\ q.phase # Absent /\ q.hash = j.mem.hash
      BY <1>1, <1>2, RowUpdates
    <3>2. t \in Row /\ t.phase # Absent /\ t.hash = j.mem.hash
      BY <1>1, <1>2, RowUpdates
    <3>3. f \in Row /\ f.phase # Absent /\ f.hash = j.mem.hash
      BY <1>1, <1>2, RowUpdates
    <3> HIDE DEF q, t, f
    <3> QED
      BY <3>1, <3>2, <3>3
  <2>4. \/ Turn(w, "handler", Blank) \/ Turn(w, "readback", j.mem)
        \/ Turn(w, "saveResult", q) \/ Turn(w, "saveResult", t)
        \/ Turn(w, "saveResult", f)
    BY <1>7 DEF JobPoll, JobReadback
  <2> HIDE DEF q, t, f
  <2>5. ASSUME NEW m \in {q, t, f}, NEW s, Turn(w, s, m)
        PROVE  JobCopyFrom(w)
    BY <2>1, <2>3, <2>5, TurnsFrom
  <2> QED
    BY <1>3, <2>2, <2>4, <2>5
<1> QED
  BY <1>4, <1>5, <1>6, <1>7 DEF WorkerStep

\* What a step does to a row: it writes a copy, creates it or lets time pass.
RowFrom(o) ==
  \/ row'[o].phase = row[o].phase /\ row'[o].hash = row[o].hash
  \/ \E r \in Requests :
       call[r].at \in Holding /\ Op(r) = o /\ row'[o] = call[r].mem
  \/ \E w \in Workers :
       job[w].at \in JobHolding /\ JobOp(w) = o /\ row'[o] = job[w].mem
  \/ row[o].phase = Absent /\ row'[o].phase = "submitted"

LEMMA RowOrigin ==
  ASSUME HeldInv, [Next]_vars, NEW o \in Ops
  PROVE  RowFrom(o)
<1>1. row \in [Ops -> Row] /\ row[o] \in Row
  BY DEF HeldInv, IInv, StateTypes
<1>2. CASE UNCHANGED row
  BY <1>2 DEF RowFrom
<1>3. ASSUME NEW u, NEW m, Save(u, m)
      PROVE  (u = o /\ row'[o] = m) \/ row'[o] = row[o]
  BY <1>1, <1>3 DEF Save
<1>4. ASSUME NEW u \in Ops, BackoffElapses(u)
      PROVE  RowFrom(o)
  BY <1>1, <1>4 DEF BackoffElapses, RowFrom, Row
<1>5. ASSUME NEW r \in Requests, Create(r)
      PROVE  RowFrom(o)
  <2>1. [Blank EXCEPT !.phase = "submitted"].phase = "submitted"
    BY DEF Blank
  <2> QED
    BY <1>2, <1>3, <1>5, <2>1 DEF Create, RowFrom
<1>6. ASSUME NEW r \in Requests,
             SaveStart(r) \/ SaveHash(r) \/ SaveResult(r) \/ SaveFailed(r)
      PROVE  RowFrom(o)
  <2>1. call[r].at \in Holding /\ Save(Op(r), call[r].mem)
    BY <1>6 DEF SaveStart, SaveHash, SaveResult, SaveFailed, Holding, CallSteps
  <2> QED
    BY <1>3, <2>1 DEF RowFrom
<1>7. ASSUME NEW w \in Workers, JobSave(w)
      PROVE  RowFrom(o)
  <2>1. job[w].at \in JobHolding /\ Save(JobOp(w), job[w].mem)
    BY <1>7 DEF JobSave, JobHolding
  <2> QED
    BY <1>3, <2>1 DEF RowFrom
<1> QED
  BY <1>2, <1>4, <1>5, <1>6, <1>7
     DEF Next, RequestStep, WorkerStep, Begin, Find, Simulate, Submit, Poll,
         Readback, SaveFails, Sync, Claim, Process, JobPoll, JobReadback, Handle,
         LedgerIncludes, NetworkDrops, Crash, vars

\* The copies after a step, of whichever request or worker moved.
LEMMA AllOrigins ==
  ASSUME HeldInv, [Next]_vars
  PROVE  /\ \A r \in Requests : call'[r].at \in Holding => CopyFrom(r)
         /\ \A w \in Workers : job'[w].at \in JobHolding => JobCopyFrom(w)
<1>1. call \in [Requests -> Call] /\ job \in [Workers -> Job]
  BY DEF HeldInv, IInv, StateTypes
<1>2. ASSUME NEW r \in Requests, call'[r] = call[r], call'[r].at \in Holding
      PROVE  CopyFrom(r)
  BY <1>2 DEF CopyFrom, CallKeeps, Op, HeldInv, Shown
<1>3. ASSUME NEW w \in Workers, job'[w] = job[w], job'[w].at \in JobHolding
      PROVE  JobCopyFrom(w)
  BY <1>3 DEF JobCopyFrom, JobKeepsHash, JobOp, HeldInv, Shown
<1>4. ASSUME NEW r \in Requests, RequestStep(r)
      PROVE  /\ UNCHANGED job
             /\ \A d \in Requests : d # r => call'[d] = call[d]
  BY <1>1, <1>4
     DEF RequestStep, Begin, Find, Create, SaveStart, Simulate, Submit, SaveHash,
         Poll, PollOutcome, Readback, SaveResult, SaveFailed, SaveFails, Sync,
         Go, Throw, Answer
<1>5. ASSUME NEW w \in Workers, WorkerStep(w)
      PROVE  /\ UNCHANGED call
             /\ \A d \in Workers : d # w => job'[d] = job[d]
  BY <1>1, <1>5
     DEF WorkerStep, Claim, Process, JobSave, JobPoll, JobReadback, Handle,
         Turn, Rest
<1>6. CASE \E r \in Requests : RequestStep(r)
  BY <1>2, <1>3, <1>4, <1>6, RequestOrigin
<1>7. CASE \E w \in Workers : WorkerStep(w)
  BY <1>2, <1>3, <1>5, <1>7, JobOrigin
<1>8. CASE Crash
  <2>1. \A r \in Requests : call'[r] = call[r] \/ call'[r].at = "idle"
    BY <1>1, <1>8 DEF Crash, IdleCall
  <2>2. \A w \in Workers : job'[w] = job[w] \/ job'[w].at = "idle"
    BY <1>1, <1>8 DEF Crash, Rest, IdleJob
  <2> QED
    BY <1>2, <1>3, <2>1, <2>2 DEF Holding, JobHolding
<1>9. CASE UNCHANGED <<call, job>>
  BY <1>2, <1>3, <1>9
<1> QED
  BY <1>6, <1>7, <1>8, <1>9
     DEF Next, BackoffElapses, LedgerIncludes, NetworkDrops, vars

LEMMA ShownStep == HeldInv /\ [Next]_vars => HeldInv'
<1> SUFFICES ASSUME HeldInv, [Next]_vars
             PROVE  Shown'
  BY StepInv DEF HeldInv
<1>1. ASSUME NEW o \in Ops, row'[o].phase = Absent
      PROVE  row'[o].hash = NoHash
  BY <1>1, RowOrigin DEF RowFrom, HeldInv, Shown, Absent
<1> QED
  BY <1>1, AllOrigins DEF Shown, CopyFrom, JobCopyFrom

LEMMA ShownAlways == Spec => []HeldInv
<1>1. Init => Shown
  BY DEF Init, Shown, Blank, IdleCall, IdleJob, Holding, JobHolding
<1> QED
  BY <1>1, InitInv, ShownStep, PTL DEF Spec, HeldInv

\* A transaction is added by a request that submits without a hash.
LEMMA SignedWithoutHash ==
  ASSUME IInv, [Next]_vars, NEW n \in 1..Len(tx'), n > Len(tx)
  PROVE  \E r \in Requests : /\ call[r].at = "submit" /\ tx'[n].op = Op(r)
                             /\ call[r].mem.hash = NoHash
<1>1. tx \in Seq(Tx) /\ Len(tx) \in Nat
  BY DEF IInv, StateTypes
<1>2. tx' # tx
  BY <1>1
<1>3. ASSUME NEW i \in 1..Len(tx), LedgerIncludes(i) \/ NetworkDrops(i)
      PROVE  FALSE
  <2>1. Len(tx') = Len(tx)
    BY <1>1, <1>3, TxDecided DEF LedgerIncludes, NetworkDrops, IInv, StateTypes
  <2> QED
    BY <1>1, <2>1
<1>4. PICK r \in Requests : Submit(r)
  BY <1>2, <1>3 DEF Next, vars, chain, RequestStep, WorkerStep, Begin, Find, Create,
     SaveStart, Simulate, SaveHash, Poll, Readback, SaveResult, SaveFailed,
     SaveFails, Sync, Claim, Process, JobSave, JobPoll, JobReadback, Handle,
     BackoffElapses, Crash
<1> DEFINE t == [op |-> Op(r), seq |-> call[r].seq, state |-> "pending"]
<1>5. call[r].at = "submit" /\ call[r].mem.hash = NoHash /\ tx' = Append(tx, t)
  BY <1>2, <1>4 DEF Submit, IInv, CallsGood, CallGood, Unsent
<1>6. t \in Tx
  <2>1. call[r] \in Call /\ Op(r) \in Ops
    BY <1>5, HeadType DEF IInv
  <2> QED
    BY <2>1 DEF Tx, Call
<1> HIDE DEF t
<1>7. Len(tx') = Len(tx) + 1 /\ tx'[Len(tx) + 1] = t
  BY <1>1, <1>5, <1>6, AppendProperties
<1>8. n = Len(tx) + 1
  BY <1>1, <1>7
<1> QED
  BY <1>5, <1>7, <1>8 DEF t

LEMMA HashedStays ==
  ASSUME HeldInv, [Next]_vars, NEW o \in Ops, Hashed(o)
  PROVE  /\ Hashed(o)'
         /\ \A n \in 1..Len(tx') : n > Len(tx) => tx'[n].op # o
<1>1. row[o].hash # NoHash /\ row[o].phase # Absent
  BY DEF Hashed, HeldInv, Shown
<1>2. row'[o].hash # NoHash
  BY <1>1, RowOrigin DEF RowFrom, Hashed
<1>3. ASSUME NEW r \in Requests, call'[r].at \in Holding, Op(r)' = o
      PROVE  call'[r].mem.hash # NoHash
  BY <1>1, <1>3, AllOrigins DEF CopyFrom, CallKeeps, Hashed
<1>4. ASSUME NEW w \in Workers, job'[w].at \in JobHolding, JobOp(w)' = o
      PROVE  job'[w].mem.hash # NoHash
  BY <1>1, <1>4, AllOrigins DEF JobCopyFrom, JobKeepsHash, Hashed
<1>5. ASSUME NEW n \in 1..Len(tx'), n > Len(tx), tx'[n].op = o
      PROVE  FALSE
  <2>1. PICK r \in Requests : /\ call[r].at = "submit" /\ tx'[n].op = Op(r)
                              /\ call[r].mem.hash = NoHash
    BY <1>5, SignedWithoutHash DEF HeldInv
  <2> QED
    BY <1>5, <2>1 DEF Hashed, Holding, CallSteps
<1> QED
  BY <1>2, <1>3, <1>4, <1>5 DEF Hashed

\* What was sent is polled and not signed again: once the hash is in the row
\* and in every copy of it, no request, worker, retry or crash loses it and no
\* transaction of the operation is added.
THEOREM KnownHashRepolled == Spec => RepollsKnownHash
<1>1. HeldInv /\ [Next]_vars =>
        [\A o \in Ops : Hashed(o) =>
           /\ Hashed(o)'
           /\ \A n \in 1..Len(tx') : n > Len(tx) => tx'[n].op # o]_vars
  BY HashedStays
<1> QED
  BY <1>1, ShownAlways, PTL DEF Spec, RepollsKnownHash

------------------------------------------------------------------------------
(* Links and roles that were only ever turned one way.                      *)

\* The operation that undoes o.
Undo(o) == [target |-> o.target, to |-> IF o.to = "on" THEN "off" ELSE "on"]

\* The contract holds what the last transaction on a target left, so a target
\* that transactions turned one way only is that way.
ValuesFollow ==
  \A o \in Ops : Took(tx, o) /\ ~Took(tx, Undo(o)) => value[o.target] = o.to

\* An operation that no transaction undid holds as the row and the table say.
UndisturbedHolds ==
  \A o \in Ops : ~Succeeded(Undo(o)) =>
    /\ row[o].phase = "confirmed" => value[o.target] = o.to
    /\ o.target \in Links /\ o.to = "on" /\ table[o.target] = "on" =>
         value[o.target] = "on"

LEMMA UndoTypes ==
  ASSUME NEW o \in Ops
  PROVE  /\ Undo(o) \in Ops /\ Undo(o) # o /\ o.target \in Targets
         /\ \A u \in Ops : u.target = o.target => u = o \/ u = Undo(o)
  BY DEF Undo, Ops

\* A transaction that is sent has executed nothing yet.
LEMMA SentTookNothing ==
  ASSUME IInv, NEW r \in Requests, RequestStep(r)
  PROVE  /\ UNCHANGED value
         /\ \A o \in Ops : Took(tx', o) <=> Took(tx, o)
<1>1. CASE UNCHANGED <<tx, value>>
  BY <1>1 DEF Took
<1>2. CASE /\ UNCHANGED value
           /\ tx' = Append(tx, [op |-> Op(r), seq |-> call[r].seq, state |-> "pending"])
           /\ call[r].at = "submit"
  <2> DEFINE t == [op |-> Op(r), seq |-> call[r].seq, state |-> "pending"]
  <2>1. call[r] \in Call /\ Op(r) \in Ops
    BY <1>2, HeadType DEF IInv
  <2>2. t \in Tx /\ t.state # "success"
    BY <2>1 DEF Tx, Call
  <2>3. tx \in Seq(Tx) /\ Len(tx) \in Nat
    BY DEF IInv, StateTypes
  <2> HIDE DEF t
  <2>4. tx' = Append(tx, t)
    BY <1>2 DEF t
  <2>5. /\ Len(tx') = Len(tx) + 1 /\ tx'[Len(tx) + 1] = t
        /\ \A n \in 1..Len(tx) : tx'[n] = tx[n]
    BY <2>2, <2>3, <2>4, AppendProperties
  <2>6. \A n \in 1..Len(tx') : n \in 1..Len(tx) \/ n = Len(tx) + 1
    BY <2>3, <2>5
  <2>7. \A n \in 1..Len(tx) : n \in 1..Len(tx')
    BY <2>3, <2>5
  <2> QED
    BY <1>2, <2>2, <2>5, <2>6, <2>7 DEF Took
<1>3. CASE Submit(r)
  BY <1>1, <1>2, <1>3 DEF Submit
<1>4. CASE ~Submit(r)
  <2>1. UNCHANGED <<tx, value>>
    BY <1>4 DEF RequestStep, Begin, Find, Create, SaveStart, Simulate, SaveHash, Poll,
                Readback, SaveResult, SaveFailed, SaveFails, Sync, chain
  <2> QED
    BY <1>1, <2>1
<1> QED
  BY <1>3, <1>4

\* A ledger that executes an operation turns its target; nothing else does.
LEMMA LedgerFollows ==
  ASSUME IInv, ValuesFollow, NEW n \in 1..Len(tx), LedgerIncludes(n) \/ NetworkDrops(n)
  PROVE  ValuesFollow'
<1> DEFINE u == tx[n].op
<1>1. /\ tx \in Seq(Tx) /\ Len(tx) \in Nat /\ tx[n] \in Tx /\ u \in Ops
      /\ value \in [Targets -> {"on", "off"}]
  <2>1. tx \in Seq(Tx) /\ Len(tx) \in Nat /\ value \in [Targets -> {"on", "off"}]
    BY DEF IInv, StateTypes
  <2>2. tx[n] \in Tx
    BY <2>1
  <2> QED
    BY <2>1, <2>2 DEF Tx
<1>2. /\ Len(tx') = Len(tx)
      /\ tx'[n].op = u
      /\ \A m \in 1..Len(tx) : m # n => tx'[m] = tx[m]
      /\ tx[n].state = "pending"
  BY <1>1 DEF LedgerIncludes, NetworkDrops, Tx
<1>3. \/ value' = value /\ tx'[n].state # "success"
      \/ value' = [value EXCEPT ![u.target] = u.to] /\ tx'[n].state = "success"
  BY <1>1 DEF LedgerIncludes, NetworkDrops, Tx
<1> HIDE DEF u
<1>4. CASE value' = value /\ tx'[n].state # "success"
  <2>1. \A o \in Ops : Took(tx', o) <=> Took(tx, o)
    BY <1>2, <1>4 DEF Took
  <2> QED
    BY <1>4, <2>1, UndoTypes DEF ValuesFollow
<1>5. CASE value' = [value EXCEPT ![u.target] = u.to] /\ tx'[n].state = "success"
  <2>1. Took(tx', u)
    BY <1>2, <1>5 DEF Took
  <2>2. \A o \in Ops \ {u} : Took(tx', o) <=> Took(tx, o)
    BY <1>2, <1>5 DEF Took, u
  <2> SUFFICES ASSUME NEW o \in Ops, Took(tx', o), ~Took(tx', Undo(o))
               PROVE  value'[o.target] = o.to
    BY DEF ValuesFollow
  <2>3. Undo(o) # u
    BY <2>1
  <2>4. CASE o = u
    BY <1>1, <1>5, <2>4, UndoTypes
  <2>5. CASE o # u
    <3>1. o.target # u.target
      BY <1>1, <2>3, <2>5, UndoTypes
    <3>2. value[o.target] = o.to
      BY <2>2, <2>3, <2>5, UndoTypes DEF ValuesFollow
    <3> QED
      BY <1>1, <1>5, <3>1, <3>2, UndoTypes
  <2> QED
    BY <2>4, <2>5
<1> QED
  BY <1>3, <1>4, <1>5

\* Without any condition: a link or role that no transaction has undone is on
\* the contract as its confirmed row says, and a link the table lists is there
\* unless it was removed since.  The old confirmation that linking again gets
\* (AdminStellarService.ts) can be wrong of removed links only.
THEOREM WrongOnlyOfUndone == Spec => []UndisturbedHolds
<1>1. Init => ValuesFollow
  BY DEF Init, ValuesFollow, Took
<1>2. IInv /\ ValuesFollow /\ [Next]_vars => ValuesFollow'
  <2> SUFFICES ASSUME IInv, ValuesFollow, [Next]_vars
               PROVE  ValuesFollow'
    OBVIOUS
  <2>1. CASE \E r \in Requests : RequestStep(r)
    BY <2>1, SentTookNothing, UndoTypes DEF ValuesFollow
  <2>2. CASE \/ \E w \in Workers : WorkerStep(w)
             \/ \E o \in Ops : BackoffElapses(o)
             \/ Crash
             \/ UNCHANGED vars
    <3>1. UNCHANGED <<tx, value>>
      BY <2>2 DEF WorkerStep, Claim, Process, JobSave, JobPoll, JobReadback, Handle,
                  BackoffElapses, Crash, vars, chain
    <3> QED
      BY <3>1 DEF ValuesFollow
  <2>3. CASE \E n \in 1..Len(tx) : LedgerIncludes(n) \/ NetworkDrops(n)
    BY <2>3, LedgerFollows
  <2> QED
    BY <2>1, <2>2, <2>3 DEF Next
<1>3. IInv /\ ValuesFollow => UndisturbedHolds
  <2> SUFFICES ASSUME IInv, ValuesFollow, NEW o \in Ops, ~Succeeded(Undo(o)),
                      \/ row[o].phase = "confirmed"
                      \/ o.target \in Links /\ o.to = "on" /\ table[o.target] = "on"
               PROVE  value[o.target] = o.to
    BY DEF UndisturbedHolds
  <2>1. Took(tx, o)
    <3>1. CASE row[o].phase = "confirmed"
      BY <3>1 DEF IInv, RowsGood, Good, Took
    <3>2. CASE o.target \in Links /\ o.to = "on" /\ table[o.target] = "on"
      <4>1. o = [target |-> o.target, to |-> "on"]
        BY <3>2 DEF Ops
      <4> QED
        BY <3>2, <4>1 DEF IInv, TableGood
    <3> QED
      BY <3>1, <3>2
  <2>2. ~Took(tx, Undo(o))
    BY DEF Succeeded, Took
  <2> QED
    BY <2>1, <2>2 DEF ValuesFollow
<1> QED
  BY <1>1, <1>2, <1>3, Invariance, PTL DEF Spec
=============================================================================
