--------------------------- MODULE IssuanceProofs ---------------------------
(***************************************************************************)
(* Proofs about Issuance for any number of requests, credentials and       *)
(* participations.  The tables only grow in what matters: a participation  *)
(* stays, a row keeps its business key and content, an offer and an effect *)
(* are not withdrawn.  A verdict may be: calls of the outbox that overlap  *)
(* overwrite it.  So nothing rests on a verdict, and what a request learnt *)
(* at one of its queries is still true at the next, whatever ran in        *)
(* between; IInv says, for each place a request can be at, what it has     *)
(* learnt.                                                                 *)
(***************************************************************************)
EXTENDS PublicPages, SequenceTheorems, TLAPS

Outstanding(o) == offer[o] \in {"open", "signed"}

\* An operation for a credential of participation p was prepared.
IssuePrepared(p) ==
  \E c \in Creds : row[c] # None /\ Pair[row[c].fact] = p /\ Outstanding(IssueOp(c))

\* The ledger numbers of a copy of the row of c were earned.
LedgersSound(rec, c) ==
  /\ rec.ledgers # {} => effect[IssueOp(c)] = "success"
  /\ "revoked" \in rec.ledgers =>
       \E reason \in Reasons : effect[RevokeOp(c, reason)] = "success"

OffersSound ==
  \A o \in Ops : Outstanding(o) =>
    /\ row[o.cred] # None
    /\ o.kind = "issue" => intent[o.cred] = row[o.cred].content

OutboxSound ==
  \A o \in Ops :
    /\ effect[o] # "none" => offer[o] = "signed"
    /\ verdict[o] = "confirmed" => effect[o] = "success"
    /\ o.kind = "revoke" /\ effect[o] = "success" => effect[IssueOp(o.cred)] = "success"

RowsSound == \A c \in Creds : row[c] # None => LedgersSound(row[c], c)

Plans == { <<"checked_in", "participation_confirmed">>,
           <<"participation_confirmed">>, <<"credential_issued">> }

Reading == {"readState", "readLog"}
Saving  == {"saveState", "saveLog", "update"}
AtRow   == {"prepare", "project", "saveRow", "setRevoked"}

\* A request on its way through a participation knows it, and has prepared
\* an issue before it goes for the last state.
AdvanceSound(r) ==
  LET q == req[r] IN
  /\ q.at = "register" => q.pair \in Pairs /\ q.todo \in Plans \ {<<"credential_issued">>}
  /\ q.at \in Reading \cup Saving =>
       /\ q.pair \in Pairs /\ part[q.pair] # None
       /\ q.todo \in Plans
       /\ q.todo = <<"credential_issued">> => IssuePrepared(q.pair)
  /\ q.at \in Saving => q.state = Head(q.todo)

\* A request on its way to a credential knows its key, then its row, and
\* holds the content of that row before it asks for an issue of it.
CreateSound(r) ==
  LET q == req[r] IN
  /\ q.at \in {"assert", "find", "insert"} =>
       /\ q.flow = "issue"
       /\ q.fact \in Facts /\ q.content \in Contents /\ q.pair = Pair[q.fact]
       /\ q.pair \in Pairs /\ part[q.pair] # None
  /\ q.at \in AtRow => q.op \in Ops /\ row[q.op.cred] # None
  /\ q.at = "prepare" =>
       /\ q.op.kind = "issue" => q.content = row[q.op.cred].content
       /\ q.flow = "issue" =>
            /\ q.op.kind = "issue" /\ q.pair = Pair[row[q.op.cred].fact]
            /\ q.pair \in Pairs /\ part[q.pair] # None

\* A copy of a row that will be saved differs from it only in what the
\* request may change.
CopySound(r) ==
  LET q == req[r] IN
  /\ q.at = "project" => q.flow = "submit" /\ effect[q.op] = "success"
  /\ q.at = "saveRow" =>
       /\ q.flow # "submit" => q.op.kind # "issue"
       /\ q.copy \in Record
       /\ q.copy.fact = row[q.op.cred].fact
       /\ q.copy.content = row[q.op.cred].content
       /\ LedgersSound(q.copy, q.op.cred)

RequestSound(r) == AdvanceSound(r) /\ CreateSound(r) /\ CopySound(r)

IInv ==
  /\ TypeOK
  /\ OffersSound
  /\ OutboxSound
  /\ RowsSound
  /\ IssuedHasCredential
  /\ \A r \in Requests : RequestSound(r)

------------------------------------------------------------------------------
(* What a step keeps.                                                       *)

Grows ==
  /\ \A p \in Pairs : part[p] # None => part'[p] # None
  /\ \A c \in Creds : row[c] # None =>
       /\ row'[c] # None
       /\ row'[c].fact = row[c].fact /\ row'[c].content = row[c].content
  /\ \A o \in Ops :
       /\ Outstanding(o) => Outstanding(o)'
       /\ effect[o] = "success" => effect'[o] = "success"

\* The operations of a credential are operations.
LEMMA OpsTyped ==
  /\ \A c \in Creds : IssueOp(c) \in Ops /\ IssueOp(c).kind = "issue" /\ IssueOp(c).cred = c
  /\ \A c \in Creds, a \in Reasons :
       RevokeOp(c, a) \in Ops /\ RevokeOp(c, a).kind = "revoke" /\ RevokeOp(c, a).cred = c
  /\ \A o \in Ops : o.cred \in Creds
  /\ \A o \in Ops : o.kind = "issue" => o = IssueOp(o.cred)
  /\ \A o \in Ops : o.kind # "issue" =>
       o.kind = "revoke" /\ o.reason \in Reasons /\ o = RevokeOp(o.cred, o.reason)
BY DEF Ops, IssueOp, RevokeOp

\* An idle request is a request, whatever the constants are.
LEMMA IdleTyped == Idle \in Request
BY DEF Idle, Request, Steps, Flows

\* A prepared issue stays prepared.
LEMMA PreparedStays ==
  ASSUME Grows, NEW p \in Pairs, IssuePrepared(p)
  PROVE  IssuePrepared(p)'
BY OpsTyped DEF Grows, IssuePrepared

\* Earned ledger numbers stay earned.
LEMMA LedgersStay ==
  ASSUME Grows
  PROVE  \A rec \in Record, c \in Creds : LedgersSound(rec, c) => LedgersSound(rec, c)'
BY OpsTyped DEF Grows, LedgersSound

\* What a request has learnt survives the steps of the others.
LEMMA RequestKeeps ==
  ASSUME TypeOK, Grows, NEW s \in Requests, RequestSound(s), req'[s] = req[s]
  PROVE  RequestSound(s)'
<1>1. AdvanceSound(s)'
  <2>1. \A p \in Pairs : IssuePrepared(p) => IssuePrepared(p)'
    BY PreparedStays
  <2> QED  BY <2>1 DEF RequestSound, AdvanceSound, Grows
<1>2. CreateSound(s)'
  BY OpsTyped DEF RequestSound, CreateSound, Grows, AtRow
<1>3. CopySound(s)'
  BY OpsTyped, LedgersStay DEF RequestSound, CreateSound, CopySound, Grows, AtRow
<1> QED  BY <1>1, <1>2, <1>3 DEF RequestSound

\* A step that writes no table and only one request keeps the invariant when
\* that request still knows what it should.
LEMMA Quiet ==
  ASSUME IInv, NEW r \in Requests, UNCHANGED <<tables, outbox>>, TypeOK',
         \A s \in Requests : s # r => req'[s] = req[s], RequestSound(r)'
  PROVE  IInv'
<1>1. Grows
  BY DEF Grows, Outstanding, tables, outbox
<1>2. \A s \in Requests : RequestSound(s)'
  BY <1>1, RequestKeeps DEF IInv
<1>3. OffersSound' /\ OutboxSound' /\ RowsSound' /\ IssuedHasCredential'
  BY DEF IInv, OffersSound, OutboxSound, RowsSound, IssuedHasCredential, Outstanding,
         LedgersSound, tables, outbox
<1> QED  BY <1>2, <1>3 DEF IInv

------------------------------------------------------------------------------
(* Participations.                                                          *)

\* A request record put in the place of one keeps the function typed.
LEMMA RequestWritten ==
  ASSUME TypeOK, NEW r \in Requests, NEW q \in Request, req' = [req EXCEPT ![r] = q]
  PROVE  /\ req' \in [Requests -> Request]
         /\ req'[r] = q
         /\ \A s \in Requests : s # r => req'[s] = req[s]
BY DEF TypeOK

\* A request that ended knows nothing and needs nothing.
LEMMA IdleSound ==
  ASSUME NEW r \in Requests, req'[r] = Idle
  PROVE  RequestSound(r)'
BY DEF RequestSound, AdvanceSound, CreateSound, CopySound, Idle, Reading, Saving, AtRow

\* Ending a request keeps the invariant.
LEMMA ReturnKeeps ==
  ASSUME IInv, NEW r \in Requests, Return(r), UNCHANGED <<tables, outbox>>
  PROVE  IInv'
<1>1. TypeOK'
  BY IdleTyped DEF IInv, TypeOK, Return, tables, outbox
<1>2. req'[r] = Idle /\ \A s \in Requests : s # r => req'[s] = req[s]
  BY DEF IInv, TypeOK, Return
<1> QED  BY <1>1, <1>2, IdleSound, Quiet

\* What a check-in plans is a plan, and never the last state.
LEMMA CheckInPlans ==
  \A s \in States :
    /\ CheckInPlan(s) \in Plans /\ CheckInPlan(s) \in Seq(States)
    /\ CheckInPlan(s) # <<"credential_issued">>
<1>1. <<"checked_in", "participation_confirmed">> # <<"credential_issued">>
  <2>1. /\ Len(<<"checked_in", "participation_confirmed">>) = 2
        /\ Len(<<"credential_issued">>) = 1
    OBVIOUS
  <2> QED  BY <2>1
<1>2. <<"participation_confirmed">> # <<"credential_issued">>
  <2>1. /\ <<"participation_confirmed">>[1] = "participation_confirmed"
        /\ <<"credential_issued">>[1] = "credential_issued"
    OBVIOUS
  <2> QED  BY <2>1
<1>3. /\ <<"checked_in", "participation_confirmed">> \in Seq(States)
      /\ <<"participation_confirmed">> \in Seq(States)
  BY DEF States
<1> QED  BY <1>1, <1>2, <1>3 DEF CheckInPlan, Plans

\* A check-in that begins knows its participation, or is about to create it.
LEMMA CheckInKeeps ==
  ASSUME IInv, NEW r \in Requests, NEW p \in Pairs, CheckIn(r, p)
  PROVE  IInv'
<1> DEFINE q == [Idle EXCEPT
       !.at = IF part[p] = None THEN "register" ELSE "readState",
       !.flow = "checkIn", !.pair = p,
       !.todo = CheckInPlan(IF part[p] = None THEN "registered" ELSE part[p].state)]
<1>1. /\ req' = [req EXCEPT ![r] = q] /\ UNCHANGED <<tables, outbox>>
      /\ TypeOK
  BY DEF CheckIn, IInv
<1>2. \E s \in States : q.todo = CheckInPlan(s)
  <2>1. part[p] # None => part[p].state \in States
    BY <1>1 DEF TypeOK, Participation
  <2>2. "registered" \in States
    BY DEF States
  <2> QED  BY <2>1, <2>2 DEF Idle
<1>3. /\ q.todo \in Plans /\ q.todo # <<"credential_issued">> /\ q.todo \in Seq(States)
  BY <1>2, CheckInPlans
<1>4. q \in Request
  BY <1>3, IdleTyped, ZenonT(60) DEF Request, Idle, Steps, Flows
<1>5. /\ q.at = IF part[p] = None THEN "register" ELSE "readState"
      /\ q.pair = p
  BY DEF Idle
<1> HIDE DEF q
<1>6. /\ req' \in [Requests -> Request] /\ req'[r] = q
      /\ \A s \in Requests : s # r => req'[s] = req[s]
  BY <1>1, <1>4, RequestWritten
<1>7. RequestSound(r)'
  BY <1>1, <1>3, <1>5, <1>6
     DEF RequestSound, AdvanceSound, CreateSound, CopySound, Reading, Saving, AtRow, tables
<1>8. TypeOK'
  BY <1>1, <1>6 DEF TypeOK, tables, outbox
<1> QED  BY <1>1, <1>6, <1>7, <1>8, Quiet

\* The first query of getParticipation keeps the invariant.
LEMMA ReadStateKeeps ==
  ASSUME IInv, NEW r \in Requests, ReadState(r)
  PROVE  IInv'
<1> DEFINE q == [req[r] EXCEPT !.at = "readLog", !.state = part[req[r].pair].state]
<1>1. /\ TypeOK /\ RequestSound(r) /\ req[r].at = "readState"
      /\ req[r] \in Request /\ UNCHANGED <<tables, outbox>>
  BY DEF IInv, TypeOK, ReadState
<1>2. req' = [req EXCEPT ![r] = q]
  BY <1>1 DEF ReadState, TypeOK
<1>3. part[req[r].pair] \in Participation
  BY <1>1 DEF TypeOK, RequestSound, AdvanceSound, Reading
<1>4. q \in Request
  BY <1>1, <1>3 DEF Request, Participation, Steps
<1>5. q.at = "readLog" /\ q.pair = req[r].pair /\ q.todo = req[r].todo
  BY <1>1 DEF Request
<1> HIDE DEF q
<1>6. /\ req' \in [Requests -> Request] /\ req'[r] = q
      /\ \A s \in Requests : s # r => req'[s] = req[s]
  BY <1>1, <1>2, <1>4, RequestWritten
<1>7. RequestSound(r)'
  BY <1>1, <1>5, <1>6
     DEF RequestSound, AdvanceSound, CreateSound, CopySound, Reading, Saving, AtRow,
         IssuePrepared, Outstanding, tables, outbox
<1>8. TypeOK'
  BY <1>1, <1>6 DEF TypeOK, tables, outbox
<1> QED  BY <1>1, <1>6, <1>7, <1>8, Quiet

\* The second query keeps it: what is built has the state the plan asked for.
LEMMA ReadLogKeeps ==
  ASSUME IInv, NEW r \in Requests, ReadLog(r)
  PROVE  IInv'
<1> DEFINE to == Head(req[r].todo)
           q == [req[r] EXCEPT !.at = "saveState", !.state = to,
                               !.log = Append(part[req[r].pair].log, to)]
<1>1. /\ TypeOK /\ RequestSound(r) /\ req[r].at = "readLog"
      /\ req[r] \in Request /\ UNCHANGED <<tables, outbox>>
  BY DEF IInv, TypeOK, ReadLog
<1>2. CASE ~ Allowed(req[r].state, to)
  <2>1. Return(r)
    BY <1>2 DEF ReadLog
  <2> QED  BY <1>1, <2>1, ReturnKeeps
<1>3. CASE Allowed(req[r].state, to)
  <2>1. req' = [req EXCEPT ![r] = q]
    BY <1>1, <1>3 DEF ReadLog, TypeOK
  <2>2. part[req[r].pair] \in Participation /\ to \in States
    BY <1>1 DEF TypeOK, RequestSound, AdvanceSound, Reading, Plans, States
  <2>3. Append(part[req[r].pair].log, to) \in Seq(States)
    BY <2>2, AppendProperties DEF Participation
  <2>4. q \in Request
    BY <1>1, <2>2, <2>3 DEF Request, Steps
  <2>5. /\ q.at = "saveState" /\ q.pair = req[r].pair /\ q.todo = req[r].todo
        /\ q.state = Head(q.todo)
    BY <1>1 DEF Request
  <2> HIDE DEF q
  <2>6. /\ req' \in [Requests -> Request] /\ req'[r] = q
        /\ \A s \in Requests : s # r => req'[s] = req[s]
    BY <1>1, <2>1, <2>4, RequestWritten
  <2>7. RequestSound(r)'
    BY <1>1, <2>5, <2>6
       DEF RequestSound, AdvanceSound, CreateSound, CopySound, Reading, Saving, AtRow,
           IssuePrepared, Outstanding, tables, outbox
  <2>8. TypeOK'
    BY <1>1, <2>6 DEF TypeOK, tables, outbox
  <2> QED  BY <1>1, <2>6, <2>7, <2>8, Quiet
<1> QED  BY <1>2, <1>3

\* What a plan begins with and what is left of it.
LEMMA PlanSteps ==
  \A t \in Plans :
    /\ t \in Seq(States) /\ Head(t) \in States
    /\ Head(t) = "credential_issued" => t = <<"credential_issued">>
    /\ Len(t) # 1 => Tail(t) = <<"participation_confirmed">>
<1>1. Len(<<"credential_issued">>) = 1 /\ Len(<<"participation_confirmed">>) = 1
  OBVIOUS
<1>2. Tail(<<"checked_in", "participation_confirmed">>) = <<"participation_confirmed">>
  OBVIOUS
<1>3. \A t \in Plans : t \in Seq(States) /\ Head(t) \in States
  <2>1. /\ <<"checked_in", "participation_confirmed">> \in Seq(States)
        /\ Head(<<"checked_in", "participation_confirmed">>) \in States
    BY DEF States
  <2>2. /\ <<"participation_confirmed">> \in Seq(States)
        /\ Head(<<"participation_confirmed">>) \in States
    BY DEF States
  <2>3. /\ <<"credential_issued">> \in Seq(States)
        /\ Head(<<"credential_issued">>) \in States
    BY DEF States
  <2> QED  BY <2>1, <2>2, <2>3 DEF Plans
<1>4. \A t \in Plans : Head(t) = "credential_issued" => t = <<"credential_issued">>
  BY DEF Plans
<1> QED  BY <1>1, <1>2, <1>3, <1>4 DEF Plans

\* The first query of saveParticipation keeps the invariant.
LEMMA SaveStateKeeps ==
  ASSUME IInv, NEW r \in Requests, SaveState(r)
  PROVE  IInv'
<1> DEFINE q == [req[r] EXCEPT !.at = "saveLog", !.seen = part[req[r].pair].state]
<1>1. /\ TypeOK /\ RequestSound(r) /\ req[r].at = "saveState"
      /\ req[r] \in Request /\ UNCHANGED <<tables, outbox>>
  BY DEF IInv, TypeOK, SaveState
<1>2. req' = [req EXCEPT ![r] = q]
  BY <1>1 DEF SaveState, TypeOK
<1>3. part[req[r].pair] \in Participation
  BY <1>1 DEF TypeOK, RequestSound, AdvanceSound, Saving
<1>4. q \in Request
  BY <1>1, <1>3 DEF Request, Participation, Steps
<1>5. /\ q.at = "saveLog" /\ q.pair = req[r].pair /\ q.todo = req[r].todo
      /\ q.state = req[r].state
  BY <1>1 DEF Request
<1> HIDE DEF q
<1>6. /\ req' \in [Requests -> Request] /\ req'[r] = q
      /\ \A s \in Requests : s # r => req'[s] = req[s]
  BY <1>1, <1>2, <1>4, RequestWritten
<1>7. RequestSound(r)'
  BY <1>1, <1>5, <1>6
     DEF RequestSound, AdvanceSound, CreateSound, CopySound, Reading, Saving, AtRow,
         IssuePrepared, Outstanding, tables, outbox
<1>8. TypeOK'
  BY <1>1, <1>6 DEF TypeOK, tables, outbox
<1> QED  BY <1>1, <1>6, <1>7, <1>8, Quiet

\* Its second query keeps the invariant.
LEMMA SaveLogKeeps ==
  ASSUME IInv, NEW r \in Requests, SaveLog(r)
  PROVE  IInv'
<1> DEFINE known == Len(part[req[r].pair].log)
           q == [req[r] EXCEPT !.at = "update", !.known = known]
<1>1. /\ TypeOK /\ RequestSound(r) /\ req[r].at = "saveLog"
      /\ req[r] \in Request /\ UNCHANGED <<tables, outbox>>
  BY DEF IInv, TypeOK, SaveLog
<1>2. CASE Return(r)
  BY <1>1, <1>2, ReturnKeeps
<1>3. CASE req' = [req EXCEPT ![r].at = "update", ![r].known = known]
  <2>1. req' = [req EXCEPT ![r] = q]
    BY <1>1, <1>3 DEF TypeOK
  <2>2. part[req[r].pair] \in Participation
    BY <1>1 DEF TypeOK, RequestSound, AdvanceSound, Saving
  <2>3. known \in Nat
    BY <2>2, LenProperties DEF Participation
  <2>4. q \in Request
    BY <1>1, <2>3 DEF Request, Steps
  <2>5. /\ q.at = "update" /\ q.pair = req[r].pair /\ q.todo = req[r].todo
        /\ q.state = req[r].state
    BY <1>1 DEF Request
  <2> HIDE DEF q
  <2>6. /\ req' \in [Requests -> Request] /\ req'[r] = q
        /\ \A s \in Requests : s # r => req'[s] = req[s]
    BY <1>1, <2>1, <2>4, RequestWritten
  <2>7. RequestSound(r)'
    BY <1>1, <2>5, <2>6
       DEF RequestSound, AdvanceSound, CreateSound, CopySound, Reading, Saving, AtRow,
           IssuePrepared, Outstanding, tables, outbox
  <2>8. TypeOK'
    BY <1>1, <2>6 DEF TypeOK, tables, outbox
  <2> QED  BY <1>1, <2>6, <2>7, <2>8, Quiet
<1> QED  BY <1>2, <1>3 DEF SaveLog

\* Any step: the tables grow, the rows and offers stay sound, and every
\* request that moved knows what it should.
LEMMA Step ==
  ASSUME IInv, TypeOK', Grows,
         \A s \in Requests : req'[s] = req[s] \/ RequestSound(s)',
         OffersSound', OutboxSound', RowsSound', IssuedHasCredential'
  PROVE  IInv'
<1>1. \A s \in Requests : RequestSound(s)'
  BY RequestKeeps DEF IInv
<1> QED  BY <1>1 DEF IInv

\* A step that writes participations: no state says more than was prepared.
LEMMA ParticipationStepKeeps ==
  ASSUME IInv, TypeOK', NEW r \in Requests, UNCHANGED <<row, outbox>>,
         \A s \in Requests : s # r => req'[s] = req[s], RequestSound(r)',
         \A p \in Pairs : part[p] # None => part'[p] # None,
         \A p \in Pairs : part'[p] # None /\ part'[p].state = "credential_issued"
                            => IssuePrepared(p)
  PROVE  IInv'
<1>1. Grows
  BY DEF Grows, Outstanding, outbox
<1>2. OffersSound' /\ OutboxSound' /\ RowsSound'
  BY DEF IInv, OffersSound, OutboxSound, RowsSound, LedgersSound, Outstanding, outbox
<1>3. IssuedHasCredential'
  BY DEF IssuedHasCredential, IssuePrepared, Outstanding, outbox
<1> QED  BY <1>1, <1>2, <1>3, Step

\* The participations before the step satisfy the same.
LEMMA PreparedBefore ==
  ASSUME IInv
  PROVE  \A p \in Pairs : part[p] # None /\ part[p].state = "credential_issued"
                            => IssuePrepared(p)
BY DEF IInv, IssuedHasCredential, IssuePrepared, Outstanding

\* A registered participation stays, or is there from another request.
LEMMA RegisterKeeps ==
  ASSUME IInv, NEW r \in Requests, Register(r)
  PROVE  IInv'
<1> DEFINE p == req[r].pair
           q == [req[r] EXCEPT !.at = "readState"]
           fresh == [state |-> "registered", log |-> <<>>]
<1>1. /\ TypeOK /\ RequestSound(r) /\ req[r].at = "register"
      /\ req[r] \in Request /\ UNCHANGED <<row, outbox>>
  BY DEF IInv, TypeOK, Register
<1>2. p \in Pairs /\ req[r].todo \in Plans /\ req[r].todo # <<"credential_issued">>
  BY <1>1 DEF RequestSound, AdvanceSound
<1>3. part' = IF part[p] = None THEN [part EXCEPT ![p] = fresh] ELSE part
  BY DEF Register
<1>4. fresh \in Participation /\ fresh # None /\ fresh.state = "registered"
  <2>1. <<>> \in Seq(States) /\ "registered" \in States
    BY DEF States
  <2>2. fresh \in Participation
    BY <2>1 DEF Participation
  <2> QED  BY <2>2, IssuanceAssumption
<1> HIDE DEF fresh
<1>5. /\ part' \in [Pairs -> Participation \cup {None}] /\ part'[p] # None
      /\ \A x \in Pairs : part'[x] = part[x] \/ part'[x] = fresh
  BY <1>1, <1>2, <1>3, <1>4 DEF TypeOK
<1>6. req' = [req EXCEPT ![r] = q] /\ q \in Request
  BY <1>1 DEF Register, GoTo, TypeOK, Request, Steps
<1>7. q.at = "readState" /\ q.pair = p /\ q.todo = req[r].todo
  BY <1>1 DEF Request
<1> HIDE DEF q
<1>8. /\ req' \in [Requests -> Request] /\ req'[r] = q
      /\ \A s \in Requests : s # r => req'[s] = req[s]
  BY <1>1, <1>6, RequestWritten
<1>9. RequestSound(r)'
  BY <1>2, <1>5, <1>7, <1>8
     DEF RequestSound, AdvanceSound, CreateSound, CopySound, Reading, Saving, AtRow
<1>10. TypeOK'
  BY <1>1, <1>5, <1>8 DEF TypeOK, outbox
<1>11. \A x \in Pairs : part'[x] # None /\ part'[x].state = "credential_issued"
                          => IssuePrepared(x)
  BY <1>4, <1>5, PreparedBefore
<1>12. \A x \in Pairs : part[x] # None => part'[x] # None
  BY <1>4, <1>5
<1> QED  BY <1>1, <1>8, <1>9, <1>10, <1>11, <1>12, ParticipationStepKeeps

\* The update writes the last state only for a request that prepared an issue.
LEMMA UpdateKeeps ==
  ASSUME IInv, NEW r \in Requests, Update(r)
  PROVE  IInv'
<1> DEFINE p == req[r].pair
           new == NewTransitions(r)
           saved == [state |-> req[r].state, log |-> part[p].log \o new]
           q == [Idle EXCEPT !.at = "readState", !.flow = req[r].flow, !.pair = p,
                             !.todo = Tail(req[r].todo)]
<1>1. /\ TypeOK /\ RequestSound(r) /\ req[r].at = "update"
      /\ req[r] \in Request /\ UNCHANGED <<row, outbox>>
  BY DEF IInv, TypeOK, Update
<1>2. /\ p \in Pairs /\ part[p] # None /\ part[p] \in Participation
      /\ req[r].todo \in Plans /\ req[r].state = Head(req[r].todo)
      /\ req[r].todo = <<"credential_issued">> => IssuePrepared(p)
  BY <1>1 DEF TypeOK, RequestSound, AdvanceSound, Saving
<1>3. CASE Return(r) /\ UNCHANGED part
  BY <1>1, <1>3, ReturnKeeps DEF tables
<1>4. CASE /\ part' = [part EXCEPT ![p] = saved]
           /\ \/ Return(r)
              \/ Len(req[r].todo) # 1 /\ req' = [req EXCEPT ![r] = q]
  <2>1. saved \in Participation
    <3>1. new \in Seq(States)
      <4>1. req[r].log \in Seq(States) /\ req[r].known \in Nat
        BY <1>1 DEF Request
      <4>2. Len(req[r].log) \in Nat
        BY <4>1, LenProperties
      <4>3. \A n \in req[r].known + 1 .. Len(req[r].log) : req[r].log[n] \in States
        BY <4>1, <4>2, ElementOfSeq
      <4> QED  BY <4>1, <4>2, <4>3 DEF NewTransitions
    <3>2. part[p].log \in Seq(States)
      BY <1>2 DEF Participation
    <3>3. part[p].log \o new \in Seq(States)
      BY <3>1, <3>2, ConcatProperties
    <3>4. req[r].state \in States
      BY <1>2, PlanSteps
    <3> QED  BY <3>3, <3>4 DEF Participation
  <2>2. saved # None /\ saved.state = req[r].state
    BY <2>1, IssuanceAssumption
  <2> HIDE DEF saved
  <2>3. /\ part' \in [Pairs -> Participation \cup {None}] /\ part'[p] = saved
        /\ \A x \in Pairs : x # p => part'[x] = part[x]
    BY <1>1, <1>2, <1>4, <2>1 DEF TypeOK
  <2>4. \A x \in Pairs : part'[x] # None /\ part'[x].state = "credential_issued"
                            => IssuePrepared(x)
    BY <1>2, <2>2, <2>3, PreparedBefore, PlanSteps
  <2>5. \A x \in Pairs : part[x] # None => part'[x] # None
    BY <2>2, <2>3
  <2>6. CASE Return(r)
    <3>1. /\ req' \in [Requests -> Request] /\ req'[r] = Idle
          /\ \A s \in Requests : s # r => req'[s] = req[s]
      BY <1>1, <2>6, IdleTyped, RequestWritten DEF Return
    <3>2. TypeOK'
      BY <1>1, <2>3, <3>1 DEF TypeOK, outbox
    <3> QED  BY <1>1, <2>4, <2>5, <3>1, <3>2, IdleSound, ParticipationStepKeeps
  <2>7. CASE Len(req[r].todo) # 1 /\ req' = [req EXCEPT ![r] = q]
    <3>1. Tail(req[r].todo) = CheckInPlan("checked_in") /\ "checked_in" \in States
      BY <1>2, <2>7, PlanSteps DEF CheckInPlan, States
    <3>2. q \in Request
      BY <1>1, <1>2, <3>1, CheckInPlans, IdleTyped DEF Request, Idle, Steps
    <3>3. /\ q.at = "readState" /\ q.pair = p /\ q.todo \in Plans
          /\ q.todo # <<"credential_issued">>
      BY <3>1, CheckInPlans DEF Idle
    <3> HIDE DEF q
    <3>4. /\ req' \in [Requests -> Request] /\ req'[r] = q
          /\ \A s \in Requests : s # r => req'[s] = req[s]
      BY <1>1, <2>7, <3>2, RequestWritten
    <3>5. RequestSound(r)'
      BY <1>2, <2>5, <3>3, <3>4
         DEF RequestSound, AdvanceSound, CreateSound, CopySound, Reading, Saving, AtRow
    <3>6. TypeOK'
      BY <1>1, <2>3, <3>4 DEF TypeOK, outbox
    <3> QED  BY <1>1, <2>4, <2>5, <3>4, <3>5, <3>6, ParticipationStepKeeps
  <2> QED  BY <1>4, <2>6, <2>7
<1> QED  BY <1>3, <1>4 DEF Update

------------------------------------------------------------------------------
(* Creating credentials.                                                    *)

\* An issue that begins holds a fact whose participation exists.
LEMMA IssueKeeps ==
  ASSUME IInv, NEW r \in Requests, NEW f \in Facts, NEW x \in Contents, Issue(r, f, x)
  PROVE  IInv'
<1> DEFINE q == [Idle EXCEPT !.at = "assert", !.flow = "issue", !.pair = Pair[f],
                             !.fact = f, !.content = x]
<1>1. /\ TypeOK /\ req' = [req EXCEPT ![r] = q] /\ UNCHANGED <<tables, outbox>>
      /\ Pair[f] \in Pairs /\ part[Pair[f]] # None
  BY IssuanceAssumption DEF IInv, Issue, Confirmed
<1>2. q \in Request
  BY IdleTyped, IssuanceAssumption DEF Request, Idle, Steps, Flows
<1>3. /\ q.at = "assert" /\ q.flow = "issue" /\ q.pair = Pair[f] /\ q.fact = f
      /\ q.content = x
  BY DEF Idle
<1> HIDE DEF q
<1>4. /\ req' \in [Requests -> Request] /\ req'[r] = q
      /\ \A s \in Requests : s # r => req'[s] = req[s]
  BY <1>1, <1>2, RequestWritten
<1>5. RequestSound(r)'
  BY <1>1, <1>3, <1>4
     DEF tables, RequestSound, AdvanceSound, CreateSound, CopySound, Reading, Saving, AtRow
<1>6. TypeOK'
  BY <1>1, <1>4 DEF TypeOK, tables, outbox
<1> QED  BY <1>1, <1>4, <1>5, <1>6, Quiet

\* Going on from assert to find, or from find to insert.
LEMMA CreationGoesOn ==
  ASSUME IInv, NEW r \in Requests, NEW s \in {"find", "insert"},
         req[r].at \in {"assert", "find"}, GoTo(r, s), UNCHANGED <<tables, outbox>>
  PROVE  IInv'
<1> DEFINE q == [req[r] EXCEPT !.at = s]
<1>1. /\ TypeOK /\ RequestSound(r) /\ req[r] \in Request
  BY DEF IInv, TypeOK
<1>2. req' = [req EXCEPT ![r] = q] /\ q \in Request
  BY <1>1, ZenonT(60) DEF GoTo, TypeOK, Request, Steps
<1>3. /\ q.at = s /\ q.flow = req[r].flow /\ q.pair = req[r].pair
      /\ q.fact = req[r].fact /\ q.content = req[r].content
  BY <1>1 DEF Request
<1> HIDE DEF q
<1>4. /\ req' \in [Requests -> Request] /\ req'[r] = q
      /\ \A t \in Requests : t # r => req'[t] = req[t]
  BY <1>1, <1>2, RequestWritten
<1>5. RequestSound(r)'
  BY <1>1, <1>3, <1>4
     DEF RequestSound, AdvanceSound, CreateSound, CopySound, Reading, Saving, AtRow, tables
<1>6. TypeOK'
  BY <1>1, <1>4 DEF TypeOK, tables, outbox
<1> QED  BY <1>1, <1>4, <1>5, <1>6, Quiet

\* The second look at the participation keeps the invariant.
LEMMA AssertKeeps ==
  ASSUME IInv, NEW r \in Requests, AssertConfirmed(r)
  PROVE  IInv'
BY CreationGoesOn, ReturnKeeps DEF AssertConfirmed

\* A row that is found and reused has the content the request holds.
LEMMA FindKeeps ==
  ASSUME IInv, NEW r \in Requests, FindByBusinessKey(r)
  PROVE  IInv'
<1>1. /\ TypeOK /\ RequestSound(r) /\ req[r] \in Request /\ req[r].at = "find"
      /\ UNCHANGED <<tables, outbox>>
  BY DEF IInv, TypeOK, FindByBusinessKey
<1>2. CASE GoTo(r, "insert")
  BY <1>1, <1>2, CreationGoesOn
<1>3. CASE Return(r)
  BY <1>1, <1>3, ReturnKeeps
<1>4. ASSUME NEW c \in RowsOf(req[r].fact), SamePayload(row[c], req[r].content),
             req' = [req EXCEPT ![r].at = "prepare", ![r].op = IssueOp(c)]
      PROVE  IInv'
  <2> DEFINE q == [req[r] EXCEPT !.at = "prepare", !.op = IssueOp(c)]
  <2>1. /\ c \in Creds /\ row[c] # None /\ row[c].fact = req[r].fact
        /\ row[c].content = req[r].content
    BY <1>4 DEF RowsOf, SamePayload
  <2>2. IssueOp(c) \in Ops /\ IssueOp(c).kind = "issue" /\ IssueOp(c).cred = c
    BY <2>1, OpsTyped
  <2> HIDE DEF IssueOp
  <2>3. req' = [req EXCEPT ![r] = q] /\ q \in Request
    BY <1>1, <1>4, <2>2 DEF TypeOK, Request, Steps
  <2>4. /\ q.at = "prepare" /\ q.flow = req[r].flow /\ q.pair = req[r].pair
        /\ q.content = req[r].content /\ q.op = IssueOp(c)
    BY <1>1 DEF Request
  <2> HIDE DEF q
  <2>5. /\ req' \in [Requests -> Request] /\ req'[r] = q
        /\ \A t \in Requests : t # r => req'[t] = req[t]
    BY <1>1, <2>3, RequestWritten
  <2>6. RequestSound(r)'
    BY <1>1, <2>1, <2>2, <2>4, <2>5
       DEF RequestSound, AdvanceSound, CreateSound, CopySound, Reading, Saving, AtRow, tables
  <2>7. TypeOK'
    BY <1>1, <2>5 DEF TypeOK, tables, outbox
  <2> QED  BY <1>1, <2>5, <2>6, <2>7, Quiet
<1> QED  BY <1>2, <1>3, <1>4 DEF FindByBusinessKey

\* A step that writes rows: a row keeps its key and content, and its ledger
\* numbers are earned.
LEMMA RowStepKeeps ==
  ASSUME IInv, TypeOK', UNCHANGED <<part, outbox>>,
         \A s \in Requests : req'[s] = req[s] \/ RequestSound(s)',
         \A c \in Creds : row[c] # None =>
           /\ row'[c] # None
           /\ row'[c].fact = row[c].fact /\ row'[c].content = row[c].content,
         \A c \in Creds : row'[c] # None => LedgersSound(row[c], c)'
  PROVE  IInv'
<1>1. Grows
  BY DEF Grows, Outstanding, outbox
<1>2. OffersSound' /\ OutboxSound'
  BY OpsTyped DEF IInv, OffersSound, OutboxSound, Outstanding, outbox
<1>3. RowsSound'
  BY DEF RowsSound
<1>4. IssuedHasCredential'
  <2>1. \A p \in Pairs : IssuePrepared(p) => IssuePrepared(p)'
    BY <1>1, PreparedStays
  <2> QED  BY <2>1, PreparedBefore DEF IssuedHasCredential, IssuePrepared, Outstanding
<1> QED  BY <1>1, <1>2, <1>3, <1>4, Step

\* What an insert does to the rows.
LEMMA RowInserted ==
  ASSUME IInv, UNCHANGED outbox, NEW f \in Facts, NEW x \in Contents, NEW c \in Creds,
         InsertRow(f, x, c)
  PROVE  /\ row' \in [Creds -> Record \cup {None}]
         /\ row'[c] # None /\ row'[c].fact = f /\ row'[c].content = x
         /\ \A d \in Creds : row[d] # None => row'[d] = row[d]
         /\ \A d \in Creds : row'[d] # None => LedgersSound(row[d], d)'
<1> DEFINE rec == NewRecord(f, x)
<1>1. rec \in Record /\ rec.fact = f /\ rec.content = x /\ rec.ledgers = {}
  BY DEF NewRecord, Record, Statuses
<1>2. row' = [row EXCEPT ![c] = rec] /\ row[c] = None /\ TypeOK
  BY DEF InsertRow, IInv
<1> HIDE DEF rec
<1>3. /\ row' \in [Creds -> Record \cup {None}] /\ row'[c] = rec
      /\ \A d \in Creds : d # c => row'[d] = row[d]
  BY <1>1, <1>2 DEF TypeOK
<1>4. \A d \in Creds : row'[d] # None => LedgersSound(row[d], d)'
  BY <1>1, <1>3 DEF LedgersSound, IInv, RowsSound, outbox
<1> QED  BY <1>1, <1>2, <1>3, <1>4, IssuanceAssumption

\* A row that is inserted has the content the request holds.
LEMMA InsertKeeps ==
  ASSUME IInv, NEW r \in Requests, Insert(r)
  PROVE  IInv'
<1>1. PICK c \in Creds :
        /\ InsertRow(req[r].fact, req[r].content, c)
        /\ req' = [req EXCEPT ![r].at = "prepare", ![r].op = IssueOp(c)]
  BY DEF Insert
<1> DEFINE q == [req[r] EXCEPT !.at = "prepare", !.op = IssueOp(c)]
<1>2. /\ TypeOK /\ RequestSound(r) /\ req[r] \in Request /\ req[r].at = "insert"
      /\ UNCHANGED <<part, outbox>>
  BY DEF IInv, TypeOK, Insert
<1>3. /\ req[r].fact \in Facts /\ req[r].content \in Contents /\ req[r].flow = "issue"
      /\ req[r].pair = Pair[req[r].fact]
      /\ req[r].pair \in Pairs /\ part[req[r].pair] # None
  BY <1>2 DEF RequestSound, CreateSound
<1>4. /\ row' \in [Creds -> Record \cup {None}]
      /\ row'[c] # None /\ row'[c].fact = req[r].fact /\ row'[c].content = req[r].content
      /\ \A d \in Creds : row[d] # None => row'[d] = row[d]
      /\ \A d \in Creds : row'[d] # None => LedgersSound(row[d], d)'
  BY <1>1, <1>2, <1>3, RowInserted
<1>5. IssueOp(c) \in Ops /\ IssueOp(c).kind = "issue" /\ IssueOp(c).cred = c
  BY OpsTyped
<1> HIDE DEF IssueOp
<1>6. req' = [req EXCEPT ![r] = q] /\ q \in Request
  BY <1>1, <1>2, <1>5 DEF TypeOK, Request, Steps
<1>7. /\ q.at = "prepare" /\ q.flow = req[r].flow /\ q.pair = req[r].pair
      /\ q.content = req[r].content /\ q.op = IssueOp(c)
  BY <1>2 DEF Request
<1> HIDE DEF q
<1>8. /\ req' \in [Requests -> Request] /\ req'[r] = q
      /\ \A t \in Requests : t # r => req'[t] = req[t]
  BY <1>2, <1>6, RequestWritten
<1>9. RequestSound(r)'
  BY <1>2, <1>3, <1>4, <1>5, <1>7, <1>8
     DEF RequestSound, AdvanceSound, CreateSound, CopySound, Reading, Saving, AtRow
<1>10. TypeOK'
  BY <1>2, <1>4, <1>8 DEF TypeOK, outbox
<1> QED  BY <1>2, <1>4, <1>8, <1>9, <1>10, RowStepKeeps

\* A row the dashboard inserts has no ledger numbers.
LEMMA DashboardCreateKeeps ==
  ASSUME IInv, NEW f \in Facts, NEW x \in Contents, DashboardCreate(f, x)
  PROVE  IInv'
<1>1. PICK c \in Creds : InsertRow(f, x, c)
  BY DEF DashboardCreate
<1>2. UNCHANGED <<part, outbox, req>> /\ TypeOK
  BY DEF DashboardCreate, IInv
<1>3. /\ row' \in [Creds -> Record \cup {None}]
      /\ row'[c] # None
      /\ \A d \in Creds : row[d] # None => row'[d] = row[d]
      /\ \A d \in Creds : row'[d] # None => LedgersSound(row[d], d)'
  BY <1>1, <1>2, RowInserted
<1>4. TypeOK'
  BY <1>2, <1>3 DEF TypeOK, outbox
<1> QED  BY <1>2, <1>3, <1>4, RowStepKeeps

------------------------------------------------------------------------------
(* Offering, projecting, revoking, saving.                                  *)

\* An offer of the dashboard holds the content of its row.
LEMMA DashboardOfferKeeps ==
  ASSUME IInv, NEW r \in Requests, NEW o \in Ops, DashboardOffer(r, o)
  PROVE  IInv'
<1> DEFINE q == [Idle EXCEPT !.at = "prepare", !.flow = "offer", !.op = o,
                             !.content = row[o.cred].content]
<1>1. /\ TypeOK /\ req' = [req EXCEPT ![r] = q] /\ UNCHANGED <<tables, outbox>>
      /\ row[o.cred] # None /\ row[o.cred] \in Record
  BY OpsTyped DEF IInv, TypeOK, DashboardOffer
<1>2. q \in Request
  BY <1>1, IdleTyped DEF Request, Idle, Steps, Flows, Record
<1>3. /\ q.at = "prepare" /\ q.flow = "offer" /\ q.op = o
      /\ q.content = row[o.cred].content
  BY DEF Idle
<1> HIDE DEF q
<1>4. /\ req' \in [Requests -> Request] /\ req'[r] = q
      /\ \A s \in Requests : s # r => req'[s] = req[s]
  BY <1>1, <1>2, RequestWritten
<1>5. RequestSound(r)'
  BY <1>1, <1>3, <1>4
     DEF RequestSound, AdvanceSound, CreateSound, CopySound, Reading, Saving, AtRow, tables
<1>6. TypeOK'
  BY <1>1, <1>4 DEF TypeOK, tables, outbox
<1> QED  BY <1>1, <1>4, <1>5, <1>6, Quiet

\* The copy that is projected is the row with one more ledger number.
LEMMA ProjectionSound ==
  ASSUME IInv, NEW o \in Ops, row[o.cred] # None, effect[o] = "success"
  PROVE  /\ Projection(row[o.cred], o) \in Record
         /\ Projection(row[o.cred], o).fact = row[o.cred].fact
         /\ Projection(row[o.cred], o).content = row[o.cred].content
         /\ LedgersSound(Projection(row[o.cred], o), o.cred)
<1> DEFINE rec == row[o.cred]
           kind == IF o.kind = "issue" THEN "issued" ELSE "revoked"
           copy == Projection(rec, o)
<1>1. rec \in Record /\ o.cred \in Creds /\ LedgersSound(rec, o.cred)
  BY OpsTyped DEF IInv, TypeOK, RowsSound
<1>2. /\ copy.fact = rec.fact /\ copy.content = rec.content
      /\ copy.ledgers = rec.ledgers \cup {kind} /\ copy \in Record
  <2>1. o.reason \in Reasons \cup {None}
    BY DEF Ops
  <2>2. kind \in Statuses
    BY DEF Statuses
  <2> HIDE DEF rec, kind
  <2> QED  BY <1>1, <2>1, <2>2 DEF Projection, Record, kind
<1>3. effect[IssueOp(o.cred)] = "success"
  BY OpsTyped DEF IInv, OutboxSound
<1>4. o.kind # "issue" =>
        \E reason \in Reasons : effect[RevokeOp(o.cred, reason)] = "success"
  BY OpsTyped
<1> HIDE DEF rec, copy
<1>5. LedgersSound(copy, o.cred)
  BY <1>1, <1>2, <1>3, <1>4 DEF LedgersSound
<1> QED  BY <1>2, <1>5 DEF copy, rec

\* The projecting request holds a sound copy of the row.
LEMMA ProjectKeeps ==
  ASSUME IInv, NEW r \in Requests, Project(r)
  PROVE  IInv'
<1> DEFINE o == req[r].op
           copy == Projection(row[o.cred], o)
           q == [req[r] EXCEPT !.at = "saveRow", !.copy = copy]
<1>1. /\ TypeOK /\ RequestSound(r) /\ req[r] \in Request /\ req[r].at = "project"
      /\ UNCHANGED <<tables, outbox>>
  BY DEF IInv, TypeOK, Project
<1>2. /\ o \in Ops /\ row[o.cred] # None /\ effect[o] = "success"
      /\ req[r].flow = "submit"
  BY <1>1 DEF RequestSound, CreateSound, CopySound, AtRow
<1>3. /\ copy \in Record /\ copy.fact = row[o.cred].fact
      /\ copy.content = row[o.cred].content /\ LedgersSound(copy, o.cred)
  BY <1>2, ProjectionSound
<1>4. req' = [req EXCEPT ![r] = q]
  BY <1>1 DEF Project, TypeOK
<1> HIDE DEF copy
<1>5. q \in Request
  BY <1>1, <1>3 DEF Request, Steps
<1>6. q.at = "saveRow" /\ q.op = o /\ q.copy = copy /\ q.flow = req[r].flow
  BY <1>1 DEF Request
<1> HIDE DEF q
<1>7. /\ req' \in [Requests -> Request] /\ req'[r] = q
      /\ \A s \in Requests : s # r => req'[s] = req[s]
  BY <1>1, <1>4, <1>5, RequestWritten
<1>8. RequestSound(r)'
  BY <1>1, <1>2, <1>3, <1>6, <1>7
     DEF RequestSound, AdvanceSound, CreateSound, CopySound, Reading, Saving, AtRow,
         LedgersSound, tables, outbox
<1>9. TypeOK'
  BY <1>1, <1>7 DEF TypeOK, tables, outbox
<1> QED  BY <1>1, <1>7, <1>8, <1>9, Quiet

\* A revocation keeps the key, the content and the ledger numbers.
LEMMA RevokedSound ==
  ASSUME NEW rec \in Record, NEW reason \in Reasons
  PROVE  /\ Revoked(rec, reason) \in Record
         /\ Revoked(rec, reason).fact = rec.fact
         /\ Revoked(rec, reason).content = rec.content
         /\ Revoked(rec, reason).ledgers = rec.ledgers
BY DEF Revoked, RevokedAs, Record, Statuses

\* The revoking request holds a sound copy of the row.
LEMMA RevokeKeeps ==
  ASSUME IInv, NEW r \in Requests, NEW c \in Creds, NEW reason \in Reasons,
         Revoke(r, c, reason)
  PROVE  IInv'
<1> DEFINE copy == Revoked(row[c], reason)
           q1 == [Idle EXCEPT !.at = "saveRow", !.flow = "revoke",
                    !.op = RevokeOp(c, reason), !.copy = copy]
           q2 == [Idle EXCEPT !.at = "prepare", !.flow = "revoke",
                    !.op = RevokeOp(c, reason)]
<1>1. /\ TypeOK /\ UNCHANGED <<tables, outbox>>
      /\ row[c] \in Record /\ row[c] # None /\ LedgersSound(row[c], c)
      /\ req' = [req EXCEPT ![r] = q1] \/ req' = [req EXCEPT ![r] = q2]
  BY DEF IInv, TypeOK, RowsSound, Revoke
<1>2. /\ copy \in Record /\ copy.fact = row[c].fact /\ copy.content = row[c].content
      /\ copy.ledgers = row[c].ledgers
  BY <1>1, RevokedSound
<1>3. RevokeOp(c, reason) \in Ops /\ RevokeOp(c, reason).kind = "revoke"
      /\ RevokeOp(c, reason).cred = c
  BY OpsTyped
<1>4. LedgersSound(copy, c)
  BY <1>1, <1>2 DEF LedgersSound
<1> HIDE DEF RevokeOp, copy
<1>5. q1 \in Request /\ q2 \in Request
  BY <1>2, <1>3, IdleTyped DEF Request, Idle, Steps, Flows
<1>6. /\ q1.at = "saveRow" /\ q1.flow = "revoke" /\ q1.op = RevokeOp(c, reason)
      /\ q1.copy = copy
      /\ q2.at = "prepare" /\ q2.flow = "revoke" /\ q2.op = RevokeOp(c, reason)
  BY DEF Idle
<1> HIDE DEF q1, q2
<1>7. /\ req' \in [Requests -> Request] /\ req'[r] \in {q1, q2}
      /\ \A s \in Requests : s # r => req'[s] = req[s]
  BY <1>1, <1>5, RequestWritten
<1>8. RequestSound(r)'
  BY <1>1, <1>2, <1>3, <1>4, <1>6, <1>7
     DEF RequestSound, AdvanceSound, CreateSound, CopySound, Reading, Saving, AtRow,
         LedgersSound, tables, outbox
<1>9. TypeOK'
  BY <1>1, <1>7, <1>5 DEF TypeOK, tables, outbox
<1> QED  BY <1>1, <1>7, <1>8, <1>9, Quiet

\* A sound copy written over a newer row keeps the invariant.
LEMMA SaveRowKeeps ==
  ASSUME IInv, NEW r \in Requests, SaveRow(r)
  PROVE  IInv'
<1> DEFINE o == req[r].op
           copy == req[r].copy
           q1 == [req[r] EXCEPT !.at = "prepare", !.copy = None]
           q2 == [req[r] EXCEPT !.at = "setRevoked", !.copy = None]
<1>1. /\ TypeOK /\ RequestSound(r) /\ req[r] \in Request /\ req[r].at = "saveRow"
      /\ UNCHANGED <<part, outbox>> /\ row' = [row EXCEPT ![o.cred] = copy]
  BY DEF IInv, TypeOK, SaveRow
<1>2. /\ o \in Ops /\ o.cred \in Creds /\ row[o.cred] # None
      /\ copy \in Record /\ copy.fact = row[o.cred].fact
      /\ copy.content = row[o.cred].content /\ LedgersSound(copy, o.cred)
      /\ req[r].flow # "submit" => o.kind # "issue"
  BY <1>1, OpsTyped DEF RequestSound, CreateSound, CopySound, AtRow
<1>3. /\ row' \in [Creds -> Record \cup {None}] /\ row'[o.cred] = copy
      /\ copy # None
      /\ \A d \in Creds : d # o.cred => row'[d] = row[d]
  BY <1>1, <1>2, IssuanceAssumption DEF TypeOK
<1>4. \A d \in Creds : row[d] # None =>
        row'[d] # None /\ row'[d].fact = row[d].fact /\ row'[d].content = row[d].content
  BY <1>2, <1>3
<1>5. \A d \in Creds : row'[d] # None => LedgersSound(row[d], d)'
  BY <1>1, <1>2, <1>3 DEF LedgersSound, IInv, RowsSound, outbox
<1>6. /\ q1 \in Request /\ q2 \in Request
      /\ q1.at = "prepare" /\ q1.op = o /\ q1.flow = req[r].flow
      /\ q2.at = "setRevoked" /\ q2.op = o
  BY <1>1, ZenonT(60) DEF Request, Steps
<1>7. \/ req[r].flow = "revoke" /\ req' = [req EXCEPT ![r] = q1]
      \/ req' = [req EXCEPT ![r] = q2]
      \/ req' = [req EXCEPT ![r] = Idle]
  BY <1>1 DEF SaveRow, Return, TypeOK
<1> HIDE DEF q1, q2
<1>8. /\ req' \in [Requests -> Request]
      /\ \/ req'[r] = q1 /\ req[r].flow = "revoke"
         \/ req'[r] = q2
         \/ req'[r] = Idle
      /\ \A s \in Requests : s # r => req'[s] = req[s]
  BY <1>1, <1>6, <1>7, IdleTyped, RequestWritten
<1>9. RequestSound(r)'
  <2>1. CASE req'[r] = Idle
    BY <2>1, IdleSound
  <2>2. CASE req'[r] = q1 /\ req[r].flow = "revoke"
    BY <1>2, <1>3, <1>6, <2>2
       DEF RequestSound, AdvanceSound, CreateSound, CopySound, Reading, Saving, AtRow
  <2>3. CASE req'[r] = q2
    BY <1>2, <1>3, <1>6, <2>3
       DEF RequestSound, AdvanceSound, CreateSound, CopySound, Reading, Saving, AtRow
  <2> QED  BY <1>8, <2>1, <2>2, <2>3
<1>10. TypeOK'
  BY <1>1, <1>3, <1>8 DEF TypeOK, outbox
<1> QED  BY <1>1, <1>4, <1>5, <1>8, <1>9, <1>10, RowStepKeeps

\* The status alone carries no promise.
LEMMA SetRevokedKeeps ==
  ASSUME IInv, NEW r \in Requests, SetRevoked(r)
  PROVE  IInv'
<1> DEFINE c == req[r].op.cred
           rec == [row[c] EXCEPT !.status = "revoked"]
<1>1. /\ TypeOK /\ RequestSound(r) /\ req[r].at = "setRevoked"
      /\ UNCHANGED <<part, outbox>> /\ req' = [req EXCEPT ![r] = Idle]
  BY DEF IInv, SetRevoked, Return
<1>2. c \in Creds /\ row[c] # None /\ row[c] \in Record
  BY <1>1, OpsTyped DEF RequestSound, CreateSound, AtRow, TypeOK
<1>3. row' = [row EXCEPT ![c] = rec]
  BY <1>1, <1>2 DEF SetRevoked, TypeOK
<1>4. /\ rec \in Record /\ rec.fact = row[c].fact /\ rec.content = row[c].content
      /\ rec.ledgers = row[c].ledgers
  BY <1>2 DEF Record, Statuses
<1> HIDE DEF rec
<1>5. /\ row' \in [Creds -> Record \cup {None}] /\ row'[c] = rec /\ rec # None
      /\ \A d \in Creds : d # c => row'[d] = row[d]
  BY <1>1, <1>2, <1>3, <1>4, IssuanceAssumption DEF TypeOK
<1>6. \A d \in Creds : row[d] # None =>
        row'[d] # None /\ row'[d].fact = row[d].fact /\ row'[d].content = row[d].content
  BY <1>4, <1>5
<1>7. \A d \in Creds : row'[d] # None => LedgersSound(row[d], d)'
  BY <1>1, <1>2, <1>4, <1>5 DEF LedgersSound, IInv, RowsSound, outbox
<1>8. /\ req' \in [Requests -> Request] /\ req'[r] = Idle
      /\ \A s \in Requests : s # r => req'[s] = req[s]
  BY <1>1, IdleTyped, RequestWritten
<1>9. TypeOK'
  BY <1>1, <1>5, <1>8 DEF TypeOK, outbox
<1> QED  BY <1>1, <1>6, <1>7, <1>8, <1>9, IdleSound, RowStepKeeps

\* A request may end anywhere.
LEMMA AbortKeeps ==
  ASSUME IInv, NEW r \in Requests, Abort(r)
  PROVE  IInv'
BY ReturnKeeps DEF Abort

------------------------------------------------------------------------------
(* The outbox.                                                              *)

\* A step of the outbox: offers and effects stay, and what it adds is sound.
LEMMA OutboxStepKeeps ==
  ASSUME IInv, TypeOK', UNCHANGED tables,
         \A s \in Requests : req'[s] = req[s] \/ RequestSound(s)',
         \A o \in Ops :
           /\ Outstanding(o) => Outstanding(o)'
           /\ effect[o] = "success" => effect'[o] = "success",
         OffersSound', OutboxSound'
  PROVE  IInv'
<1>1. Grows
  BY DEF Grows, tables
<1>2. RowsSound'
  <2>1. \A c \in Creds : row[c] # None => LedgersSound(row[c], c)'
    BY <1>1, LedgersStay DEF IInv, TypeOK, RowsSound, tables
  <2> QED  BY <2>1 DEF RowsSound, tables
<1>3. IssuedHasCredential'
  <2>1. \A p \in Pairs : IssuePrepared(p) => IssuePrepared(p)'
    BY <1>1, PreparedStays
  <2> QED
    BY <2>1, PreparedBefore DEF IssuedHasCredential, IssuePrepared, Outstanding, tables
<1> QED  BY <1>1, <1>2, <1>3, Step

\* After an offer an organizer's issue goes on to the participation.
LEMMA OfferedKeeps ==
  ASSUME IInv, NEW r \in Requests, NEW o \in Ops, req[r].at = "prepare", req[r].op = o,
         UNCHANGED tables, Outstanding(o)', Offered(r)
  PROVE  /\ req' \in [Requests -> Request]
         /\ \A s \in Requests : req'[s] = req[s] \/ RequestSound(s)'
<1> DEFINE q == [Idle EXCEPT !.at = "readState", !.flow = "issue", !.pair = req[r].pair,
                             !.todo = <<"credential_issued">>]
<1>1. /\ TypeOK /\ RequestSound(r) /\ req[r] \in Request
  BY DEF IInv, TypeOK
<1>2. CASE req[r].flow = "issue"
  <2>1. /\ o.kind = "issue" /\ row[o.cred] # None
        /\ req[r].pair = Pair[row[o.cred].fact]
        /\ req[r].pair \in Pairs /\ part[req[r].pair] # None
    BY <1>1, <1>2 DEF RequestSound, CreateSound, AtRow
  <2>2. o.cred \in Creds /\ o = IssueOp(o.cred)
    BY <2>1, OpsTyped
  <2>3. ASSUME NEW p \in Pairs, p = req[r].pair PROVE IssuePrepared(p)'
    <3> HIDE DEF IssueOp
    <3> QED  BY <2>1, <2>2, <2>3 DEF IssuePrepared, tables
  <2>4. <<"credential_issued">> \in Plans
    BY DEF Plans
  <2>5. q \in Request
    BY <2>1, <2>4, PlanSteps, IdleTyped DEF Request, Idle, Steps, Flows
  <2>6. q.at = "readState" /\ q.pair = req[r].pair /\ q.todo = <<"credential_issued">>
    BY DEF Idle
  <2>7. req' = [req EXCEPT ![r] = q]
    BY <1>2 DEF Offered
  <2> HIDE DEF q
  <2>8. /\ req' \in [Requests -> Request] /\ req'[r] = q
        /\ \A s \in Requests : s # r => req'[s] = req[s]
    BY <1>1, <2>5, <2>7, RequestWritten
  <2>9. RequestSound(r)'
    BY <2>1, <2>3, <2>4, <2>6, <2>8
       DEF RequestSound, AdvanceSound, CreateSound, CopySound, Reading, Saving, AtRow,
           tables, IssuePrepared
  <2> QED  BY <2>8, <2>9
<1>3. CASE req[r].flow # "issue"
  <2>1. req' = [req EXCEPT ![r] = Idle]
    BY <1>3 DEF Offered, Return
  <2>2. /\ req' \in [Requests -> Request] /\ req'[r] = Idle
        /\ \A s \in Requests : s # r => req'[s] = req[s]
    BY <1>1, <2>1, IdleTyped, RequestWritten
  <2> QED  BY <2>2, IdleSound
<1> QED  BY <1>2, <1>3

\* What is offered for signature has the content of its row.
LEMMA PrepareKeeps ==
  ASSUME IInv, NEW r \in Requests, Prepare(r)
  PROVE  IInv'
<1>1. PICK o \in Ops : o = req[r].op
  BY DEF IInv, RequestSound, CreateSound, AtRow, Prepare
<1>2. /\ TypeOK /\ RequestSound(r) /\ req[r] \in Request /\ req[r].at = "prepare"
      /\ UNCHANGED tables /\ row[o.cred] # None /\ row[o.cred] \in Record /\ o.cred \in Creds
      /\ o.kind = "issue" => req[r].content = row[o.cred].content
  BY <1>1, OpsTyped DEF IInv, TypeOK, RequestSound, CreateSound, AtRow, Prepare
<1>3. CASE /\ offer[o] = "absent"
           /\ offer' = [offer EXCEPT ![o] = "open"]
           /\ intent' = IF o.kind = "issue"
                          THEN [intent EXCEPT ![o.cred] = req[r].content] ELSE intent
           /\ Offered(r)
           /\ UNCHANGED <<verdict, effect>>
  <2>1. /\ offer' \in [Ops -> {"absent", "open", "signed", "refused"}] /\ offer'[o] = "open"
        /\ \A u \in Ops : u # o => offer'[u] = offer[u]
    BY <1>2, <1>3 DEF TypeOK
  <2>2. /\ intent' \in [Creds -> Contents \cup {None}]
        /\ o.kind = "issue" => intent'[o.cred] = row[o.cred].content
        /\ \A c \in Creds : (o.kind = "issue" => c # o.cred) => intent'[c] = intent[c]
    BY <1>2, <1>3 DEF TypeOK, Record
  <2>3. Outstanding(o)'
    BY <2>1 DEF Outstanding
  <2>4. /\ req' \in [Requests -> Request]
        /\ \A s \in Requests : req'[s] = req[s] \/ RequestSound(s)'
    BY <1>1, <1>2, <1>3, <2>3, OfferedKeeps
  <2>5. OffersSound'
    <3>1. \A u \in Ops : u # o /\ u.kind = "issue" /\ o.kind = "issue" => u.cred # o.cred
      BY OpsTyped
    <3> QED
      BY <1>2, <2>1, <2>2, <3>1, OpsTyped DEF IInv, OffersSound, Outstanding, tables
  <2>6. OutboxSound'
    BY <1>3, <2>1 DEF IInv, OutboxSound
  <2>7. \A u \in Ops : Outstanding(u) => Outstanding(u)'
    BY <2>1 DEF Outstanding
  <2>8. TypeOK'
    BY <1>2, <1>3, <2>1, <2>2, <2>4 DEF TypeOK, tables
  <2> QED  BY <1>2, <1>3, <2>4, <2>5, <2>6, <2>7, <2>8, OutboxStepKeeps
<1>4. CASE /\ offer[o] = "absent"
           /\ offer' = [offer EXCEPT ![o] = "refused"]
           /\ Outbox!Save(o, "failed_terminal")
           /\ Return(r)
           /\ UNCHANGED intent
  <2>1. /\ offer' \in [Ops -> {"absent", "open", "signed", "refused"}]
        /\ offer'[o] = "refused"
        /\ \A u \in Ops : u # o => offer'[u] = offer[u]
    BY <1>2, <1>4 DEF TypeOK
  <2>2. /\ verdict' \in [Ops -> {"open", "confirmed", "failed_terminal"}]
        /\ verdict'[o] = "failed_terminal" /\ effect' = effect
        /\ \A u \in Ops : u # o => verdict'[u] = verdict[u]
    BY <1>2, <1>4 DEF TypeOK, Outbox!Save
  <2>3. /\ req' \in [Requests -> Request] /\ req'[r] = Idle
        /\ \A s \in Requests : s # r => req'[s] = req[s]
    BY <1>2, <1>4, IdleTyped, RequestWritten DEF Return
  <2>4. OffersSound' /\ OutboxSound'
    BY <1>2, <1>4, <2>1, <2>2 DEF IInv, OffersSound, OutboxSound, Outstanding, tables
  <2>5. \A u \in Ops : Outstanding(u) => Outstanding(u)'
    BY <1>4, <2>1 DEF Outstanding
  <2>6. TypeOK'
    BY <1>2, <1>4, <2>1, <2>2, <2>3 DEF TypeOK, tables
  <2> QED  BY <1>2, <2>2, <2>3, <2>4, <2>5, <2>6, IdleSound, OutboxStepKeeps
<1>5. CASE /\ UNCHANGED outbox
           /\ \/ Return(r)
              \/ offer[o] = "open" /\ Offered(r)
  <2>1. CASE Return(r)
    BY <1>2, <1>5, <2>1, ReturnKeeps
  <2>2. CASE offer[o] = "open" /\ Offered(r)
    <3>1. Outstanding(o)'
      BY <1>5, <2>2 DEF Outstanding, outbox
    <3>2. /\ req' \in [Requests -> Request]
          /\ \A s \in Requests : req'[s] = req[s] \/ RequestSound(s)'
      BY <1>1, <1>2, <2>2, <3>1, OfferedKeeps
    <3>3. OffersSound' /\ OutboxSound'
      BY <1>2, <1>5 DEF IInv, OffersSound, OutboxSound, Outstanding, tables, outbox
    <3>4. \A u \in Ops : Outstanding(u) => Outstanding(u)'
      BY <1>5 DEF Outstanding, outbox
    <3>5. TypeOK'
      BY <1>2, <1>5, <3>2 DEF TypeOK, tables, outbox
    <3> QED  BY <1>2, <1>5, <3>2, <3>3, <3>4, <3>5, OutboxStepKeeps DEF outbox
  <2> QED  BY <1>5, <2>1, <2>2
<1> QED  BY <1>1, <1>3, <1>4, <1>5 DEF Prepare

\* A signature changes no offer but its own.
LEMMA SignKeeps ==
  ASSUME IInv, NEW o \in Ops, Sign(o)
  PROVE  IInv'
<1>1. /\ TypeOK /\ offer[o] = "open" /\ offer' = [offer EXCEPT ![o] = "signed"]
      /\ UNCHANGED <<tables, intent, verdict, effect, req>>
  BY DEF IInv, Sign
<1>2. /\ offer' \in [Ops -> {"absent", "open", "signed", "refused"}] /\ offer'[o] = "signed"
      /\ \A u \in Ops : u # o => offer'[u] = offer[u]
  BY <1>1 DEF TypeOK
<1>3. OffersSound' /\ OutboxSound'
  BY <1>1, <1>2 DEF IInv, OffersSound, OutboxSound, Outstanding, tables
<1>4. \A u \in Ops : Outstanding(u) => Outstanding(u)'
  BY <1>1, <1>2 DEF Outstanding
<1>5. TypeOK'
  BY <1>1, <1>2 DEF TypeOK, tables
<1> QED  BY <1>1, <1>3, <1>4, <1>5, OutboxStepKeeps

\* The ledger revokes only what it issued.
LEMMA LedgerActsKeeps ==
  ASSUME IInv, NEW o \in Ops, LedgerActs(o)
  PROVE  IInv'
<1>1. /\ TypeOK /\ offer[o] = "signed" /\ effect[o] = "none"
      /\ UNCHANGED <<tables, offer, intent, verdict, req>>
      /\ effect'[o] = "success" => Executable(o)
      /\ \E e \in {"success", "failed"} : effect' = [effect EXCEPT ![o] = e]
  BY DEF IInv, LedgerActs, Outbox!TakeEffect
<1>2. /\ effect' \in [Ops -> {"none", "success", "failed"}]
      /\ \A u \in Ops : u # o => effect'[u] = effect[u]
  BY <1>1 DEF TypeOK
<1>3. \A u \in Ops : effect[u] = "success" => effect'[u] = "success"
  BY <1>1, <1>2
<1>4. OutboxSound'
  <2>1. \A u \in Ops : effect'[u] # "none" => offer[u] = "signed"
    BY <1>1, <1>2 DEF IInv, OutboxSound
  <2>2. \A u \in Ops : verdict[u] = "confirmed" => effect'[u] = "success"
    BY <1>3 DEF IInv, OutboxSound
  <2>3. \A u \in Ops : u.kind = "revoke" /\ effect'[u] = "success"
                          => effect'[IssueOp(u.cred)] = "success"
    <3>1. \A u \in Ops : u.kind = "revoke" /\ effect'[u] = "success"
                            => effect[IssueOp(u.cred)] = "success"
      BY <1>1, <1>2 DEF IInv, OutboxSound, Executable
    <3> QED  BY <1>3, <3>1, OpsTyped
  <2> QED  BY <1>1, <2>1, <2>2, <2>3 DEF OutboxSound
<1>5. OffersSound'
  BY <1>1 DEF IInv, OffersSound, Outstanding, tables
<1>6. \A u \in Ops : Outstanding(u) => Outstanding(u)'
  BY <1>1 DEF Outstanding
<1>7. TypeOK'
  BY <1>1, <1>2 DEF TypeOK, tables
<1> QED  BY <1>1, <1>3, <1>4, <1>5, <1>6, <1>7, OutboxStepKeeps

\* A verdict is given or overwritten, confirmed only after its effect.
LEMMA VerdictKeeps ==
  ASSUME IInv, NEW o \in Ops, NEW v \in Outbox!Verdicts, Outbox!Save(o, v),
         UNCHANGED <<tables, offer, intent>>, req' \in [Requests -> Request],
         \A s \in Requests : req'[s] = req[s] \/ RequestSound(s)'
  PROVE  IInv'
<1>1. TypeOK
  BY DEF IInv
<1>2. /\ effect' = effect
      /\ verdict' \in [Ops -> {"open", "confirmed", "failed_terminal"}]
      /\ verdict'[o] = "confirmed" => effect[o] = "success"
      /\ \A u \in Ops : u # o => verdict'[u] = verdict[u]
  BY <1>1 DEF TypeOK, Outbox!Save, Outbox!Verdicts
<1>3. OffersSound' /\ OutboxSound'
  BY <1>2 DEF IInv, OffersSound, OutboxSound, Outstanding, tables
<1>4. \A u \in Ops : Outstanding(u) => Outstanding(u)'
  BY DEF Outstanding
<1>5. TypeOK'
  BY <1>1, <1>2 DEF TypeOK, tables
<1> QED  BY <1>2, <1>3, <1>4, <1>5, OutboxStepKeeps

\* The request that was told confirmed may project the operation.
LEMMA SubmitKeeps ==
  ASSUME IInv, NEW r \in Requests, NEW o \in Ops, Submit(r, o)
  PROVE  IInv'
<1> DEFINE q == [Idle EXCEPT !.at = "project", !.flow = "submit", !.op = o]
<1>1. /\ TypeOK /\ offer[o] = "signed" /\ Outbox!Save(o, "confirmed")
      /\ UNCHANGED <<tables, offer, intent>> /\ req' = [req EXCEPT ![r] = q]
  BY DEF IInv, Submit, Projecting
<1>2. row[o.cred] # None
  BY <1>1 DEF IInv, OffersSound, Outstanding
<1>3. effect'[o] = "success" /\ "confirmed" \in Outbox!Verdicts
  BY <1>1 DEF Outbox!Save, Outbox!Verdicts
<1>4. q \in Request
  BY IdleTyped DEF Request, Idle, Steps, Flows
<1>5. q.at = "project" /\ q.flow = "submit" /\ q.op = o
  BY DEF Idle
<1> HIDE DEF q
<1>6. /\ req' \in [Requests -> Request] /\ req'[r] = q
      /\ \A s \in Requests : s # r => req'[s] = req[s]
  BY <1>1, <1>4, RequestWritten
<1>7. RequestSound(r)'
  BY <1>1, <1>2, <1>3, <1>5, <1>6
     DEF RequestSound, AdvanceSound, CreateSound, CopySound, Reading, Saving, AtRow, tables
<1> QED  BY <1>1, <1>3, <1>6, <1>7, VerdictKeeps

\* Saves nobody waits for keep the invariant.
LEMMA OutboxSavesKeeps ==
  ASSUME IInv, NEW o \in Ops, OutboxSaves(o)
  PROVE  IInv'
BY VerdictKeeps DEF OutboxSaves, IInv, TypeOK

------------------------------------------------------------------------------
(* The invariant and what follows from it.                                  *)

\* The invariant holds of the empty tables.
LEMMA InitSound == Init => IInv
<1> SUFFICES ASSUME Init PROVE IInv
  OBVIOUS
<1>1. TypeOK
  BY IdleTyped DEF Init, TypeOK, Outbox!Init
<1>2. \A r \in Requests : RequestSound(r)
  BY DEF Init, RequestSound, AdvanceSound, CreateSound, CopySound, Idle, Reading, Saving,
         AtRow
<1>3. OffersSound /\ OutboxSound /\ RowsSound /\ IssuedHasCredential
  BY OpsTyped DEF Init, Outbox!Init, OffersSound, OutboxSound, RowsSound,
                  IssuedHasCredential, Outstanding
<1> QED  BY <1>1, <1>2, <1>3 DEF IInv

\* Every step keeps the invariant.
LEMMA StepSound == IInv /\ [Next]_vars => IInv'
<1> SUFFICES ASSUME IInv, [Next]_vars PROVE IInv'
  OBVIOUS
<1>1. ASSUME NEW r \in Requests, ParticipationStep(r) PROVE IInv'
  BY <1>1, CheckInKeeps, RegisterKeeps, ReadStateKeeps, ReadLogKeeps, SaveStateKeeps,
     SaveLogKeeps, UpdateKeeps DEF ParticipationStep
<1>2. ASSUME NEW r \in Requests, CredentialStep(r) PROVE IInv'
  BY <1>2, IssueKeeps, AssertKeeps, FindKeeps, InsertKeeps, PrepareKeeps,
     DashboardOfferKeeps, SubmitKeeps, ProjectKeeps, RevokeKeeps, SaveRowKeeps,
     SetRevokedKeeps DEF CredentialStep
<1>3. ASSUME NEW r \in Requests, Abort(r) PROVE IInv'
  BY <1>3, AbortKeeps
<1>4. ASSUME NEW f \in Facts, NEW x \in Contents, DashboardCreate(f, x) PROVE IInv'
  BY <1>4, DashboardCreateKeeps
<1>5. ASSUME OutboxStep PROVE IInv'
  BY <1>5, SignKeeps, LedgerActsKeeps, OutboxSavesKeeps DEF OutboxStep
<1>6. CASE UNCHANGED vars
  <2>1. \A s \in Requests : RequestSound(s)'
    BY <1>6 DEF IInv, RequestSound, AdvanceSound, CreateSound, CopySound, IssuePrepared,
                LedgersSound, Outstanding, vars, tables, outbox
  <2>2. TypeOK' /\ OffersSound' /\ OutboxSound' /\ RowsSound' /\ IssuedHasCredential'
    BY <1>6 DEF IInv, TypeOK, OffersSound, OutboxSound, RowsSound, IssuedHasCredential,
                LedgersSound, Outstanding, vars, tables, outbox
  <2> QED  BY <2>1, <2>2 DEF IInv
<1> QED  BY <1>1, <1>2, <1>3, <1>4, <1>5, <1>6 DEF Next

\* The invariant holds for ever.
LEMMA AlwaysSound == Spec => []IInv
BY InitSound, StepSound, PTL DEF Spec

\* Every participation, row, offer and request has its type, for any number
\* of requests, credentials and participations.
THEOREM TypeCorrect == Spec => []TypeOK
<1>1. IInv => TypeOK
  BY DEF IInv
<1> QED  BY <1>1, AlwaysSound, PTL

\* A ledger number only stands in a row for an operation the ledger executed,
\* whichever copies of the row and verdicts of the outbox overwrote each other.
THEOREM LedgersEarned == Spec => []LedgersComeFromChain
<1>1. IInv => LedgersComeFromChain
  BY DEF IInv, RowsSound, LedgersSound, LedgersComeFromChain
<1> QED  BY <1>1, AlwaysSound, PTL

\* A credential the ledger executed has a row, and the anchored hash is the
\* hash of that row.
THEOREM AnchoredContentStored == Spec => []ChainHoldsRowContent
<1>1. IInv => ChainHoldsRowContent
  <2>1. ASSUME IInv, NEW c \in Creds, effect[IssueOp(c)] = "success"
        PROVE  row[c] # None /\ intent[c] = row[c].content
    <3>1. IssueOp(c) \in Ops /\ IssueOp(c).kind = "issue" /\ IssueOp(c).cred = c
      BY OpsTyped
    <3>2. Outstanding(IssueOp(c))
      BY <2>1, <3>1 DEF IInv, OutboxSound, Outstanding
    <3> QED  BY <2>1, <3>1, <3>2 DEF IInv, OffersSound
  <2> QED  BY <2>1 DEF ChainHoldsRowContent
<1> QED  BY <1>1, AlwaysSound, PTL

\* A participation says credential_issued only when an issue of one of its
\* credentials was prepared.
THEOREM IssuedPrepared == Spec => []IssuedHasCredential
<1>1. IInv => IssuedHasCredential
  BY DEF IInv
<1> QED  BY <1>1, AlwaysSound, PTL

------------------------------------------------------------------------------
(* What becomes of a participation.  Its state and its log are read by two *)
(* queries and written by an update that is guarded by two more, so a      *)
(* request may write what it built on readings that no longer hold.  It is *)
(* told here which step alone may make a log miss a transition, and from   *)
(* when on a participation is closed.                                      *)

\* The transitions a participation has been through when it is in a state.
Story == [ registered |-> <<>>,
           checked_in |-> <<"checked_in">>,
           participation_confirmed |-> <<"checked_in", "participation_confirmed">>,
           credential_issued |->
             <<"checked_in", "participation_confirmed", "credential_issued">> ]

\* The log of p tells how it came to its state, each transition once and in
\* order.
LogTells(p) == part[p] # None => part[p].log = Story[part[p].state]

\* What a request has read of a participation is still so.
Fresh(r) ==
  LET q == req[r]
      w == part[q.pair] IN
  /\ q.at = "readLog" => q.state = w.state
  /\ q.at \in Saving => Allowed(w.state, q.state) /\ q.log = Append(w.log, q.state)
  /\ q.at \in {"saveLog", "update"} => q.seen = w.state
  /\ q.at = "update" => q.known = Len(w.log)

\* A request is about to write p from readings that were overtaken.
Overtaken(r, p) == req[r].at = "update" /\ req[r].pair = p /\ ~ Fresh(r)

\* p is issued, and no request holds an earlier reading of it.
Closed(p) ==
  /\ part[p] # None /\ part[p].state = "credential_issued"
  /\ \A r \in Requests : req[r].pair = p =>
       /\ req[r].at \notin Saving
       /\ req[r].at = "readLog" => req[r].state = "credential_issued"

\* A sequence that has the elements of another and one more is that one
\* with the element appended.
LEMMA OneMore ==
  ASSUME NEW S, NEW l \in Seq(S), NEW e \in S, NEW n \in Seq(S),
         Len(n) = Len(l) + 1, \A i \in 1 .. Len(l) : n[i] = l[i], n[Len(l) + 1] = e
  PROVE  n = Append(l, e)
<1>1. /\ Append(l, e) \in Seq(S) /\ Len(Append(l, e)) = Len(l) + 1
      /\ \A i \in 1 .. Len(l) : Append(l, e)[i] = l[i]
      /\ Append(l, e)[Len(l) + 1] = e
  BY AppendProperties
<1>2. Len(l) \in Nat
  BY LenProperties
<1>3. \A i \in 1 .. Len(n) : n[i] = Append(l, e)[i]
  BY <1>1, <1>2
<1> QED  BY <1>1, <1>3, SeqEqual

\* A transition that is allowed continues the story.
LEMMA StoryGoesOn ==
  ASSUME NEW s \in States, NEW t, Allowed(s, t)
  PROVE  t \in States /\ Story[t] = Append(Story[s], t)
<1> DEFINE one == <<"checked_in">>
           two == <<"checked_in", "participation_confirmed">>
           three == <<"checked_in", "participation_confirmed", "credential_issued">>
<1>1. /\ <<>> \in Seq(States) /\ Len(<<>>) = 0
      /\ one \in Seq(States) /\ Len(one) = 1 /\ one[1] = "checked_in"
  BY DEF States
<1>2. /\ two \in Seq(States) /\ Len(two) = 2
      /\ two[1] = "checked_in" /\ two[2] = "participation_confirmed"
  BY DEF States
<1>3. /\ three \in Seq(States) /\ Len(three) = 3 /\ three[1] = "checked_in"
      /\ three[2] = "participation_confirmed" /\ three[3] = "credential_issued"
  BY DEF States
<1>4. /\ Story["registered"] = <<>> /\ Story["checked_in"] = one
      /\ Story["participation_confirmed"] = two /\ Story["credential_issued"] = three
  BY DEF Story
<1>5. /\ "checked_in" \in States /\ "participation_confirmed" \in States
      /\ "credential_issued" \in States
  BY DEF States
<1> HIDE DEF one, two, three
<1>6. one = Append(<<>>, "checked_in")
  BY <1>1, <1>5, OneMore
<1>7. two = Append(one, "participation_confirmed")
  <2>1. /\ Len(two) = Len(one) + 1 /\ two[Len(one) + 1] = "participation_confirmed"
        /\ \A i \in 1 .. Len(one) : two[i] = one[i]
    BY <1>1, <1>2
  <2> QED  BY <1>1, <1>2, <1>5, <2>1, OneMore
<1>8. three = Append(two, "credential_issued")
  <2>1. /\ Len(three) = Len(two) + 1 /\ three[Len(two) + 1] = "credential_issued"
        /\ \A i \in 1 .. Len(two) : three[i] = two[i]
    BY <1>2, <1>3
  <2> QED  BY <1>2, <1>3, <1>5, <2>1, OneMore
<1>9. \/ s = "registered" /\ t = "checked_in"
      \/ s = "checked_in" /\ t = "participation_confirmed"
      \/ s = "participation_confirmed" /\ t = "credential_issued"
  BY DEF Allowed, Successor, States
<1> QED  BY <1>4, <1>5, <1>6, <1>7, <1>8, <1>9

\* Only the four queries bring a request to a place where it has read, and
\* each of them leaves the participations alone.
LEMMA Arrivals ==
  ASSUME IInv, Next, NEW s \in Requests, req'[s] # req[s],
         req'[s].at \in {"readLog"} \cup Saving
  PROVE  ReadState(s) \/ ReadLog(s) \/ SaveState(s) \/ SaveLog(s)
<1> DEFINE Far == {"readLog"} \cup Saving
<1>1. req \in [Requests -> Request] /\ Idle.at = "idle" /\ "idle" \notin Far
  BY DEF IInv, TypeOK, Idle, Saving
<1>2. ASSUME NEW r \in Requests, Return(r) PROVE FALSE
  BY <1>1, <1>2 DEF Return
<1>3. ASSUME NEW r \in Requests, NEW at \in Steps \ Far, GoTo(r, at) PROVE FALSE
  BY <1>1, <1>3 DEF GoTo, Request
<1>4. ASSUME NEW r \in Requests, NEW q, q.at \notin Far, req' = [req EXCEPT ![r] = q]
      PROVE  FALSE
  BY <1>1, <1>4
<1>5. ASSUME NEW r \in Requests, ParticipationStep(r)
      PROVE  ReadState(s) \/ ReadLog(s) \/ SaveState(s) \/ SaveLog(s)
  <2>1. CASE \E p \in Pairs : CheckIn(r, p)
    <3>1. PICK p \in Pairs : CheckIn(r, p)
      BY <2>1
    <3> DEFINE q == [Idle EXCEPT
           !.at = IF part[p] = None THEN "register" ELSE "readState",
           !.flow = "checkIn", !.pair = p,
           !.todo = CheckInPlan(IF part[p] = None THEN "registered" ELSE part[p].state)]
    <3>2. req' = [req EXCEPT ![r] = q]
      BY <3>1 DEF CheckIn
    <3>3. q.at \notin Far
      BY DEF Idle, Saving
    <3> HIDE DEF q
    <3> QED  BY <1>4, <3>2, <3>3
  <2>2. CASE Register(r)
    BY <1>3, <2>2 DEF Register, Steps, Saving
  <2>3. CASE Update(r)
    <3>1. Return(r) \/ \E q : q.at = "readState" /\ req' = [req EXCEPT ![r] = q]
      BY <2>3 DEF Update, Idle
    <3> QED  BY <1>2, <1>4, <3>1 DEF Saving
  <2>4. CASE ReadState(r) \/ ReadLog(r) \/ SaveState(r) \/ SaveLog(r)
    <3>1. r # s => req'[s] = req[s]
      BY <1>1, <2>4 DEF ReadState, ReadLog, SaveState, SaveLog, Return
    <3> QED  BY <2>4, <3>1
  <2> QED  BY <1>5, <2>1, <2>2, <2>3, <2>4 DEF ParticipationStep
<1>6. ASSUME NEW r \in Requests, CredentialStep(r) PROVE FALSE
  <2>1. ASSUME NEW f \in Facts, NEW x \in Contents, Issue(r, f, x) PROVE FALSE
    <3>1. \E q : q.at = "assert" /\ req' = [req EXCEPT ![r] = q]
      BY <2>1 DEF Issue, Idle
    <3> QED  BY <1>4, <3>1 DEF Saving
  <2>2. CASE AssertConfirmed(r)
    BY <1>2, <1>3, <2>2 DEF AssertConfirmed, Steps, Saving
  <2>3. CASE FindByBusinessKey(r)
    <3>1. \/ GoTo(r, "insert") \/ Return(r)
          \/ \E c \in Creds : req' = [req EXCEPT ![r].at = "prepare", ![r].op = IssueOp(c)]
      BY <2>3 DEF FindByBusinessKey, RowsOf
    <3>2. CASE GoTo(r, "insert")
      BY <1>3, <3>2 DEF Steps, Saving
    <3>3. ASSUME NEW c \in Creds,
                 req' = [req EXCEPT ![r].at = "prepare", ![r].op = IssueOp(c)]
          PROVE  FALSE
      BY <1>1, <3>3 DEF Saving, Request
    <3> QED  BY <1>2, <3>1, <3>2, <3>3
  <2>4. CASE Insert(r)
    BY <1>1, <2>4 DEF Insert, Saving, Request
  <2>5. CASE Prepare(r)
    <3>1. \/ Return(r)
          \/ \E q : q.at = "readState" /\ req' = [req EXCEPT ![r] = q]
      BY <2>5 DEF Prepare, Offered, Idle
    <3> QED  BY <1>2, <1>4, <3>1 DEF Saving
  <2>6. ASSUME NEW o \in Ops, DashboardOffer(r, o) PROVE FALSE
    <3>1. \E q : q.at = "prepare" /\ req' = [req EXCEPT ![r] = q]
      BY <2>6 DEF DashboardOffer, Idle
    <3> QED  BY <1>4, <3>1 DEF Saving
  <2>7. ASSUME NEW o \in Ops, Submit(r, o) PROVE FALSE
    <3>1. \E q : q.at = "project" /\ req' = [req EXCEPT ![r] = q]
      BY <2>7 DEF Submit, Projecting, Idle
    <3> QED  BY <1>4, <3>1 DEF Saving
  <2>8. CASE Project(r)
    BY <1>1, <2>8 DEF Project, Saving, Request
  <2>9. ASSUME NEW c \in Creds, NEW reason \in Reasons, Revoke(r, c, reason) PROVE FALSE
    <3>1. CASE row[c].status = "issued"
      <4>1. \E q : q.at = "saveRow" /\ req' = [req EXCEPT ![r] = q]
        BY <2>9, <3>1 DEF Revoke, Idle
      <4> QED  BY <1>4, <4>1 DEF Saving
    <3>2. CASE row[c].status # "issued"
      <4>1. \E q : q.at = "prepare" /\ req' = [req EXCEPT ![r] = q]
        BY <2>9, <3>2 DEF Revoke, Idle
      <4> QED  BY <1>4, <4>1 DEF Saving
    <3> QED  BY <3>1, <3>2
  <2>10. CASE SaveRow(r)
    BY <1>1, <1>2, <2>10 DEF SaveRow, Saving, Request
  <2>11. CASE SetRevoked(r)
    BY <1>2, <2>11 DEF SetRevoked
  <2> QED  BY <1>6, <2>1, <2>2, <2>3, <2>4, <2>5, <2>6, <2>7, <2>8, <2>9, <2>10, <2>11
           DEF CredentialStep
<1>7. ASSUME NEW r \in Requests, Abort(r) PROVE FALSE
  BY <1>2, <1>7 DEF Abort
<1>8. ASSUME OutboxStep PROVE FALSE
  BY <1>8 DEF OutboxStep, Sign, LedgerActs, OutboxSaves
<1>9. ASSUME NEW f \in Facts, NEW x \in Contents, DashboardCreate(f, x) PROVE FALSE
  BY <1>9 DEF DashboardCreate
<1> QED  BY <1>5, <1>6, <1>7, <1>8, <1>9 DEF Next

\* Participations are written by a registration and by the guarded update.
LEMMA Writers ==
  ASSUME Next
  PROVE  UNCHANGED part \/ \E r \in Requests : Register(r) \/ Update(r)
<1>1. ASSUME NEW r \in Requests, ParticipationStep(r)
      PROVE  UNCHANGED part \/ Register(r) \/ Update(r)
  BY <1>1 DEF ParticipationStep, CheckIn, ReadState, ReadLog, SaveState, SaveLog, tables
<1>2. ASSUME NEW r \in Requests, CredentialStep(r) PROVE UNCHANGED part
  BY <1>2 DEF CredentialStep, Issue, AssertConfirmed, FindByBusinessKey, Insert, Prepare,
              DashboardOffer, Submit, Project, Revoke, SaveRow, SetRevoked, tables
<1>3. ASSUME NEW r \in Requests, Abort(r) PROVE UNCHANGED part
  BY <1>3 DEF Abort, tables
<1>4. ASSUME NEW f \in Facts, NEW x \in Contents, DashboardCreate(f, x)
      PROVE UNCHANGED part
  BY <1>4 DEF DashboardCreate
<1>5. ASSUME OutboxStep PROVE UNCHANGED part
  BY <1>5 DEF OutboxStep, Sign, LedgerActs, OutboxSaves, tables
<1> QED  BY <1>1, <1>2, <1>3, <1>4, <1>5 DEF Next

\* A registration adds a participation with an empty log, nothing else.
LEMMA RegisterTells ==
  ASSUME IInv, NEW r \in Requests, Register(r), NEW p \in Pairs
  PROVE  /\ LogTells(p) => LogTells(p)'
         /\ part[p] # None => part'[p] = part[p]
<1>1. part \in [Pairs -> Participation \cup {None}] /\ req[r].pair \in Pairs
  BY DEF IInv, TypeOK, RequestSound, AdvanceSound, Register
<1>2. \/ part'[p] = part[p]
      \/ part[p] = None /\ part'[p] = [state |-> "registered", log |-> <<>>]
  BY <1>1 DEF Register
<1> QED  BY <1>2 DEF LogTells, Story

\* An update writes its own participation, and tells its story on if its
\* readings still hold.
LEMMA UpdateTells ==
  ASSUME IInv, NEW r \in Requests, Update(r), NEW x \in Pairs
  PROVE  /\ x # req[r].pair => part'[x] = part[x]
         /\ LogTells(x) => LogTells(x)' \/ Overtaken(r, x)
<1> DEFINE p == req[r].pair
           new == [state |-> req[r].state, log |-> part[p].log \o NewTransitions(r)]
<1>1. /\ part \in [Pairs -> Participation \cup {None}] /\ p \in Pairs
      /\ part[p] \in Participation /\ part[p] # None /\ req \in [Requests -> Request]
      /\ req[r].at = "update" /\ req[r].state \in States
  BY PlanSteps DEF IInv, TypeOK, RequestSound, AdvanceSound, Update, Saving
<1>2. UNCHANGED part \/ part' = [part EXCEPT ![p] = new]
  BY <1>1 DEF Update
<1>3. x # p => part'[x] = part[x]
  BY <1>1, <1>2
<1>4. ASSUME Fresh(r), LogTells(x), x = p
      PROVE  LogTells(x)'
  <2>1. /\ Allowed(part[p].state, req[r].state)
        /\ req[r].log = Append(part[p].log, req[r].state)
        /\ req[r].known = Len(part[p].log)
    BY <1>1, <1>4 DEF Fresh, Saving
  <2>2. part[p].log \in Seq(States) /\ part[p].state \in States
    BY <1>1 DEF Participation
  <2>3. NewTransitions(r) = <<req[r].state>>
    <3>1. ASSUME NEW l \in Seq(States), NEW e \in States
          PROVE  SubSeq(Append(l, e), Len(l) + 1, Len(Append(l, e))) = <<e>>
      <4> DEFINE a == Append(l, e)
                 n == SubSeq(a, Len(l) + 1, Len(a))
      <4>1. a \in Seq(States) /\ Len(a) = Len(l) + 1 /\ a[Len(l) + 1] = e /\ Len(l) \in Nat
        BY <3>1, AppendProperties, LenProperties
      <4>2. n \in Seq(States) /\ Len(n) = 1 /\ n[1] = e
        <5> HIDE DEF a
        <5> QED  BY <4>1, SubSeqProperties
      <4>3. <<e>> \in Seq(States) /\ Len(<<e>>) = 1 /\ <<e>>[1] = e
        OBVIOUS
      <4> HIDE DEF n
      <4>4. \A i \in 1 .. Len(n) : n[i] = <<e>>[i]
        BY <4>2, <4>3
      <4>5. n = <<e>>
        BY <4>2, <4>3, <4>4, SeqEqual
      <4> QED  BY <4>5 DEF n
    <3> QED  BY <1>1, <2>1, <2>2, <3>1 DEF NewTransitions
  <2>4. part[p].log \o <<req[r].state>> = Append(part[p].log, req[r].state)
    BY <1>1, <2>2
  <2>5. new.log = Story[new.state]
    <3>1. part[p].log = Story[part[p].state]
      BY <1>1, <1>4 DEF LogTells
    <3> QED  BY <2>1, <2>2, <2>3, <2>4, <3>1, StoryGoesOn
  <2> HIDE DEF new, p
  <2>6. part'[x] = part[x] \/ part'[x] = new
    BY <1>1, <1>2, <1>4
  <2> QED  BY <1>4, <2>5, <2>6 DEF LogTells
<1>5. part'[x] = part[x] => (LogTells(x) => LogTells(x)')
  BY DEF LogTells
<1>6. x = p /\ ~ Fresh(r) => Overtaken(r, x)
  BY <1>1 DEF Overtaken
<1> QED  BY <1>3, <1>4, <1>5, <1>6

\* A step leaves the log of p telling its story, unless it is the update of
\* a request whose readings were overtaken.
LEMMA StoryKept ==
  ASSUME IInv, [Next]_vars, NEW p \in Pairs, LogTells(p)
  PROVE  LogTells(p)' \/ \E r \in Requests : Update(r) /\ Overtaken(r, p)
<1>1. CASE UNCHANGED part
  BY <1>1 DEF LogTells
<1>2. UNCHANGED vars => UNCHANGED part
  BY DEF vars, tables
<1> QED  BY <1>1, <1>2, Writers, RegisterTells, UpdateTells

\* A request that reads a closed participation reads that it is issued, and
\* goes no further.
LEMMA QueriesClosed ==
  ASSUME IInv, NEW p \in Pairs, Closed(p), NEW s \in Requests, req'[s].pair = p,
         ReadState(s) \/ ReadLog(s) \/ SaveState(s) \/ SaveLog(s)
  PROVE  /\ req'[s].at \notin Saving
         /\ req'[s].at = "readLog" => req'[s].state = "credential_issued"
<1>1. /\ req \in [Requests -> Request] /\ req[s] \in Request
      /\ Idle.at = "idle" /\ Idle.pair = None /\ p # None
  BY IssuanceAssumption DEF IInv, TypeOK, Idle
<1>2. ~ Return(s)
  BY <1>1 DEF Return
<1>3. req[s].pair = p
  BY <1>1, <1>2 DEF ReadState, ReadLog, SaveState, SaveLog, Request
<1>4. CASE ReadState(s)
  BY <1>1, <1>3, <1>4 DEF ReadState, Closed, Saving, Request
<1>5. CASE ReadLog(s)
  <2>1. req[s].state = "credential_issued"
    BY <1>3, <1>5 DEF ReadLog, Closed
  <2>2. ~ Allowed(req[s].state, Head(req[s].todo))
    BY <2>1 DEF Allowed, Successor
  <2> QED  BY <1>2, <1>5, <2>2 DEF ReadLog
<1>6. CASE SaveState(s) \/ SaveLog(s)
  BY <1>3, <1>6 DEF SaveState, SaveLog, Closed, Saving
<1> QED  BY <1>4, <1>5, <1>6

\* A closed participation is not written.
LEMMA ClosedStays ==
  ASSUME IInv, [Next]_vars, NEW p \in Pairs, Closed(p)
  PROVE  part'[p] = part[p] /\ Closed(p)'
<1>1. CASE UNCHANGED vars
  BY <1>1 DEF vars, tables, Closed
<1>2. CASE Next
  <2>1. part'[p] = part[p]
    <3>1. ASSUME NEW r \in Requests, Update(r) PROVE req[r].pair # p
      BY <3>1 DEF Update, Closed, Saving
    <3> QED  BY <1>2, <3>1, Writers, RegisterTells, UpdateTells DEF Closed
  <2>2. ASSUME NEW s \in Requests, req'[s].pair = p
        PROVE  /\ req'[s].at \notin Saving
               /\ req'[s].at = "readLog" => req'[s].state = "credential_issued"
    <3>1. CASE req'[s] = req[s]
      BY <2>2, <3>1 DEF Closed
    <3>2. CASE req'[s] # req[s] /\ req'[s].at \in {"readLog"} \cup Saving
      BY <1>2, <2>2, <3>2, Arrivals, QueriesClosed
    <3> QED  BY <3>1, <3>2
  <2> QED  BY <2>1, <2>2 DEF Closed
<1> QED  BY <1>1, <1>2

\* "Only an audited participation_confirmed state" authorizes issuance: the
\* log of a participation has every transition to its present state, once
\* and in order, until a request writes a state and a log that it built on
\* readings another request has overtaken; no other step, of however many
\* requests, makes a log miss one.
\* (participation.ts:70, PostgreSQLDatabaseGateway.ts:184)
THEOREM AuditLostToOvertaken ==
  Spec => [][\A p \in Pairs : LogTells(p) =>
               LogTells(p)' \/ \E r \in Requests : Overtaken(r, p)]_vars
<1>1. IInv /\ [Next]_vars =>
        [\A p \in Pairs : LogTells(p) =>
           LogTells(p)' \/ \E r \in Requests : Overtaken(r, p)]_vars
  BY StoryKept
<1> QED  BY <1>1, AlwaysSound, PTL DEF Spec

\* credential_issued is the end: once no request holds an earlier reading of
\* an issued participation, neither its state nor its log changes any more,
\* whatever check-ins, retries and issues are asked for.
THEOREM IssuedCloses ==
  Spec => [][\A p \in Pairs : Closed(p) => part'[p] = part[p] /\ Closed(p)']_vars
<1>1. IInv /\ [Next]_vars =>
        [\A p \in Pairs : Closed(p) => part'[p] = part[p] /\ Closed(p)']_vars
  BY ClosedStays
<1> QED  BY <1>1, AlwaysSound, PTL DEF Spec

------------------------------------------------------------------------------
(* What becomes of a row.  saveCredential writes whatever row was read     *)
(* before, so an older copy takes back what was written meanwhile; but a   *)
(* copy that is made now has all that the row has.                         *)

\* new has all that may not be taken back from old.
Keeps(old, new) ==
  /\ old.status = "revoked" => new.status = "revoked"
  /\ old.ledgers \subseteq new.ledgers

\* A copy is made by a projection or a revocation, which write no table.
LEMMA CopiesMade ==
  ASSUME IInv, Next, NEW s \in Requests, req'[s] # req[s], req'[s].at = "saveRow"
  PROVE  Project(s) \/ \E c \in Creds, reason \in Reasons : Revoke(s, c, reason)
<1>1. req \in [Requests -> Request] /\ Idle.at = "idle"
  BY DEF IInv, TypeOK, Idle
<1>2. ASSUME NEW r \in Requests, Return(r) PROVE FALSE
  BY <1>1, <1>2 DEF Return
<1>3. ASSUME NEW r \in Requests, NEW at \in Steps \ {"saveRow"}, GoTo(r, at) PROVE FALSE
  BY <1>1, <1>3 DEF GoTo, Request
<1>4. ASSUME NEW r \in Requests, NEW q, q.at # "saveRow", req' = [req EXCEPT ![r] = q]
      PROVE  FALSE
  BY <1>1, <1>4
<1>5. ASSUME NEW r \in Requests, ParticipationStep(r) PROVE FALSE
  <2>1. ASSUME NEW p \in Pairs, CheckIn(r, p) PROVE FALSE
    <3> DEFINE q == [Idle EXCEPT
           !.at = IF part[p] = None THEN "register" ELSE "readState",
           !.flow = "checkIn", !.pair = p,
           !.todo = CheckInPlan(IF part[p] = None THEN "registered" ELSE part[p].state)]
    <3>1. req' = [req EXCEPT ![r] = q]
      BY <2>1 DEF CheckIn
    <3>2. q.at # "saveRow"
      BY DEF Idle
    <3> HIDE DEF q
    <3> QED  BY <1>4, <3>1, <3>2
  <2>2. CASE Register(r)
    BY <1>3, <2>2 DEF Register, Steps
  <2>3. CASE Update(r)
    <3>1. Return(r) \/ \E q : q.at = "readState" /\ req' = [req EXCEPT ![r] = q]
      BY <2>3 DEF Update, Idle
    <3> QED  BY <1>2, <1>4, <3>1
  <2>4. CASE ReadState(r)
    BY <1>1, <2>4 DEF ReadState, Request
  <2>5. CASE ReadLog(r)
    BY <1>1, <1>2, <2>5 DEF ReadLog, Request
  <2>6. CASE SaveState(r)
    BY <1>1, <2>6 DEF SaveState, Request
  <2>7. CASE SaveLog(r)
    BY <1>1, <1>2, <2>7 DEF SaveLog, Request
  <2> QED  BY <1>5, <2>1, <2>2, <2>3, <2>4, <2>5, <2>6, <2>7 DEF ParticipationStep
<1>6. ASSUME NEW r \in Requests, CredentialStep(r)
      PROVE  Project(s) \/ \E c \in Creds, reason \in Reasons : Revoke(s, c, reason)
  <2>1. ASSUME NEW f \in Facts, NEW x \in Contents, Issue(r, f, x) PROVE FALSE
    <3>1. \E q : q.at = "assert" /\ req' = [req EXCEPT ![r] = q]
      BY <2>1 DEF Issue, Idle
    <3> QED  BY <1>4, <3>1
  <2>2. CASE AssertConfirmed(r)
    BY <1>2, <1>3, <2>2 DEF AssertConfirmed, Steps
  <2>3. CASE FindByBusinessKey(r)
    <3>1. \/ GoTo(r, "insert") \/ Return(r)
          \/ \E c \in Creds : req' = [req EXCEPT ![r].at = "prepare", ![r].op = IssueOp(c)]
      BY <2>3 DEF FindByBusinessKey, RowsOf
    <3>2. CASE GoTo(r, "insert")
      BY <1>3, <3>2 DEF Steps
    <3>3. ASSUME NEW c \in Creds,
                 req' = [req EXCEPT ![r].at = "prepare", ![r].op = IssueOp(c)]
          PROVE  FALSE
      BY <1>1, <3>3 DEF Request
    <3> QED  BY <1>2, <3>1, <3>2, <3>3
  <2>4. CASE Insert(r)
    BY <1>1, <2>4 DEF Insert, Request
  <2>5. CASE Prepare(r)
    <3>1. \/ Return(r)
          \/ \E q : q.at = "readState" /\ req' = [req EXCEPT ![r] = q]
      BY <2>5 DEF Prepare, Offered, Idle
    <3> QED  BY <1>2, <1>4, <3>1
  <2>6. ASSUME NEW o \in Ops, DashboardOffer(r, o) PROVE FALSE
    <3>1. \E q : q.at = "prepare" /\ req' = [req EXCEPT ![r] = q]
      BY <2>6 DEF DashboardOffer, Idle
    <3> QED  BY <1>4, <3>1
  <2>7. ASSUME NEW o \in Ops, Submit(r, o) PROVE FALSE
    <3>1. \E q : q.at = "project" /\ req' = [req EXCEPT ![r] = q]
      BY <2>7 DEF Submit, Projecting, Idle
    <3> QED  BY <1>4, <3>1
  <2>8. CASE Project(r) \/ \E c \in Creds, reason \in Reasons : Revoke(r, c, reason)
    <3>1. r # s => req'[s] = req[s]
      BY <1>1, <2>8 DEF Project, Revoke
    <3> QED  BY <2>8, <3>1
  <2>9. CASE SaveRow(r)
    BY <1>1, <1>2, <2>9 DEF SaveRow, Request
  <2>10. CASE SetRevoked(r)
    BY <1>2, <2>10 DEF SetRevoked
  <2> QED  BY <1>6, <2>1, <2>2, <2>3, <2>4, <2>5, <2>6, <2>7, <2>8, <2>9, <2>10
           DEF CredentialStep
<1>7. ASSUME NEW r \in Requests, Abort(r) PROVE FALSE
  BY <1>2, <1>7 DEF Abort
<1>8. ASSUME OutboxStep PROVE FALSE
  BY <1>8 DEF OutboxStep, Sign, LedgerActs, OutboxSaves
<1>9. ASSUME NEW f \in Facts, NEW x \in Contents, DashboardCreate(f, x) PROVE FALSE
  BY <1>9 DEF DashboardCreate
<1> QED  BY <1>5, <1>6, <1>7, <1>8, <1>9 DEF Next

\* A row that exists is written by a request that saves it, and by no other.
LEMMA RowWriters ==
  ASSUME IInv, Next, NEW c \in Creds, row[c] # None, row'[c] # row[c]
  PROVE  \E s \in Requests :
           req[s].op.cred = c /\ (SaveRow(s) \/ SetRevoked(s))
<1>1. row \in [Creds -> Record \cup {None}]
  BY DEF IInv, TypeOK
<1>2. ASSUME NEW f \in Facts, NEW x \in Contents, NEW d \in Creds, InsertRow(f, x, d)
      PROVE  FALSE
  BY <1>1, <1>2 DEF InsertRow
<1>3. ASSUME NEW r \in Requests, Insert(r) PROVE FALSE
  <2>1. /\ req[r].fact \in Facts /\ req[r].content \in Contents
    BY <1>3 DEF Insert, IInv, RequestSound, CreateSound
  <2> QED  BY <1>2, <1>3, <2>1 DEF Insert
<1>4. ASSUME NEW r \in Requests, SaveRow(r) \/ SetRevoked(r)
      PROVE  req[r].op.cred = c
  BY <1>1, <1>4 DEF SaveRow, SetRevoked
<1>5. ASSUME NEW r \in Requests, ParticipationStep(r) PROVE FALSE
  BY <1>5 DEF ParticipationStep, CheckIn, Register, ReadState, ReadLog, SaveState, SaveLog,
              Update, tables
<1>6. ASSUME NEW r \in Requests, CredentialStep(r)
      PROVE  SaveRow(r) \/ SetRevoked(r) \/ Insert(r)
  BY <1>6 DEF CredentialStep, Issue, AssertConfirmed, FindByBusinessKey, Prepare,
              DashboardOffer, Submit, Project, Revoke, tables
<1>7. ASSUME NEW r \in Requests, Abort(r) PROVE FALSE
  BY <1>7 DEF Abort, tables
<1>8. ASSUME NEW f \in Facts, NEW x \in Contents, DashboardCreate(f, x) PROVE FALSE
  BY <1>2, <1>8 DEF DashboardCreate
<1>9. ASSUME OutboxStep PROVE FALSE
  BY <1>9 DEF OutboxStep, Sign, LedgerActs, OutboxSaves, tables
<1> QED  BY <1>3, <1>4, <1>5, <1>6, <1>7, <1>8, <1>9 DEF Next

\* A copy that was just read keeps what the row has.
LEMMA CopiesRight ==
  ASSUME IInv, NEW r \in Requests, req'[r].at = "saveRow",
         Project(r) \/ \E c \in Creds, reason \in Reasons : Revoke(r, c, reason)
  PROVE  UNCHANGED row /\ Keeps(row[req'[r].op.cred], req'[r].copy)
<1>1. CASE Project(r)
  <2> DEFINE o == req[r].op
             copy == Projection(row[o.cred], o)
             q == [[req[r] EXCEPT !.at = "saveRow"] EXCEPT !.copy = copy]
  <2>1. /\ TypeOK /\ req[r] \in Request /\ UNCHANGED row
        /\ o \in Ops /\ row[o.cred] \in Record
    BY <1>1, OpsTyped DEF IInv, TypeOK, Project, RequestSound, CreateSound, AtRow, tables
  <2>2. Keeps(row[o.cred], copy)
    BY <2>1 DEF Projection, Keeps, Record
  <2>3. req' = [req EXCEPT ![r] = q]
    BY <1>1, <2>1 DEF Project, TypeOK
  <2> HIDE DEF copy
  <2>4. q.op = o /\ q.copy = copy
    BY <2>1 DEF Request
  <2> HIDE DEF q
  <2>5. req'[r] = q
    BY <2>1, <2>3 DEF TypeOK
  <2> QED  BY <2>1, <2>2, <2>4, <2>5
<1>2. ASSUME NEW c \in Creds, NEW reason \in Reasons, Revoke(r, c, reason)
      PROVE  UNCHANGED row /\ Keeps(row[req'[r].op.cred], req'[r].copy)
  <2> DEFINE copy == Revoked(row[c], reason)
             q1 == [Idle EXCEPT !.at = "saveRow", !.flow = "revoke",
                      !.op = RevokeOp(c, reason), !.copy = copy]
             q2 == [Idle EXCEPT !.at = "prepare", !.flow = "revoke",
                      !.op = RevokeOp(c, reason)]
  <2>1. /\ UNCHANGED row /\ row[c] \in Record
        /\ req' = [req EXCEPT ![r] = q1] \/ req' = [req EXCEPT ![r] = q2]
    BY <1>2 DEF Revoke, IInv, TypeOK, tables
  <2>2. Keeps(row[c], copy)
    BY <2>1 DEF Revoked, RevokedAs, Keeps, Record
  <2>3. RevokeOp(c, reason).cred = c
    BY OpsTyped
  <2> HIDE DEF copy, RevokeOp
  <2>4. /\ q1.op = RevokeOp(c, reason) /\ q1.copy = copy
        /\ q2.at = "prepare"
    BY DEF Idle
  <2> HIDE DEF q1, q2
  <2>5. req'[r] = q1 \/ req'[r] = q2
    BY <2>1 DEF IInv, TypeOK
  <2> QED  BY <2>1, <2>2, <2>3, <2>4, <2>5
<1> QED  BY <1>1, <1>2

\* What is written is a copy that a request held, or a revocation.
LEMMA WrittenFrom ==
  ASSUME IInv, Next, NEW c \in Creds, row[c] # None
  PROVE  row'[c] \in Record /\ \E copy \in Copies(c) : Keeps(copy, row'[c])
<1>1. row[c] \in Record /\ row \in [Creds -> Record \cup {None}]
  BY DEF IInv, TypeOK
<1>2. CASE row'[c] = row[c]
  BY <1>1, <1>2 DEF Keeps, Copies
<1>3. CASE row'[c] # row[c]
  <2>1. PICK s \in Requests : req[s].op.cred = c /\ (SaveRow(s) \/ SetRevoked(s))
    BY <1>3, RowWriters
  <2>2. CASE SaveRow(s)
    <3>1. row'[c] = req[s].copy /\ req[s].at = "saveRow" /\ req[s].copy \in Record
      BY <1>1, <2>1, <2>2 DEF SaveRow, IInv, RequestSound, CreateSound, CopySound, AtRow
    <3> QED  BY <2>1, <3>1 DEF Keeps, Copies
  <2>3. CASE SetRevoked(s)
    <3> DEFINE rec == [row[c] EXCEPT !.status = "revoked"]
    <3>1. Keeps(row[c], rec) /\ rec \in Record
      BY <1>1 DEF Keeps, Record, Statuses
    <3>2. row'[c] = rec
      BY <1>1, <2>1, <2>3 DEF SetRevoked
    <3> QED  BY <3>1, <3>2 DEF Copies
  <2> QED  BY <2>1, <2>2, <2>3
<1> QED  BY <1>2, <1>3

\* Every copy there is after a step has what one of the copies before had.
LEMMA CopiesKeep ==
  ASSUME IInv, [Next]_vars, NEW c \in Creds, row[c] # None, NEW new \in Copies(c)'
  PROVE  row'[c] # None /\ \E copy \in Copies(c) : Keeps(copy, new)
<1>1. CASE UNCHANGED vars
  BY <1>1 DEF vars, tables, Copies, Keeps
<1>2. CASE Next
  <2>1. row'[c] # None /\ \E copy \in Copies(c) : Keeps(copy, row'[c])
    BY <1>2, WrittenFrom, IssuanceAssumption
  <2>2. ASSUME NEW r \in Requests, req'[r].at = "saveRow", req'[r].op.cred = c
        PROVE  \E copy \in Copies(c) : Keeps(copy, req'[r].copy)
    <3>1. CASE req'[r] = req[r]
      BY <2>2, <3>1 DEF Copies, Keeps
    <3>2. CASE req'[r] # req[r]
      BY <1>2, <2>2, <3>2, CopiesMade, CopiesRight DEF Copies
    <3> QED  BY <3>1, <3>2
  <2>3. \/ new = row'[c]
        \/ \E r \in Requests : /\ req'[r].at = "saveRow" /\ req'[r].op.cred = c
                                /\ new = req'[r].copy
    BY DEF Copies
  <2> QED  BY <2>1, <2>2, <2>3
<1> QED  BY <1>1, <1>2

\* A revocation, and a ledger number, that every copy of a row has is never
\* taken back, through projections, retries, the dashboard's update and
\* requests that end half way, for any number of them; so a revocation that
\* is lost is lost to a copy that was out when the row was revoked.
\* (sign/submit/route.ts:118, CredentialRevokeDialog.tsx:89)
THEOREM RevocationsStay == Spec => RevocationsSettle
<1>1. ASSUME IInv, [Next]_vars, NEW c \in Creds
      PROVE  /\ RevokedForGood(c) => RevokedForGood(c)'
             /\ \A k \in Statuses : RecordedForGood(c, k) => RecordedForGood(c, k)'
  <2>1. ASSUME RevokedForGood(c) PROVE RevokedForGood(c)'
    <3>1. row'[c] # None /\ row'[c] \in Copies(c)'
      BY <1>1, <2>1, CopiesKeep DEF RevokedForGood, Copies
    <3>2. \A new \in Copies(c)' : new.status = "revoked"
      BY <1>1, <2>1, CopiesKeep DEF RevokedForGood, Keeps
    <3> QED  BY <3>1, <3>2 DEF RevokedForGood
  <2>2. ASSUME NEW k \in Statuses, RecordedForGood(c, k) PROVE RecordedForGood(c, k)'
    <3>1. row'[c] # None /\ row'[c] \in Copies(c)'
      BY <1>1, <2>2, CopiesKeep DEF RecordedForGood, Copies
    <3>2. \A new \in Copies(c)' : k \in new.ledgers
      BY <1>1, <2>2, CopiesKeep DEF RecordedForGood, Keeps
    <3> QED  BY <3>1, <3>2 DEF RecordedForGood
  <2> QED  BY <2>1, <2>2
<1>2. IInv /\ [Next]_vars =>
        [\A c \in Creds :
           /\ RevokedForGood(c) => RevokedForGood(c)'
           /\ \A k \in Statuses : RecordedForGood(c, k) => RecordedForGood(c, k)']_vars
  BY <1>1
<1> QED  BY <1>2, AlwaysSound, PTL DEF Spec, RevocationsSettle

------------------------------------------------------------------------------
(* The pages, for any number of visitors beside any number of requests.    *)
(* What a visitor knows of a credential stays true: the content of a row   *)
(* does not change.  So the hash on a card and the copy that is read       *)
(* before the contract is asked still match it, and IInv says that the     *)
(* contract holds nothing for which there is no row.                       *)

Loading == {"byCode", "byId", "ask"}

\* A page holds columns of the row of c, with the content it still has.
Knows(columns, c) ==
  columns \in Columns /\ row[c] # None /\ columns.content = row[c].content

\* What the page of a visitor knows.
VisitSound(v) ==
  LET q == visit[v] IN
  /\ q \in Visit
  /\ q.at \in Loading => q.cred \in Creds /\ (q.card # None => Knows(q.card, q.cred))
  /\ q.at \in {"byCode", "byId"} => q.copy = None
  /\ q.at = "ask" => Knows(q.copy, q.cred)

PagesInv ==
  /\ IInv
  /\ visit \in [Visitors -> Visit]
  /\ \A v \in Visitors : VisitSound(v)

\* The tables never forget a content.
Kept ==
  \A c \in Creds : row[c] # None => row'[c] # None /\ row'[c].content = row[c].content

------------------------------------------------------------------------------
(* What the steps of Issuance keep.                                        *)

\* A new row takes a free id.
LEMMA InsertKept ==
  ASSUME IInv, NEW f \in Facts, NEW x \in Contents, NEW c \in Creds, InsertRow(f, x, c)
  PROVE  Kept
BY DEF Kept, InsertRow, IInv, TypeOK

\* A copy that is saved over a row has its content.
LEMMA SaveKept ==
  ASSUME IInv, NEW r \in Requests, SaveRow(r) \/ SetRevoked(r)
  PROVE  Kept
<1>1. CASE SaveRow(r)
  <2>1. /\ req[r].op \in Ops /\ req[r].copy \in Record
        /\ req[r].copy.content = row[req[r].op.cred].content
    BY <1>1 DEF IInv, RequestSound, CreateSound, CopySound, AtRow, SaveRow
  <2>2. req[r].op.cred \in Creds
    BY <2>1 DEF Ops
  <2>3. row' = [row EXCEPT ![req[r].op.cred] = req[r].copy]
    BY <1>1 DEF SaveRow
  <2>4. req[r].copy # None
    BY <2>1, IssuanceAssumption
  <2> QED  BY <2>1, <2>2, <2>3, <2>4 DEF Kept, IInv, TypeOK
<1>2. CASE SetRevoked(r)
  <2>1. req[r].op \in Ops /\ row[req[r].op.cred] # None
    BY <1>2 DEF IInv, RequestSound, CreateSound, AtRow, SetRevoked
  <2>2. req[r].op.cred \in Creds
    BY <2>1 DEF Ops
  <2>3. row' = [row EXCEPT ![req[r].op.cred].status = "revoked"]
    BY <1>2 DEF SetRevoked
  <2>4. row[req[r].op.cred] \in Record
    BY <2>1, <2>2 DEF IInv, TypeOK
  <2>5. /\ [row[req[r].op.cred] EXCEPT !.status = "revoked"] \in Record
        /\ [row[req[r].op.cred] EXCEPT !.status = "revoked"].content
             = row[req[r].op.cred].content
    BY <2>4 DEF Record, Statuses
  <2> QED  BY <2>2, <2>3, <2>5, IssuanceAssumption DEF Kept, IInv, TypeOK
<1> QED  BY <1>1, <1>2

\* Every step of Issuance keeps them.
LEMMA NextKept ==
  ASSUME IInv, [Next]_vars
  PROVE  Kept
<1>0. UNCHANGED row => Kept
  BY DEF Kept
<1>1. ASSUME NEW r \in Requests, ParticipationStep(r) PROVE Kept
  BY <1>0, <1>1 DEF ParticipationStep, CheckIn, Register, ReadState, ReadLog, SaveState,
                    SaveLog, Update, tables
<1>2. ASSUME NEW r \in Requests, CredentialStep(r) PROVE Kept
  <2>1. CASE Insert(r)
    <3>1. req[r].fact \in Facts /\ req[r].content \in Contents
      BY <2>1 DEF Insert, IInv, RequestSound, CreateSound
    <3> QED  BY <2>1, <3>1, InsertKept DEF Insert
  <2>2. CASE SaveRow(r) \/ SetRevoked(r)
    BY <2>2, SaveKept
  <2>3. CASE \E o \in Ops : DashboardOffer(r, o) \/ Submit(r, o)
    BY <1>0, <2>3 DEF DashboardOffer, Submit, tables
  <2>4. CASE Prepare(r)
    BY <1>0, <2>4 DEF Prepare, tables
  <2> QED
    BY <1>0, <1>2, <2>1, <2>2, <2>3, <2>4
       DEF CredentialStep, Issue, AssertConfirmed, FindByBusinessKey, Project, Revoke, tables
<1>3. ASSUME NEW r \in Requests, Abort(r) PROVE Kept
  BY <1>0, <1>3 DEF Abort, tables
<1>4. ASSUME NEW f \in Facts, NEW x \in Contents, DashboardCreate(f, x) PROVE Kept
  BY <1>4, InsertKept DEF DashboardCreate
<1>5. CASE OutboxStep
  BY <1>0, <1>5 DEF OutboxStep, Sign, LedgerActs, OutboxSaves, tables
<1>6. CASE UNCHANGED vars
  BY <1>0, <1>6 DEF vars, tables
<1> QED  BY <1>1, <1>2, <1>3, <1>4, <1>5, <1>6 DEF Next

------------------------------------------------------------------------------
(* The visitors.                                                           *)

\* A visitor who does nothing goes on knowing what is true.
LEMMA VisitKeeps ==
  ASSUME Kept, NEW v \in Visitors, VisitSound(v), visit'[v] = visit[v]
  PROVE  VisitSound(v)'
BY DEF VisitSound, Knows, Kept, Loading

\* What is read of a row is what it has.
LEMMA ReadKnows ==
  ASSUME IInv, NEW c \in Creds, row[c] # None
  PROVE  Knows(Read(c), c) /\ Read(c) # None
<1>1. row[c] \in Record
  BY DEF IInv, TypeOK
<1>2. Knows(Read(c), c)
  BY <1>1 DEF Knows, Read, Columns, Record
<1> QED  BY <1>2, PublicPagesAssumption DEF Knows, Columns

\* One visitor's step, with what it writes.
LEMMA VisitorStepKeeps ==
  ASSUME PagesInv, NEW v \in Visitors, VisitorStep(v)
  PROVE  PagesInv'
<1>1. UNCHANGED vars
  BY DEF VisitorStep, CredentialValidationPage, GetPublicCredentialByCode, Come,
         VerifyCredentialOnChainByCode, VerifyPage, VerifyCredentialById, ReadRow, AskContract
<1>2. IInv'
  BY <1>1, StepSound DEF PagesInv
<1>3. Kept
  BY <1>1, NextKept DEF PagesInv
<1>4. ASSUME NEW q \in Visit, visit' = [visit EXCEPT ![v] = q], VisitSound(v)'
      PROVE  PagesInv'
  <2>1. visit' \in [Visitors -> Visit] /\ \A u \in Visitors \ {v} : visit'[u] = visit[u]
    BY <1>4 DEF PagesInv
  <2>2. \A u \in Visitors : VisitSound(u)'
    BY <1>3, <1>4, <2>1, VisitKeeps DEF PagesInv
  <2> QED  BY <1>2, <2>1, <2>2 DEF PagesInv
<1>5. row' = row
  BY <1>1 DEF vars, tables
<1>6. ASSUME NEW c \in Creds, NEW at \in {"byCode", "byId"}, NEW card,
             card = None \/ Knows(card, c), Come(v, c, at, card)
      PROVE  PagesInv'
  <2>1. PICK q \in Visit : /\ visit' = [visit EXCEPT ![v] = q] /\ q.at = at /\ q.cred = c
                           /\ q.card = card /\ q.copy = None
    <3> DEFINE q == [Away EXCEPT !.at = at, !.cred = c, !.card = card]
    <3>1. /\ q \in Visit /\ q.at = at /\ q.cred = c
          /\ q.card = card /\ q.copy = None
      BY <1>6 DEF Away, Visit, Knows
    <3>2. visit' = [visit EXCEPT ![v] = q]
      BY <1>6 DEF Come
    <3> QED  BY <3>1, <3>2
  <2>2. visit'[v] = q
    BY <2>1 DEF PagesInv
  <2>3. VisitSound(v)'
    BY <1>5, <1>6, <2>1, <2>2 DEF VisitSound, Knows, Loading
  <2> QED  BY <1>4, <2>1, <2>3
<1>6a. ASSUME NEW c \in Creds, GetPublicCredentialByCode(v, c)
       PROVE  PagesInv'
  BY <1>6, <1>6a, ReadKnows DEF GetPublicCredentialByCode, PagesInv
<1>7. CASE VerifyCredentialOnChainByCode(v)
  <2>1. visit[v] \in Visit /\ visit[v].at = "byCode" /\ VisitSound(v)
    BY <1>7 DEF VerifyCredentialOnChainByCode, PagesInv
  <2>2. PICK q \in Visit : /\ visit' = [visit EXCEPT ![v] = q] /\ q.at = "byId"
                           /\ q.cred = visit[v].cred /\ q.card = visit[v].card
                           /\ q.copy = visit[v].copy
    <3> DEFINE q == [visit[v] EXCEPT !.at = "byId"]
    <3>1. /\ q \in Visit /\ q.at = "byId" /\ q.cred = visit[v].cred
          /\ q.card = visit[v].card /\ q.copy = visit[v].copy
      BY <2>1 DEF Visit
    <3>2. visit' = [visit EXCEPT ![v] = q]
      BY <1>7 DEF VerifyCredentialOnChainByCode, PagesInv
    <3> QED  BY <3>1, <3>2
  <2>3. visit'[v] = q
    BY <2>2 DEF PagesInv
  <2>4. VisitSound(v)'
    BY <1>5, <2>1, <2>2, <2>3 DEF VisitSound, Knows, Loading
  <2> QED  BY <1>4, <2>2, <2>4
<1>8. Away \in Visit /\ Away.at = "away"
  BY DEF Away, Visit
<1>9. ASSUME visit' = [visit EXCEPT ![v] = Away]
      PROVE  PagesInv'
  <2>1. visit'[v] = Away
    BY <1>9 DEF PagesInv
  <2>2. VisitSound(v)'
    BY <1>8, <2>1 DEF VisitSound, Loading
  <2> QED  BY <1>4, <1>8, <1>9, <2>2
<1>10. CASE ReadRow(v)
  <2>1. visit[v] \in Visit /\ visit[v].at = "byId" /\ VisitSound(v)
    BY <1>10 DEF ReadRow, PagesInv
  <2>2. visit[v].cred \in Creds
    BY <2>1 DEF VisitSound, Loading
  <2>3. CASE row[visit[v].cred] = None
    BY <1>9, <1>10, <2>3 DEF ReadRow
  <2>4. CASE row[visit[v].cred] # None
    <3> DEFINE y == Read(visit[v].cred)
    <3>1. Knows(y, visit[v].cred)
      BY <2>2, <2>4, ReadKnows DEF PagesInv
    <3>2. visit' = [visit EXCEPT ![v] = [@ EXCEPT !.at = "ask", !.copy = y]]
      BY <1>10, <2>4 DEF ReadRow
    <3> HIDE DEF y
    <3>3. PICK q \in Visit : /\ visit' = [visit EXCEPT ![v] = q] /\ q.at = "ask"
                             /\ q.cred = visit[v].cred /\ q.card = visit[v].card
                             /\ q.copy = y
      <4> DEFINE q == [visit[v] EXCEPT !.at = "ask", !.copy = y]
      <4>1. /\ q \in Visit /\ q.at = "ask" /\ q.cred = visit[v].cred
            /\ q.card = visit[v].card /\ q.copy = y
        BY <2>1, <3>1 DEF Visit, Knows
      <4>2. visit' = [visit EXCEPT ![v] = q]
        BY <3>2 DEF PagesInv
      <4> QED  BY <4>1, <4>2
    <3>4. visit'[v] = q
      BY <3>3 DEF PagesInv
    <3>5. VisitSound(v)'
      BY <1>5, <2>1, <2>4, <3>1, <3>3, <3>4 DEF VisitSound, Knows, Loading
    <3> QED  BY <1>4, <3>3, <3>5
  <2> QED  BY <2>3, <2>4
<1>11. CASE AskContract(v)
  BY <1>9, <1>11 DEF AskContract
<1> QED  BY <1>6, <1>6a, <1>7, <1>10, <1>11 DEF VisitorStep, CredentialValidationPage,
            VerifyPage, VerifyCredentialById

\* The invariant of the pages and of the requests behind them.
LEMMA PagesAlwaysSound == PagesSpec => []PagesInv
<1>1. PagesInit => PagesInv
  <2> SUFFICES ASSUME PagesInit PROVE PagesInv
    OBVIOUS
  <2>1. IInv
    BY InitSound DEF PagesInit
  <2>2. Away \in Visit /\ Away.at = "away"
    BY DEF Away, Visit
  <2>3. visit \in [Visitors -> Visit] /\ \A v \in Visitors : visit[v] = Away
    BY <2>2 DEF PagesInit
  <2> QED  BY <2>1, <2>2, <2>3 DEF PagesInv, VisitSound, Loading
<1>2. PagesInv /\ [PagesNext]_pageVars => PagesInv'
  <2> SUFFICES ASSUME PagesInv, [PagesNext]_pageVars PROVE PagesInv'
    OBVIOUS
  <2>1. ASSUME [Next]_vars, UNCHANGED visit PROVE PagesInv'
    <3>1. IInv' /\ Kept
      BY <2>1, StepSound, NextKept DEF PagesInv
    <3> QED  BY <2>1, <3>1, VisitKeeps DEF PagesInv
  <2> QED  BY <2>1, VisitorStepKeeps DEF PagesNext, pageVars
<1> QED  BY <1>1, <1>2, PTL DEF PagesSpec

------------------------------------------------------------------------------
(* Theorems.                                                               *)

\* What the ledger executed has a row with the anchored content.
LEMMA ExecutedHasRow ==
  ASSUME IInv, NEW c \in Creds, effect[IssueOp(c)] = "success"
  PROVE  row[c] # None /\ intent[c] = row[c].content
<1>1. IssueOp(c) \in Ops /\ IssueOp(c).kind = "issue" /\ IssueOp(c).cred = c
  BY OpsTyped
<1>2. Outstanding(IssueOp(c))
  BY <1>1 DEF IInv, OutboxSound, Outstanding
<1> QED  BY <1>1, <1>2 DEF IInv, OffersSound

\* A list that says registered without asking is right.
LEMMA ListsSound ==
  ASSUME IInv, NEW shown \in ListCredentials \cup PublicCredentials,
         shown.stellar_status = "registered"
  PROVE  VerifyCredential(shown.id, shown.metadata_hash).matches
<1>1. PICK c \in Creds : row[c] # None /\ shown = Mapped(c)
  BY DEF ListCredentials, PublicCredentials, MapRowToCredential, MapRowToPopulatedCredential
<1>2. /\ shown.id = c /\ shown.metadata_hash = row[c].content
      /\ shown.stellar_status = DeriveStellarStatus(Phase(c))
  BY <1>1 DEF Mapped
<1>3. IssueOp(c) \in Ops
  BY OpsTyped
<1>4. /\ offer[IssueOp(c)] \in {"absent", "open", "signed", "refused"}
      /\ verdict[IssueOp(c)] \in {"open", "confirmed", "failed_terminal"}
  BY <1>3 DEF IInv, TypeOK
<1>5. ASSUME DeriveStellarStatus(Phase(c)) = "registered"
      PROVE  effect[IssueOp(c)] = "success"
  <2>1. Phase(c) \in {None, "awaiting_signature", "failed_terminal", "submitted", "confirmed"}
    BY <1>4 DEF Phase
  <2>2. Phase(c) = "confirmed"
    BY <1>5, <2>1 DEF DeriveStellarStatus
  <2>3. verdict[IssueOp(c)] = "confirmed"
    BY <1>4, <2>2, IssuanceAssumption DEF Phase
  <2> QED  BY <1>3, <2>3 DEF IInv, OutboxSound
<1>6. effect[IssueOp(c)] = "success" => VerifyCredential(c, row[c].content).matches
  BY ExecutedHasRow DEF VerifyCredential, OnChain, Statuses
<1> QED  BY <1>2, <1>5, <1>6

\* The row a visitor finds missing is missing.
LEMMA NotFound ==
  ASSUME PagesInv, NEW v \in Visitors, [PagesNext]_pageVars,
         visit[v].at = "byId", visit'[v].at = "away"
  PROVE  row[visit[v].cred] = None
<1> DEFINE c == visit[v].cred
<1>1. PICK u \in Visitors : VisitorStep(u)
  BY DEF PagesNext, pageVars
<1>2. u = v
  <2>1. ASSUME u # v PROVE visit'[v] = visit[v]
    BY <1>1, <2>1 DEF VisitorStep, CredentialValidationPage, GetPublicCredentialByCode, Come,
         VerifyCredentialOnChainByCode, VerifyPage, VerifyCredentialById, ReadRow,
         AskContract, PagesInv
  <2> QED  BY <2>1
<1>3. ReadRow(v)
  <2>1. visit[v] # Away
    BY DEF Away
  <2>2. \A d, at, card : ~ Come(v, d, at, card)
    BY <2>1 DEF Come
  <2> QED  BY <1>1, <1>2, <2>2 DEF VisitorStep, CredentialValidationPage,
        GetPublicCredentialByCode, VerifyCredentialOnChainByCode, VerifyPage,
        VerifyCredentialById, AskContract
<1>4. ASSUME row[c] # None PROVE visit'[v].at = "ask"
  <2>1. visit' = [visit EXCEPT ![v] = [@ EXCEPT !.at = "ask", !.copy = Read(c)]]
    BY <1>3, <1>4 DEF ReadRow
  <2>2. visit[v] \in Visit /\ visit \in [Visitors -> Visit]
    BY DEF PagesInv
  <2> QED  BY <2>1, <2>2 DEF Visit
<1> QED  BY <1>4

\* What the contract tells about a row that was read is what it holds.
LEMMA AnswerOfRow ==
  ASSUME IInv, NEW c \in Creds, NEW copy, Knows(copy, c)
  PROVE  LET answer == Answer(c, copy) IN
         /\ answer.exists <=> "issued" \in OnChain(c)
         /\ answer.matches <=> "issued" \in OnChain(c)
         /\ answer.revoked <=> "revoked" \in OnChain(c)
         /\ answer.status # "not_found"
         /\ "revoked" \in OnChain(c) => answer.status = "revoked"
<1> DEFINE chain == VerifyCredential(c, copy.content)
           answer == Answer(c, copy)
<1>1. copy # None /\ copy.status \in Statuses /\ copy.status # None
  BY PublicPagesAssumption, IssuanceAssumption DEF Knows, Columns
<1>2. "issued" \in OnChain(c) => intent[c] = copy.content
  BY ExecutedHasRow DEF OnChain, Knows
<1>3. /\ chain.exists <=> "issued" \in OnChain(c)
      /\ chain.matches <=> "issued" \in OnChain(c)
      /\ chain.revoked <=> "revoked" \in OnChain(c)
  BY <1>2 DEF VerifyCredential
<1>4. /\ answer.exists = chain.exists /\ answer.matches = chain.matches
      /\ answer.revoked = chain.revoked
      /\ answer.status = ToVerificationStatus(copy.status, chain)
  BY <1>1 DEF Answer
<1> HIDE DEF chain, answer
<1>5. chain.revoked => answer.status = "revoked"
  BY <1>1, <1>4 DEF ToVerificationStatus
<1>6. ~ chain.revoked => answer.status = copy.status
  BY <1>1, <1>4 DEF ToVerificationStatus
<1>7. answer.status # "not_found"
  BY <1>1, <1>5, <1>6 DEF Statuses
<1>8. /\ answer.exists <=> "issued" \in OnChain(c)
      /\ answer.matches <=> "issued" \in OnChain(c)
      /\ answer.revoked <=> "revoked" \in OnChain(c)
      /\ "revoked" \in OnChain(c) => answer.status = "revoked"
  BY <1>3, <1>4, <1>5
<1> QED  BY <1>7, <1>8 DEF answer

\* What a page shows a visitor who leaves is true of what the chain tells.
LEMMA AnswersSound ==
  ASSUME PagesInv, NEW v \in Visitors, [PagesNext]_pageVars, Answered(v)
  PROVE  Honest(v)
<1> DEFINE c == visit[v].cred
           card == visit[v].card
           copy == visit[v].copy
           answer == Answer(c, copy)
<1>1. /\ VisitSound(v) /\ IInv
  BY DEF PagesInv
<1>2. c \in Creds /\ (card # None => Knows(card, c))
  BY <1>1 DEF Answered, VisitSound, Loading
<1>3. card # None /\ "issued" \in OnChain(c) => intent[c] = card.content
  BY <1>1, <1>2, ExecutedHasRow DEF OnChain, Knows
<1>4. CASE visit[v].at = "byId"
  <2>1. row[c] = None
    BY <1>4, NotFound DEF Answered
  <2>2. card = None /\ copy = None
    BY <1>1, <1>2, <1>4, <2>1 DEF Knows, VisitSound
  <2>3. "issued" \notin OnChain(c) /\ "revoked" \notin OnChain(c)
    BY <1>1, <1>2, <2>1, ExecutedHasRow DEF OnChain
  <2>4. ~ answer.exists
    BY <2>2 DEF Answer
  <2> HIDE DEF answer
  <2>5. ~ IdPage(answer).registered
    BY <2>4 DEF IdPage
  <2> QED  BY <2>2, <2>3, <2>5 DEF Honest, answer
<1>5. CASE visit[v].at = "ask"
  <2>1. /\ answer.exists <=> "issued" \in OnChain(c)
        /\ answer.matches <=> "issued" \in OnChain(c)
        /\ answer.revoked <=> "revoked" \in OnChain(c)
        /\ answer.status # "not_found"
        /\ "revoked" \in OnChain(c) => answer.status = "revoked"
    BY <1>1, <1>2, <1>5, AnswerOfRow DEF VisitSound
  <2> DEFINE code == CodePage(card, answer)
             id == IdPage(answer)
  <2> HIDE DEF answer
  <2>2. /\ (code.verified <=> answer.exists /\ answer.matches)
        /\ code.hash = card.content /\ (code.revoked <=> answer.revoked)
    BY DEF CodePage
  <2>3. /\ (id.registered <=> answer.exists) /\ (id.matches <=> answer.matches)
        /\ id.label = answer.status
    BY DEF IdPage
  <2> HIDE DEF code, id, card
  <2>4. /\ code.verified <=> "issued" \in OnChain(c)
        /\ code.revoked <=> "revoked" \in OnChain(c)
        /\ card # None /\ code.verified => intent[c] = code.hash
    BY <1>3, <2>1, <2>2
  <2>5. /\ id.registered <=> "issued" \in OnChain(c)
        /\ id.registered => id.matches /\ id.label # "not_found"
        /\ "revoked" \in OnChain(c) => id.label = "revoked"
    BY <2>1, <2>3
  <2> QED  BY <2>4, <2>5 DEF Honest, answer, code, id, card
<1> QED  BY <1>4, <1>5 DEF Answered

\* What the two pages say the contract says of a credential is true when they
\* say it, for any number of visitors and requests; what the banner of the
\* page of a code says is not, and is not part of it.
\* (credencial/[credentialCode]/page.tsx:184, verify/[credentialId]/page.tsx:42)
THEOREM AnswersHonest == PagesSpec => VerificationIsHonest
<1>1. PagesInv /\ [PagesNext]_pageVars =>
        [\A v \in Visitors : Answered(v) => Honest(v)]_pageVars
  BY AnswersSound
<1> QED  BY <1>1, PagesAlwaysSound, PTL DEF PagesSpec, VerificationIsHonest

\* No list and no card calls registered what the contract does not hold,
\* although overlapping calls overwrite the verdicts they read.
THEOREM ListedHonestly == PagesSpec => []ListsAreHonest
<1>1. PagesInv => ListsAreHonest
  BY ListsSound DEF PagesInv, ListsAreHonest
<1> QED  BY <1>1, PagesAlwaysSound, PTL
==============================================================================
