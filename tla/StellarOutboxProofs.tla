------------------------- MODULE StellarOutboxProofs -------------------------
(***************************************************************************)
(* What holds of the outbox for every number of operations, callers,       *)
(* envelopes, attempts and crashes.  The safety invariants are not         *)
(* inductive: they speak of the rows, and a row is overwritten by copies   *)
(* that were read any number of steps earlier.  The inductive invariant    *)
(* says of every copy, at every point of the code that may hold one, what  *)
(* the rows must satisfy once it is written back.                          *)
(***************************************************************************)
EXTENDS StellarOutbox, TLAPS

\* What makes a copy r of row o fit to be stored, given the envelopes t.
Sound(t, o, r) ==
  /\ r.phase = "signed" => r.signed \in Payloads
  /\ r.phase \in {"submitted", "confirming", "unknown", "confirmed"} =>
       r.hash \in Payloads
  /\ r.phase = "confirmed" => t[o][r.hash] = "success"

RowsSound == \A o \in Ops : Sound(tx, o, row[o])

\* The phase a caller's copy has at each step of the code.
CopyPhases(s) ==
  CASE s \in {"saveSigned", "submit", "saveRetry"} -> {"signed"}
    [] s = "saveSubmitted" -> {"submitted"}
    [] s \in {"saveConfirming", "poll", "readback"} -> {"confirming"}
    [] s = "saveResult" -> {"unknown", "failed_terminal", "confirmed"}
    [] s = "saveHandler" -> {"signed", "failed_terminal", "failed_retryable"}
    [] OTHER -> {Absent}

\* A caller at step s works on a row o that exists in the table R, with a
\* copy r fit for s.
CopySound(R, t, s, o, r) ==
  s # "idle" =>
    /\ o \in Ops
    /\ R[o].phase # Absent
    /\ r.phase \in CopyPhases(s)
    /\ Sound(t, o, r)
    /\ s = "readback" => t[o][r.hash] = "success"

CopiesSound == \A c \in Callers : CopySound(row, tx, pc[c], cur[c], mem[c])

\* A worker's claimed copies are of rows that exist and can be relayed.
BatchesSound ==
  \A w \in Workers : \A item \in batch[w] :
    /\ row[item.op].phase # Absent
    /\ item.phase = "signed" => item.signed \in Payloads

\* The chain remembers what a successful envelope did.
SuccessTookEffect ==
  \A o \in Ops, p \in Payloads : tx[o][p] = "success" => EffectOnChain(o)

\* Envelopes exist only for rows that exist, and the account has moved past
\* the number of every envelope a ledger included.
EnvelopesSound ==
  \A o \in Ops, p \in Payloads :
    /\ row[o].phase = Absent => tx[o][p] = "unseen"
    /\ tx[o][p] \in Included => envSeq[o] <= accountSeq

IInv ==
  /\ TypeOK
  /\ RowsSound
  /\ CopiesSound
  /\ BatchesSound
  /\ SuccessTookEffect
  /\ EnvelopesSound
  /\ SequenceUsedOnce

------------------------------------------------------------------------------
(* Types.                                                                  *)

\* The helpers on rows stay within the type of a row.
LEMMA RowHelpers ==
  ASSUME NEW r \in Row, NEW p \in Payloads \cup {None}
  PROVE  /\ ScheduleRetry(r) \in Row
         /\ MarkUnknown(r) \in Row
         /\ Accepted(r, p) \in Row
<1>1. ScheduleRetry(r) \in Row
  <2>1. r.attempts + 1 \in Nat
    BY DEF Row
  <2>2. \A n \in Nat : [r EXCEPT !.attempts = n, !.due = FALSE] \in Row
    BY DEF Row
  <2> QED
    BY <2>1, <2>2 DEF ScheduleRetry
<1>2. MarkUnknown(r) \in Row
  BY <1>1 DEF Row, MarkUnknown, Phases
<1>3. Accepted(r, p) \in Row
  BY DEF Row, Accepted, Phases
<1> QED
  BY <1>1, <1>2, <1>3

LEMMA BlankType == Blank \in Row
  BY DEF Row, Blank

\* Moving a caller keeps the types of what callers hold.
LEMMA GotoType ==
  ASSUME TypeOK, NEW c, NEW s \in PCs, NEW o \in Ops \cup {None},
         NEW r \in Row, Goto(c, s, o, r)
  PROVE  /\ pc' \in [Callers -> PCs]
         /\ cur' \in [Callers -> Ops \cup {None}]
         /\ mem' \in [Callers -> Row]
  BY DEF TypeOK, Goto

\* Writing a copy back keeps the types of the rows.
LEMMA SaveType ==
  ASSUME TypeOK, NEW c \in Callers, Save(c)
  PROVE  /\ row' \in [Ops -> Row]
         /\ lease' \in [Ops -> Workers \cup {None}]
         /\ envSeq' \in [Ops -> Nat]
  BY DEF TypeOK, Save

LEMMA TxType ==
  ASSUME tx \in [Ops -> [Payloads -> TxStates]],
         NEW o \in Ops, NEW p, NEW v \in TxStates
  PROVE  [tx EXCEPT ![o][p] = v] \in [Ops -> [Payloads -> TxStates]]
<1>1. [tx[o] EXCEPT ![p] = v] \in [Payloads -> TxStates]
  OBVIOUS
<1> QED
  BY <1>1

\* Where a busy caller works and what it holds there, from CopiesSound.
LEMMA BusyCaller ==
  ASSUME CopiesSound, NEW c \in Callers, pc[c] # "idle"
  PROVE  /\ cur[c] \in Ops
         /\ row[cur[c]].phase # Absent
         /\ mem[c].phase \in CopyPhases(pc[c])
         /\ Sound(tx, cur[c], mem[c])
         /\ pc[c] = "readback" => tx[cur[c]][mem[c].hash] = "success"
  BY DEF CopiesSound, CopySound

\* The calls and the rows they start from.
LEMMA EntryType ==
  ASSUME TypeOK, NEW c \in Callers, NEW o \in Ops,
         NEW p \in Payloads \cup {None},
         EnterSubmit(c, o, p) \/ EnterReconcile(c, o)
  PROVE  /\ pc' \in [Callers -> PCs]
         /\ cur' \in [Callers -> Ops \cup {None}]
         /\ mem' \in [Callers -> Row]
<1>1. /\ row[o] \in Row
      /\ [row[o] EXCEPT !.phase = "signed", !.signed = p] \in Row
      /\ [row[o] EXCEPT !.phase = "confirming"] \in Row
  BY ZenonT(60) DEF TypeOK, Row, Phases
<1>2. CASE EnterSubmit(c, o, p)
  BY <1>1, <1>2, GotoType DEF EnterSubmit, PCs
<1>3. CASE EnterReconcile(c, o)
  BY <1>1, <1>3, GotoType DEF EnterReconcile, PCs
<1> QED
  BY <1>2, <1>3

LEMMA ReturnType ==
  ASSUME TypeOK, NEW c \in Callers, Return(c) \/ Throw(c)
  PROVE  /\ pc' \in [Callers -> PCs]
         /\ cur' \in [Callers -> Ops \cup {None}]
         /\ mem' \in [Callers -> Row]
<1>1. Blank \in Row
  BY BlankType
<1>2. cur[c] \in Ops \cup {None}
  BY DEF TypeOK
<1> QED
  BY <1>1, <1>2, GotoType DEF Return, Throw, PCs

\* A step of a call leaves its copy in the type of a row.
LEMMA ContinueType ==
  ASSUME TypeOK, NEW c \in Callers, NEW s \in PCs, NEW r \in Row,
         Continue(c, s, r)
  PROVE  /\ pc' \in [Callers -> PCs]
         /\ cur' \in [Callers -> Ops \cup {None}]
         /\ mem' \in [Callers -> Row]
<1>1. cur[c] \in Ops \cup {None}
  BY DEF TypeOK
<1> QED
  BY <1>1, GotoType DEF Continue

LEMMA TypeStep ==
  ASSUME TypeOK, CopiesSound, [Next]_vars
  PROVE  TypeOK'
<1> USE DEF dbVars, callVars, chainVars
<1>1. ASSUME NEW o \in Ops, Prepare(o)
      PROVE  TypeOK'
  <2>1. \A ph \in Phases : [row EXCEPT ![o].phase = ph] \in [Ops -> Row]
    BY DEF TypeOK, Row
  <2>2. row' \in [Ops -> Row]
    BY <1>1, <2>1 DEF Prepare, Phases
  <2>3. envSeq' \in [Ops -> Nat] /\ accountSeq' \in Nat
    BY <1>1 DEF TypeOK, Prepare
  <2> QED
    BY <1>1, <2>2, <2>3 DEF TypeOK, Prepare
<1>2. ASSUME NEW c \in Clients, NEW o \in Ops, NEW p \in Payloads,
             ClientSubmit(c, o, p)
      PROVE  TypeOK'
  BY <1>2, EntryType DEF TypeOK, ClientSubmit, Callers
<1>3. ASSUME NEW c \in Clients, NEW o \in Ops, ClientReconcile(c, o)
      PROVE  TypeOK'
  BY <1>3, EntryType DEF TypeOK, ClientReconcile, Callers
<1>4. ASSUME NEW w \in Workers, Claim(w)
      PROVE  TypeOK'
  <2>1. lease' \in [Ops -> Workers \cup {None}]
    BY <1>4 DEF TypeOK, Claim
  <2>2. \A o \in Ops : Claimable(o) =>
          [op |-> o, phase |-> row[o].phase, signed |-> row[o].signed] \in Item
    BY DEF TypeOK, Claimable, ClaimPhases, Item, Row, Phases
  <2>3. batch' \in [Workers -> SUBSET Item]
    BY <1>4, <2>2 DEF TypeOK, Claim
  <2> QED
    BY <1>4, <2>1, <2>3 DEF TypeOK, Claim
<1>5. ASSUME NEW w \in Workers, Process(w)
      PROVE  TypeOK'
  <2>1. PICK item \in batch[w] :
          /\ batch' = [batch EXCEPT ![w] = @ \ {item}]
          /\ \/ EnterSubmit(w, item.op, item.signed)
             \/ EnterReconcile(w, item.op)
             \/ Goto(w, "handler", item.op, Blank)
             \/ Return(w)
    BY <1>5 DEF Process
  <2>2. /\ w \in Callers
        /\ item.op \in Ops
        /\ item.signed \in Payloads \cup {None}
    BY DEF TypeOK, Item, Callers
  <2>3. batch' \in [Workers -> SUBSET Item]
    BY <2>1 DEF TypeOK
  <2>4. /\ pc' \in [Callers -> PCs]
        /\ cur' \in [Callers -> Ops \cup {None}]
        /\ mem' \in [Callers -> Row]
    BY <2>1, <2>2, EntryType, ReturnType, GotoType, BlankType DEF PCs
  <2> QED
    BY <1>5, <2>3, <2>4 DEF TypeOK, Process
<1>6. ASSUME NEW w \in Workers, Handle(w)
      PROVE  TypeOK'
  <2>1. w \in Callers /\ row[cur[w]] \in Row
    BY <1>6, BusyCaller DEF Handle, Callers, TypeOK
  <2>2. \A r \in Row :
          /\ [r EXCEPT !.attempts = @ + 1, !.phase = "failed_terminal"] \in Row
          /\ [ScheduleRetry(r) EXCEPT !.phase = "failed_retryable"] \in Row
    <3> TAKE r \in Row
    <3>1. r.attempts + 1 \in Nat /\ ScheduleRetry(r) \in Row
      BY RowHelpers DEF Row
    <3> QED
      BY <3>1 DEF Row, Phases
  <2>3. \/ Return(w)
        \/ \E r \in Row : Continue(w, "saveHandler", r)
    BY <1>6, <2>1, <2>2 DEF Handle
  <2>4. /\ pc' \in [Callers -> PCs]
        /\ cur' \in [Callers -> Ops \cup {None}]
        /\ mem' \in [Callers -> Row]
    BY <2>1, <2>3, ReturnType, ContinueType DEF PCs
  <2> QED
    BY <1>6, <2>4 DEF TypeOK, Handle
<1>7. ASSUME NEW w \in Workers, SaveHandler(w)
      PROVE  TypeOK'
  BY <1>7, SaveType, ReturnType DEF TypeOK, SaveHandler, Callers
<1>8. ASSUME NEW c \in Callers, SaveSigned(c)
      PROVE  TypeOK'
  <2>1. mem[c] \in Row
    BY DEF TypeOK
  <2> QED
    BY <1>8, <2>1, SaveType, ContinueType DEF TypeOK, SaveSigned, PCs
<1>9. ASSUME NEW c \in Callers, Submit(c)
      PROVE  TypeOK'
  <2>1. mem[c] \in Row /\ mem[c].signed \in Payloads \cup {None}
    BY DEF TypeOK, Row
  <2>2. tx' \in [Ops -> [Payloads -> TxStates]]
    <3>1. cur[c] \in Ops
      BY <1>9, BusyCaller DEF Submit
    <3> QED
      BY <1>9, <3>1, TxType DEF TypeOK, Submit, TxStates
  <2>3. \E s \in PCs, r \in Row : Continue(c, s, r)
    BY <1>9, <2>1, RowHelpers DEF Submit, PCs
  <2> QED
    BY <1>9, <2>2, <2>3, ContinueType DEF TypeOK, Submit
<1>10. ASSUME NEW c \in Callers, SaveRetry(c)
       PROVE  TypeOK'
  BY <1>10, SaveType, ReturnType DEF TypeOK, SaveRetry
<1>11. ASSUME NEW c \in Callers, SaveSubmitted(c) \/ SaveConfirming(c)
       PROVE  TypeOK'
  <2>1. mem[c] \in Row /\ [mem[c] EXCEPT !.phase = "confirming"] \in Row
    BY DEF TypeOK, Row, Phases
  <2> QED
    BY <1>11, <2>1, SaveType, ContinueType
       DEF TypeOK, SaveSubmitted, SaveConfirming, PCs
<1>12. ASSUME NEW c \in Callers, Poll(c) \/ Readback(c)
       PROVE  TypeOK'
  <2>1. /\ mem[c] \in Row
        /\ MarkUnknown(mem[c]) \in Row
        /\ [mem[c] EXCEPT !.phase = "failed_terminal", !.due = TRUE] \in Row
        /\ [mem[c] EXCEPT !.phase = "failed_terminal"] \in Row
        /\ [mem[c] EXCEPT !.phase = "confirmed"] \in Row
    <3>1. mem[c] \in Row
      BY DEF TypeOK
    <3>2. MarkUnknown(mem[c]) \in Row
      BY <3>1, RowHelpers
    <3>3. \A ph \in Phases, d \in BOOLEAN, r \in Row :
            /\ [r EXCEPT !.phase = ph] \in Row
            /\ [r EXCEPT !.phase = ph, !.due = d] \in Row
      BY DEF Row
    <3> QED
      BY <3>1, <3>2, <3>3 DEF Phases
  <2>2. Throw(c) \/ \E s \in PCs, r \in Row : Continue(c, s, r)
    BY <1>12, <2>1 DEF Poll, Readback, PCs
  <2> QED
    BY <1>12, <2>2, ReturnType, ContinueType DEF TypeOK, Poll, Readback
<1>13. ASSUME NEW c \in Callers, SaveResult(c)
       PROVE  TypeOK'
  BY <1>13, SaveType, ReturnType DEF TypeOK, SaveResult
<1>14. ASSUME NEW c \in Callers, Crash(c)
       PROVE  TypeOK'
  <2>1. batch' \in [Workers -> SUBSET Item] /\ crashes' \in Nat
    BY <1>14 DEF TypeOK, Crash
  <2> QED
    BY <1>14, <2>1, ReturnType DEF TypeOK, Crash
<1>15. ASSUME NEW o \in Ops, BackoffElapses(o) \/ LeaseExpires(o)
       PROVE  TypeOK'
  <2>1. \A d \in BOOLEAN, r \in Row : [r EXCEPT !.due = d] \in Row
    BY DEF Row
  <2>2. [row EXCEPT ![o].due = TRUE] \in [Ops -> Row]
    BY <2>1 DEF TypeOK
  <2>3. row' \in [Ops -> Row] /\ lease' \in [Ops -> Workers \cup {None}]
    BY <1>15, <2>2 DEF TypeOK, BackoffElapses, LeaseExpires
  <2> QED
    BY <1>15, <2>3 DEF TypeOK, BackoffElapses, LeaseExpires
<1>16. ASSUME OtherTraffic
       PROVE  TypeOK'
  BY <1>16 DEF TypeOK, OtherTraffic
<1>17. ASSUME NEW o \in Ops, NEW p \in Payloads,
              LedgerIncludes(o, p) \/ NetworkDrops(o, p)
       PROVE  TypeOK'
  <2>1. \E v \in TxStates : tx' = [tx EXCEPT ![o][p] = v]
    BY <1>17 DEF LedgerIncludes, NetworkDrops, TxStates
  <2>2. tx' \in [Ops -> [Payloads -> TxStates]]
    BY <2>1, TxType DEF TypeOK
  <2>3. CASE LedgerIncludes(o, p)
    <3>1. accountSeq' \in Nat
      BY <2>3 DEF TypeOK, LedgerIncludes
    <3>2. /\ made' \in [Subjects -> Ops \cup {None}]
          /\ revokedBy' \in [Subjects -> Ops \cup {None}]
      BY <2>3 DEF TypeOK, LedgerIncludes
    <3> QED
      BY <2>2, <2>3, <3>1, <3>2 DEF TypeOK, LedgerIncludes
  <2>4. CASE NetworkDrops(o, p)
    BY <2>2, <2>4 DEF TypeOK, NetworkDrops
  <2> QED
    BY <1>17, <2>3, <2>4
<1>18. CASE UNCHANGED vars
  BY <1>18 DEF TypeOK, vars
<1> QED
  BY <1>1, <1>2, <1>3, <1>4, <1>5, <1>6, <1>7, <1>8, <1>9, <1>10, <1>11,
     <1>12, <1>13, <1>14, <1>15, <1>16, <1>17, <1>18
     DEF Next, ClientStep, WorkerStep, CallStep, Clock, Network

------------------------------------------------------------------------------
(* Copies.                                                                 *)

\* A step takes no row away and no success back.
Stable ==
  /\ \A o \in Ops : row[o].phase # Absent => row'[o].phase # Absent
  /\ \A o \in Ops, p \in Payloads : tx[o][p] = "success" => tx'[o][p] = "success"

LEMMA SoundStays ==
  ASSUME Stable, NEW o \in Ops, NEW r, Sound(tx, o, r)
  PROVE  Sound(tx', o, r)
  BY DEF Stable, Sound

LEMMA CopyStays ==
  ASSUME Stable, NEW s, NEW o, NEW r, CopySound(row, tx, s, o, r)
  PROVE  CopySound(row', tx', s, o, r)
<1> SUFFICES ASSUME s # "idle"
             PROVE  CopySound(row', tx', s, o, r)
  BY DEF CopySound
<1>1. o \in Ops /\ Sound(tx', o, r) /\ row'[o].phase # Absent
  BY SoundStays DEF CopySound, Stable
<1>2. s = "readback" => tx'[o][r.hash] = "success"
  <2> SUFFICES ASSUME s = "readback"
               PROVE  tx'[o][r.hash] = "success"
    OBVIOUS
  <2>1. r.phase = "confirming"
    BY DEF CopySound, CopyPhases
  <2>2. r.hash \in Payloads
    BY <2>1 DEF CopySound, Sound
  <2> QED
    BY <1>1, <2>2 DEF CopySound, Stable
<1> QED
  BY <1>1, <1>2 DEF CopySound

\* Every other caller keeps a sound copy when c moves to a sound one.
LEMMA GotoKeepsCopies ==
  ASSUME TypeOK, CopiesSound, Stable,
         NEW c \in Callers, NEW s, NEW o, NEW r, Goto(c, s, o, r),
         CopySound(row', tx', s, o, r)
  PROVE  CopiesSound'
<1> SUFFICES ASSUME NEW d \in Callers
             PROVE  CopySound(row', tx', pc'[d], cur'[d], mem'[d])
  BY DEF CopiesSound
<1>1. CASE d = c
  BY <1>1 DEF TypeOK, Goto
<1>2. CASE d # c
  <2>1. pc'[d] = pc[d] /\ cur'[d] = cur[d] /\ mem'[d] = mem[d]
    BY <1>2 DEF TypeOK, Goto
  <2>2. CopySound(row', tx', pc[d], cur[d], mem[d])
    BY CopyStays DEF CopiesSound
  <2> QED
    BY <2>1, <2>2
<1> QED
  BY <1>1, <1>2

LEMMA CallersStay ==
  ASSUME CopiesSound, Stable, UNCHANGED callVars
  PROVE  CopiesSound'
<1> SUFFICES ASSUME NEW d \in Callers
             PROVE  CopySound(row', tx', pc'[d], cur'[d], mem'[d])
  BY DEF CopiesSound
<1>1. CopySound(row', tx', pc[d], cur[d], mem[d])
  BY CopyStays DEF CopiesSound
<1> QED
  BY <1>1 DEF callVars

LEMMA ReturnKeepsCopies ==
  ASSUME TypeOK, CopiesSound, Stable, NEW c \in Callers, Return(c)
  PROVE  CopiesSound'
<1>1. CopySound(row', tx', "idle", None, Blank)
  BY DEF CopySound
<1> QED
  BY <1>1, GotoKeepsCopies DEF Return

LEMMA ThrowKeepsCopies ==
  ASSUME TypeOK, CopiesSound, Stable, NEW c \in Callers, Throw(c),
         pc[c] # "idle"
  PROVE  CopiesSound'
<1>1. CASE Return(c)
  BY <1>1, ReturnKeepsCopies
<1>2. CASE Goto(c, "handler", cur[c], Blank)
  <2>1. CopySound(row', tx', "handler", cur[c], Blank)
    BY BusyCaller DEF CopySound, CopyPhases, Sound, Blank, Absent, Stable
  <2> QED
    BY <1>2, <2>1, GotoKeepsCopies
<1> QED
  BY <1>1, <1>2 DEF Throw

------------------------------------------------------------------------------
(* The invariant, one kind of step at a time.                              *)

\* What is left of IInv when a step writes neither rows nor chain.
LEMMA CallerStep ==
  ASSUME IInv, TypeOK', UNCHANGED <<row, envSeq, chainVars>>,
         CopiesSound', BatchesSound'
  PROVE  IInv'
<1> USE DEF IInv, chainVars
<1>1. RowsSound'
  BY DEF RowsSound, Sound
<1>2. SuccessTookEffect' /\ EnvelopesSound' /\ SequenceUsedOnce'
  BY DEF SuccessTookEffect, EffectOnChain, EnvelopesSound, SequenceUsedOnce
<1> QED
  BY <1>1, <1>2

LEMMA NothingWritten ==
  ASSUME UNCHANGED <<row, tx>>
  PROVE  Stable
  BY DEF Stable

LEMMA BatchesShrink ==
  ASSUME BatchesSound, Stable, TypeOK,
         \A w \in Workers : batch'[w] \subseteq batch[w]
  PROVE  BatchesSound'
<1> SUFFICES ASSUME NEW w \in Workers, NEW item \in batch'[w]
             PROVE  /\ row'[item.op].phase # Absent
                    /\ item.phase = "signed" => item.signed \in Payloads
  BY DEF BatchesSound
<1>1. item \in batch[w] /\ item.op \in Ops
  BY DEF TypeOK, Item
<1> QED
  BY <1>1 DEF BatchesSound, Stable

\* A save leaves its row fit and every other one as it was.
LEMMA SaveStep ==
  ASSUME IInv, TypeOK', NEW c \in Callers, pc[c] \notin {"idle", "handler"},
         Save(c), UNCHANGED <<batch, chainVars>>
  PROVE  /\ Stable
         /\ RowsSound' /\ BatchesSound' /\ SuccessTookEffect'
         /\ EnvelopesSound' /\ SequenceUsedOnce'
<1> USE DEF IInv, chainVars
<1>1. /\ cur[c] \in Ops
      /\ Sound(tx, cur[c], mem[c])
      /\ row[cur[c]].phase # Absent
      /\ mem[c].phase # Absent
  <2>1. pc[c] \in PCs
    BY DEF TypeOK
  <2>2. Absent \notin CopyPhases(pc[c])
    BY <2>1 DEF CopyPhases, Absent, PCs
  <2> QED
    BY <2>2, BusyCaller
<1>2. /\ row'[cur[c]] = mem[c]
      /\ \A o \in Ops : o # cur[c] => row'[o] = row[o]
  BY <1>1 DEF Save, TypeOK
<1>3. Stable
  BY <1>1, <1>2 DEF Stable
<1>4. RowsSound'
  <2> SUFFICES ASSUME NEW o \in Ops
               PROVE  Sound(tx', o, row'[o])
    BY DEF RowsSound
  <2>1. Sound(tx, o, row'[o])
    BY <1>1, <1>2 DEF RowsSound
  <2> QED
    BY <2>1
<1>5. BatchesSound'
  BY <1>3, BatchesShrink
<1>6. SuccessTookEffect' /\ SequenceUsedOnce'
  BY DEF SuccessTookEffect, EffectOnChain, SequenceUsedOnce, Save
<1>7. EnvelopesSound'
  BY <1>1, <1>2 DEF EnvelopesSound, Save
<1> QED
  BY <1>3, <1>4, <1>5, <1>6, <1>7

\* A call goes on with a copy that is fit for its next step.
LEMMA ContinueKeepsCopies ==
  ASSUME TypeOK, CopiesSound, Stable, NEW c \in Callers, pc[c] # "idle",
         NEW s, NEW r, Continue(c, s, r),
         r.phase \in CopyPhases(s), Sound(tx', cur[c], r),
         s = "readback" => tx'[cur[c]][r.hash] = "success"
  PROVE  CopiesSound'
<1>1. CopySound(row', tx', s, cur[c], r)
  BY BusyCaller DEF CopySound, Stable
<1> QED
  BY <1>1, GotoKeepsCopies DEF Continue

\* Entering submitSigned or reconcile takes a copy of a sound row.
LEMMA EntryKeepsCopies ==
  ASSUME TypeOK, RowsSound, CopiesSound, UNCHANGED <<row, tx>>,
         NEW c \in Callers, NEW o \in Ops, NEW p \in Payloads \cup {None},
         \/ CanSubmit(row[o], p) /\ EnterSubmit(c, o, p)
         \/ CanReconcile(row[o]) /\ EnterReconcile(c, o),
         row[o].phase # Absent,
         row[o].phase = "awaiting_signature" => p \in Payloads
  PROVE  CopiesSound'
<1> USE NothingWritten
<1>1. row[o] \in Row
  BY DEF TypeOK
<1>2. CASE EnterSubmit(c, o, p) /\ row[o].phase = "awaiting_signature"
  <2> DEFINE r == [row[o] EXCEPT !.phase = "signed", !.signed = p]
  <2>1. r.phase = "signed" /\ r.signed \in Payloads
    BY <1>1, <1>2 DEF Row
  <2>2. CopySound(row', tx', "saveSigned", o, r)
    BY <2>1 DEF CopySound, CopyPhases, Sound
  <2>3. Goto(c, "saveSigned", o, r)
    BY <1>2 DEF EnterSubmit
  <2> QED
    BY <2>2, <2>3, GotoKeepsCopies
<1>3. CASE CanSubmit(row[o], p) /\ EnterSubmit(c, o, p)
           /\ row[o].phase # "awaiting_signature"
  <2>1. row[o].phase = "signed" /\ Goto(c, "submit", o, row[o])
    BY <1>3 DEF CanSubmit, EnterSubmit
  <2>2. CopySound(row', tx', "submit", o, row[o])
    BY <2>1 DEF CopySound, CopyPhases, RowsSound
  <2> QED
    BY <2>1, <2>2, GotoKeepsCopies
<1>4. CASE CanReconcile(row[o]) /\ EnterReconcile(c, o)
  <2> DEFINE r == [row[o] EXCEPT !.phase = "confirming"]
  <2>1. r.phase = "confirming" /\ r.hash \in Payloads
    BY <1>1, <1>4 DEF Row, CanReconcile
  <2>2. CopySound(row', tx', "saveConfirming", o, r)
    BY <2>1 DEF CopySound, CopyPhases, Sound
  <2> QED
    BY <1>4, <2>2, GotoKeepsCopies DEF EnterReconcile
<1> QED
  BY <1>2, <1>3, <1>4

LEMMA ClientStepInv ==
  ASSUME IInv, TypeOK', NEW c \in Clients, ClientStep(c)
  PROVE  IInv'
<1> USE DEF IInv
<1>1. UNCHANGED <<row, envSeq, chainVars, batch>>
  BY DEF ClientStep, ClientSubmit, ClientReconcile, dbVars
<1>2. BatchesSound'
  BY <1>1, NothingWritten, BatchesShrink DEF chainVars
<1>3. CopiesSound'
  <2>1. PICK o \in Ops : ClientReconcile(c, o)
                         \/ \E p \in Payloads : ClientSubmit(c, o, p)
    BY DEF ClientStep
  <2>2. row[o].phase # Absent
    BY <2>1 DEF ClientReconcile, ClientSubmit, CanReconcile, CanSubmit,
                Reconcilable, Absent
  <2>3. CASE ClientReconcile(c, o)
    <3>1. row[o].phase # "awaiting_signature"
      BY <2>3 DEF ClientReconcile, CanReconcile, Reconcilable
    <3> QED
      BY <1>1, <2>2, <2>3, <3>1, EntryKeepsCopies
         DEF ClientReconcile, Callers, chainVars
  <2>4. CASE \E p \in Payloads : ClientSubmit(c, o, p)
    BY <1>1, <2>2, <2>4, EntryKeepsCopies DEF ClientSubmit, Callers, chainVars
  <2> QED
    BY <2>1, <2>3, <2>4
<1> QED
  BY <1>1, <1>2, <1>3, CallerStep

LEMMA ProcessInv ==
  ASSUME IInv, TypeOK', NEW w \in Workers, Process(w)
  PROVE  IInv'
<1> USE DEF IInv
<1>1. UNCHANGED <<row, envSeq, chainVars>>
  BY DEF Process, dbVars
<1>2. Stable
  BY <1>1, NothingWritten DEF chainVars
<1>3. PICK item \in batch[w] :
        /\ batch' = [batch EXCEPT ![w] = @ \ {item}]
        /\ \/ /\ item.phase = "signed"
              /\ CanSubmit(row[item.op], item.signed)
              /\ EnterSubmit(w, item.op, item.signed)
           \/ /\ CanReconcile(row[item.op])
              /\ EnterReconcile(w, item.op)
           \/ Goto(w, "handler", item.op, Blank)
           \/ Return(w)
  BY DEF Process
<1>4. /\ w \in Callers
      /\ item.op \in Ops
      /\ item.signed \in Payloads \cup {None}
      /\ row[item.op].phase # Absent
      /\ item.phase = "signed" => item.signed \in Payloads
  BY DEF TypeOK, Item, Callers, BatchesSound
<1>5. BatchesSound'
  <2>1. \A v \in Workers : batch'[v] \subseteq batch[v]
    BY <1>3 DEF TypeOK
  <2> QED
    BY <1>2, <2>1, BatchesShrink
<1>6. CopiesSound'
  <2>1. CASE Return(w)
    BY <1>2, <1>4, <2>1, ReturnKeepsCopies
  <2>2. CASE Goto(w, "handler", item.op, Blank)
    <3>1. CopySound(row', tx', "handler", item.op, Blank)
      BY <1>2, <1>4 DEF CopySound, CopyPhases, Sound, Blank, Absent, Stable
    <3> QED
      BY <1>2, <1>4, <2>2, <3>1, GotoKeepsCopies
  <2>3. CASE /\ item.phase = "signed"
             /\ CanSubmit(row[item.op], item.signed)
             /\ EnterSubmit(w, item.op, item.signed)
    BY <1>1, <1>4, <2>3, EntryKeepsCopies DEF chainVars
  <2>4. CASE CanReconcile(row[item.op]) /\ EnterReconcile(w, item.op)
    <3>1. row[item.op].phase # "awaiting_signature"
      BY <2>4 DEF CanReconcile, Reconcilable
    <3> QED
      BY <1>1, <1>4, <2>4, <3>1, EntryKeepsCopies DEF chainVars
  <2> QED
    BY <1>3, <2>1, <2>2, <2>3, <2>4
<1> QED
  BY <1>1, <1>5, <1>6, CallerStep

LEMMA HandleInv ==
  ASSUME IInv, TypeOK', NEW w \in Workers, Handle(w)
  PROVE  IInv'
<1> USE DEF IInv
<1>1. /\ UNCHANGED <<row, envSeq, chainVars, batch>>
      /\ w \in Callers /\ pc[w] = "handler"
  BY DEF Handle, dbVars, Callers
<1>2. Stable
  BY <1>1, NothingWritten DEF chainVars
<1>3. BatchesSound'
  BY <1>1, <1>2, BatchesShrink
<1>4. CopiesSound'
  <2> DEFINE r == row[cur[w]]
             t == [r EXCEPT !.attempts = @ + 1, !.phase = "failed_terminal"]
             q == [ScheduleRetry(r) EXCEPT !.phase = "failed_retryable"]
  <2>1. cur[w] \in Ops /\ r \in Row
    BY <1>1, BusyCaller DEF TypeOK
  <2>2. Sound(tx', cur[w], r)
    BY <1>1, <2>1 DEF RowsSound, chainVars
  <2>3. t.phase = "failed_terminal" /\ q.phase = "failed_retryable"
    BY <2>1 DEF Row, ScheduleRetry
  <2>4. /\ Sound(tx', cur[w], t) /\ Sound(tx', cur[w], q)
        /\ t.phase \in CopyPhases("saveHandler")
        /\ q.phase \in CopyPhases("saveHandler")
    BY <2>3 DEF Sound, CopyPhases
  <2>5. \/ r.phase = "signed" /\ Continue(w, "saveHandler", r)
        \/ Return(w)
        \/ Continue(w, "saveHandler", t)
        \/ Continue(w, "saveHandler", q)
    BY DEF Handle
  <2>6. CASE r.phase = "signed" /\ Continue(w, "saveHandler", r)
    <3>1. r.phase \in CopyPhases("saveHandler")
      BY <2>6 DEF CopyPhases
    <3> QED
      BY <1>1, <1>2, <2>2, <2>6, <3>1, ContinueKeepsCopies
  <2>7. CASE Return(w)
    BY <1>1, <1>2, <2>7, ReturnKeepsCopies
  <2>8. CASE Continue(w, "saveHandler", t)
    BY <1>1, <1>2, <2>4, <2>8, ContinueKeepsCopies
  <2>9. CASE Continue(w, "saveHandler", q)
    BY <1>1, <1>2, <2>4, <2>9, ContinueKeepsCopies
  <2> QED
    BY <2>5, <2>6, <2>7, <2>8, <2>9
<1> QED
  BY <1>1, <1>3, <1>4, CallerStep

LEMMA PollInv ==
  ASSUME IInv, TypeOK', NEW c \in Callers, Poll(c)
  PROVE  IInv'
<1> USE DEF IInv
<1>1. UNCHANGED <<row, envSeq, chainVars, batch>> /\ pc[c] = "poll"
  BY DEF Poll, dbVars
<1>2. Stable
  BY <1>1, NothingWritten DEF chainVars
<1>3. BatchesSound'
  BY <1>1, <1>2, BatchesShrink
<1>4. CopiesSound'
  <2>1. /\ cur[c] \in Ops /\ mem[c] \in Row
        /\ mem[c].phase = "confirming"
        /\ mem[c].hash \in Payloads
    BY <1>1, BusyCaller DEF TypeOK, CopyPhases, Sound
  <2>2. CASE Continue(c, "saveResult", MarkUnknown(mem[c]))
    <3> DEFINE r == MarkUnknown(mem[c])
    <3>1. r.phase = "unknown" /\ r.hash = mem[c].hash
      BY <2>1 DEF MarkUnknown, ScheduleRetry, Row
    <3>2. Sound(tx', cur[c], r) /\ r.phase \in CopyPhases("saveResult")
      BY <2>1, <3>1 DEF Sound, CopyPhases
    <3> QED
      BY <1>1, <1>2, <2>2, <3>2, ContinueKeepsCopies
  <2>3. CASE Continue(c, "saveResult", [mem[c] EXCEPT
                        !.phase = "failed_terminal", !.due = TRUE])
    <3> DEFINE r == [mem[c] EXCEPT !.phase = "failed_terminal", !.due = TRUE]
    <3>1. r.phase = "failed_terminal"
      BY <2>1 DEF Row
    <3>2. Sound(tx', cur[c], r) /\ r.phase \in CopyPhases("saveResult")
      BY <3>1 DEF Sound, CopyPhases
    <3> QED
      BY <1>1, <1>2, <2>3, <3>2, ContinueKeepsCopies
  <2>4. CASE /\ tx[cur[c]][mem[c].hash] = "success"
             /\ Continue(c, "readback", mem[c])
    <3>1. /\ mem[c].phase \in CopyPhases("readback")
          /\ Sound(tx', cur[c], mem[c])
          /\ tx'[cur[c]][mem[c].hash] = "success"
      BY <1>1, <2>1, <2>4, BusyCaller DEF CopyPhases, chainVars
    <3> QED
      BY <1>1, <1>2, <2>4, <3>1, ContinueKeepsCopies
  <2>5. CASE Throw(c)
    BY <1>1, <1>2, <2>5, ThrowKeepsCopies
  <2> QED
    BY <2>2, <2>3, <2>4, <2>5 DEF Poll
<1> QED
  BY <1>1, <1>3, <1>4, CallerStep

LEMMA ReadbackInv ==
  ASSUME IInv, TypeOK', NEW c \in Callers, Readback(c)
  PROVE  IInv'
<1> USE DEF IInv
<1>1. UNCHANGED <<row, envSeq, chainVars, batch>> /\ pc[c] = "readback"
  BY DEF Readback, dbVars
<1>2. Stable
  BY <1>1, NothingWritten DEF chainVars
<1>3. BatchesSound'
  BY <1>1, <1>2, BatchesShrink
<1>4. CopiesSound'
  <2>1. /\ cur[c] \in Ops /\ mem[c] \in Row
        /\ mem[c].hash \in Payloads
        /\ tx'[cur[c]][mem[c].hash] = "success"
    BY <1>1, BusyCaller DEF TypeOK, CopyPhases, Sound, chainVars
  <2>2. ASSUME NEW ph \in {"confirmed", "failed_terminal"},
               Continue(c, "saveResult", [mem[c] EXCEPT !.phase = ph])
        PROVE  CopiesSound'
    <3> DEFINE r == [mem[c] EXCEPT !.phase = ph]
    <3>1. r.phase = ph /\ r.hash = mem[c].hash
      BY <2>1 DEF Row
    <3>2. Sound(tx', cur[c], r) /\ r.phase \in CopyPhases("saveResult")
      BY <2>1, <3>1 DEF Sound, CopyPhases
    <3> QED
      BY <1>1, <1>2, <2>2, <3>2, ContinueKeepsCopies
  <2>3. CASE Throw(c)
    BY <1>1, <1>2, <2>3, ThrowKeepsCopies
  <2> QED
    BY <2>2, <2>3 DEF Readback
<1> QED
  BY <1>1, <1>3, <1>4, CallerStep

\* The steps that write a copy back and go on, throw or return.
LEMMA SavesInv ==
  ASSUME IInv, TypeOK', NEW c \in Callers,
         \/ SaveSigned(c) \/ SaveRetry(c) \/ SaveSubmitted(c)
         \/ SaveConfirming(c) \/ SaveResult(c) \/ SaveHandler(c)
  PROVE  IInv'
<1> USE DEF IInv
<1>1. /\ pc[c] \notin {"idle", "handler"} /\ Save(c)
      /\ UNCHANGED <<batch, chainVars>>
  BY DEF SaveSigned, SaveRetry, SaveSubmitted, SaveConfirming, SaveResult,
         SaveHandler
<1>2. /\ Stable
      /\ RowsSound' /\ BatchesSound' /\ SuccessTookEffect'
      /\ EnvelopesSound' /\ SequenceUsedOnce'
  BY <1>1, SaveStep
<1>3. /\ cur[c] \in Ops /\ mem[c] \in Row
      /\ mem[c].phase \in CopyPhases(pc[c])
      /\ Sound(tx', cur[c], mem[c])
  BY <1>1, BusyCaller DEF TypeOK, chainVars
<1>4. CopiesSound'
  <2>1. CASE SaveSigned(c)
    <3>1. mem[c].phase \in CopyPhases("submit")
      BY <1>3, <2>1 DEF SaveSigned, CopyPhases
    <3> QED
      BY <1>1, <1>2, <1>3, <2>1, <3>1, ContinueKeepsCopies DEF SaveSigned
  <2>2. CASE SaveRetry(c)
    BY <1>1, <1>2, <2>2, ThrowKeepsCopies DEF SaveRetry
  <2>3. CASE SaveSubmitted(c)
    <3> DEFINE r == [mem[c] EXCEPT !.phase = "confirming"]
    <3>1. r.phase = "confirming" /\ r.hash \in Payloads
      BY <1>3, <2>3 DEF SaveSubmitted, CopyPhases, Sound, Row
    <3>2. Sound(tx', cur[c], r) /\ r.phase \in CopyPhases("saveConfirming")
      BY <3>1 DEF Sound, CopyPhases
    <3> QED
      BY <1>1, <1>2, <2>3, <3>2, ContinueKeepsCopies DEF SaveSubmitted
  <2>4. CASE SaveConfirming(c)
    <3>1. mem[c].phase \in CopyPhases("poll")
      BY <1>3, <2>4 DEF SaveConfirming, CopyPhases
    <3> QED
      BY <1>1, <1>2, <1>3, <2>4, <3>1, ContinueKeepsCopies DEF SaveConfirming
  <2>5. CASE SaveResult(c) \/ SaveHandler(c)
    BY <1>2, <2>5, ReturnKeepsCopies DEF SaveResult, SaveHandler
  <2> QED
    BY <2>1, <2>2, <2>3, <2>4, <2>5
<1> QED
  BY <1>2, <1>4

LEMMA SubmitInv ==
  ASSUME IInv, TypeOK', NEW c \in Callers, Submit(c)
  PROVE  IInv'
<1> USE DEF IInv
<1> DEFINE o == cur[c]
           p == mem[c].signed
<1>1. /\ pc[c] = "submit"
      /\ UNCHANGED <<row, lease, envSeq, batch, accountSeq, made, revokedBy>>
      /\ tx' = tx \/ (tx[o][p] = "unseen"
                        /\ tx' = [tx EXCEPT ![o][p] = "pending"])
  BY DEF Submit, dbVars
<1>2. /\ o \in Ops /\ mem[c] \in Row /\ row[o].phase # Absent
      /\ mem[c].phase = "signed" /\ p \in Payloads
  BY <1>1, BusyCaller DEF TypeOK, CopyPhases, Sound
<1>3. \A u \in Ops, q \in Payloads :
        tx'[u][q] = tx[u][q]
        \/ (u = o /\ q = p /\ tx[u][q] = "unseen" /\ tx'[u][q] = "pending")
  BY <1>1, <1>2 DEF TypeOK
<1>4. Stable
  BY <1>1, <1>3 DEF Stable
<1>5. RowsSound'
  BY <1>1, <1>4, SoundStays DEF RowsSound
<1>6. BatchesSound'
  BY <1>1, <1>4, BatchesShrink
<1>7. SuccessTookEffect'
  BY <1>1, <1>3 DEF SuccessTookEffect, EffectOnChain
<1>8. EnvelopesSound' /\ SequenceUsedOnce'
  BY <1>1, <1>2, <1>3 DEF EnvelopesSound, SequenceUsedOnce, Included
<1>9. CopiesSound'
  <2>1. CASE Continue(c, "saveSubmitted", Accepted(mem[c], p))
    <3> DEFINE r == Accepted(mem[c], p)
    <3>1. r.phase = "submitted" /\ r.hash \in Payloads
      BY <1>2 DEF Accepted, Row
    <3>2. Sound(tx', o, r) /\ r.phase \in CopyPhases("saveSubmitted")
      BY <3>1 DEF Sound, CopyPhases
    <3> QED
      BY <1>1, <1>4, <2>1, <3>2, ContinueKeepsCopies
  <2>2. CASE Continue(c, "saveRetry", ScheduleRetry(mem[c]))
    <3> DEFINE r == ScheduleRetry(mem[c])
    <3>1. r.phase = "signed" /\ r.signed \in Payloads
      BY <1>2 DEF ScheduleRetry, Row
    <3>2. Sound(tx', o, r) /\ r.phase \in CopyPhases("saveRetry")
      BY <3>1 DEF Sound, CopyPhases
    <3> QED
      BY <1>1, <1>4, <2>2, <3>2, ContinueKeepsCopies
  <2> QED
    BY <2>1, <2>2 DEF Submit
<1> QED
  BY <1>5, <1>6, <1>7, <1>8, <1>9

LEMMA ClaimInv ==
  ASSUME IInv, TypeOK', NEW w \in Workers, Claim(w)
  PROVE  IInv'
<1> USE DEF IInv
<1>1. UNCHANGED <<row, envSeq, callVars, chainVars>>
  BY DEF Claim
<1>2. Stable
  BY <1>1, NothingWritten DEF chainVars
<1>3. CopiesSound'
  BY <1>1, <1>2, CallersStay
<1>4. BatchesSound'
  <2> SUFFICES ASSUME NEW v \in Workers, NEW item \in batch'[v]
               PROVE  /\ row'[item.op].phase # Absent
                      /\ item.phase = "signed" => item.signed \in Payloads
    BY DEF BatchesSound
  <2>1. CASE v = w
    <3>1. PICK o \in Ops :
            /\ Claimable(o)
            /\ item = [op |-> o, phase |-> row[o].phase,
                       signed |-> row[o].signed]
      BY <2>1 DEF Claim, TypeOK
    <3>2. row[o].phase # Absent
      BY <3>1 DEF Claimable, ClaimPhases, Absent
    <3> QED
      BY <1>1, <3>1, <3>2 DEF RowsSound, Sound
  <2>2. CASE v # w
    BY <1>1, <2>2 DEF Claim, TypeOK, BatchesSound
  <2> QED
    BY <2>1, <2>2
<1> QED
  BY <1>1, <1>3, <1>4, CallerStep

LEMMA CrashInv ==
  ASSUME IInv, TypeOK', NEW c \in Callers, Crash(c)
  PROVE  IInv'
<1> USE DEF IInv
<1>1. UNCHANGED <<row, envSeq, chainVars>> /\ Return(c)
  BY DEF Crash, dbVars
<1>2. Stable
  BY <1>1, NothingWritten DEF chainVars
<1>3. CopiesSound'
  BY <1>1, <1>2, ReturnKeepsCopies
<1>4. \A w \in Workers : batch'[w] \subseteq batch[w]
  BY DEF Crash
<1>5. BatchesSound'
  BY <1>2, <1>4, BatchesShrink
<1> QED
  BY <1>1, <1>3, <1>5, CallerStep

LEMMA PrepareInv ==
  ASSUME IInv, TypeOK', NEW o \in Ops, Prepare(o)
  PROVE  IInv'
<1> USE DEF IInv
<1>1. /\ UNCHANGED <<callVars, batch, tx, made, revokedBy>>
      /\ row[o].phase = Absent
      /\ accountSeq' \in {accountSeq, accountSeq + 1}
  BY DEF Prepare
<1>2. \E ph \in {"failed_terminal", "restoring", "awaiting_signature"} :
        row' = [row EXCEPT ![o].phase = ph]
  BY DEF Prepare
<1>3. /\ row'[o].phase \in {"failed_terminal", "restoring", "awaiting_signature"}
      /\ \A u \in Ops : u # o => row'[u] = row[u] /\ envSeq'[u] = envSeq[u]
  <2>1. row[o] \in Row
    BY DEF TypeOK
  <2>2. row'[o].phase \in {"failed_terminal", "restoring", "awaiting_signature"}
    BY <1>2, <2>1 DEF TypeOK, Row
  <2>3. \A u \in Ops : u # o => row'[u] = row[u]
    BY <1>2 DEF TypeOK
  <2>4. \A u \in Ops : u # o => envSeq'[u] = envSeq[u]
    BY DEF Prepare, TypeOK
  <2> QED
    BY <2>2, <2>3, <2>4
<1>4. Stable
  BY <1>1, <1>3 DEF Stable
<1>5. RowsSound'
  BY <1>1, <1>3 DEF RowsSound, Sound
<1>6. CopiesSound'
  BY <1>1, <1>4, CallersStay
<1>7. BatchesSound'
  BY <1>1, <1>4, BatchesShrink
<1>8. SuccessTookEffect'
  BY <1>1 DEF SuccessTookEffect, EffectOnChain
<1>9. \A p \in Payloads : tx[o][p] = "unseen"
  BY <1>1 DEF EnvelopesSound
<1>10. EnvelopesSound'
  <2> SUFFICES ASSUME NEW u \in Ops, NEW p \in Payloads
               PROVE  /\ row'[u].phase = Absent => tx'[u][p] = "unseen"
                      /\ tx'[u][p] \in Included => envSeq'[u] <= accountSeq'
    BY DEF EnvelopesSound
  <2>1. CASE u = o
    BY <1>1, <1>9, <2>1 DEF Included
  <2>2. CASE u # o
    BY <1>1, <1>3, <2>2 DEF EnvelopesSound, TypeOK
  <2> QED
    BY <2>1, <2>2
<1>11. SequenceUsedOnce'
  <2> SUFFICES ASSUME NEW u \in Ops, NEW v \in Ops,
                      NEW p \in Payloads, NEW q \in Payloads,
                      tx'[u][p] \in Included, tx'[v][q] \in Included,
                      envSeq'[u] = envSeq'[v]
               PROVE  u = v /\ p = q
    BY DEF SequenceUsedOnce
  <2>1. u # o /\ v # o
    BY <1>1, <1>9 DEF Included
  <2> QED
    BY <1>1, <1>3, <2>1 DEF SequenceUsedOnce
<1> QED
  BY <1>5, <1>6, <1>7, <1>8, <1>10, <1>11

LEMMA ClockInv ==
  ASSUME IInv, TypeOK', NEW o \in Ops, BackoffElapses(o) \/ LeaseExpires(o)
  PROVE  IInv'
<1> USE DEF IInv
<1>1. /\ UNCHANGED <<envSeq, callVars, batch, chainVars>>
      /\ \A u \in Ops : /\ row'[u].phase = row[u].phase
                        /\ row'[u].signed = row[u].signed
                        /\ row'[u].hash = row[u].hash
  <2>1. CASE BackoffElapses(o)
    <3>1. \A u \in Ops : row[u] \in Row
      BY DEF TypeOK
    <3>2. row' = [row EXCEPT ![o].due = TRUE]
      BY <2>1 DEF BackoffElapses
    <3>3. row'[o] = [row[o] EXCEPT !.due = TRUE]
          /\ \A u \in Ops : u # o => row'[u] = row[u]
      BY <3>2 DEF TypeOK
    <3> QED
      BY <2>1, <3>1, <3>3 DEF BackoffElapses, Row
  <2>2. CASE LeaseExpires(o)
    BY <2>2 DEF LeaseExpires
  <2> QED
    BY <2>1, <2>2
<1>2. Stable
  BY <1>1 DEF Stable, chainVars
<1>3. RowsSound'
  BY <1>1 DEF RowsSound, Sound, chainVars
<1>4. CopiesSound'
  BY <1>1, <1>2, CallersStay
<1>5. BatchesSound'
  BY <1>1, <1>2, BatchesShrink
<1>6. SuccessTookEffect' /\ EnvelopesSound' /\ SequenceUsedOnce'
  BY <1>1 DEF SuccessTookEffect, EffectOnChain, EnvelopesSound,
              SequenceUsedOnce, chainVars
<1> QED
  BY <1>3, <1>4, <1>5, <1>6

LEMMA IncludeInv ==
  ASSUME IInv, TypeOK', NEW o \in Ops, NEW p \in Payloads,
         LedgerIncludes(o, p)
  PROVE  IInv'
<1> USE DEF IInv
<1>1. /\ UNCHANGED <<row, envSeq, callVars, batch>>
      /\ tx[o][p] = "pending"
      /\ envSeq[o] = accountSeq + 1
      /\ accountSeq' = accountSeq + 1
  BY DEF LedgerIncludes, dbVars
<1>2. PICK v \in {"success", "failed"} :
        /\ tx' = [tx EXCEPT ![o][p] = v]
        /\ v = "success" => Executable(o) /\ EffectOnChain(o)'
        /\ v = "failed" => UNCHANGED <<made, revokedBy>>
  <2>1. /\ Subject[o] \in Subjects
        /\ made \in [Subjects -> Ops \cup {None}]
        /\ revokedBy \in [Subjects -> Ops \cup {None}]
    BY OutboxAssumption DEF TypeOK
  <2> QED
    BY <2>1 DEF LedgerIncludes, EffectOnChain
<1>3. \A u \in Ops, q \in Payloads :
        tx'[u][q] = IF u = o /\ q = p THEN v ELSE tx[u][q]
  BY <1>2 DEF TypeOK
<1>4. Stable
  BY <1>1, <1>3 DEF Stable
<1>5. RowsSound'
  BY <1>1, <1>4, SoundStays DEF RowsSound
<1>6. CopiesSound'
  BY <1>1, <1>4, CallersStay
<1>7. BatchesSound'
  BY <1>1, <1>4, BatchesShrink
<1>8. \A u \in Ops : EffectOnChain(u) => EffectOnChain(u)'
  <2> SUFFICES ASSUME NEW u \in Ops, EffectOnChain(u)
               PROVE  EffectOnChain(u)'
    OBVIOUS
  <2>1. Subject[u] \in Subjects /\ u # None
    BY OutboxAssumption
  <2>2. \/ UNCHANGED <<made, revokedBy>>
        \/ /\ Executable(o) /\ Kind[o] = "revoke_credential"
           /\ revokedBy' = [revokedBy EXCEPT ![Subject[o]] = o]
           /\ UNCHANGED made
        \/ /\ Executable(o) /\ Kind[o] # "revoke_credential"
           /\ made' = [made EXCEPT ![Subject[o]] = o]
           /\ UNCHANGED revokedBy
    BY DEF LedgerIncludes
  <2> QED
    BY <2>1, <2>2 DEF EffectOnChain, Executable, TypeOK
<1>9. SuccessTookEffect'
  BY <1>2, <1>3, <1>8 DEF SuccessTookEffect
<1>10. EnvelopesSound'
  <2>1. /\ accountSeq \in Nat
        /\ \A u \in Ops : envSeq[u] \in Nat
    BY DEF TypeOK
  <2>2. row[o].phase # Absent
    BY <1>1 DEF EnvelopesSound
  <2> QED
    BY <1>1, <1>3, <2>1, <2>2 DEF EnvelopesSound
<1>11. SequenceUsedOnce'
  <2>1. \A u \in Ops, q \in Payloads :
          tx[u][q] \in Included => envSeq[u] # envSeq[o]
    BY <1>1 DEF EnvelopesSound, TypeOK
  <2> QED
    BY <1>1, <1>3, <2>1 DEF SequenceUsedOnce
<1> QED
  BY <1>5, <1>6, <1>7, <1>9, <1>10, <1>11

LEMMA DropInv ==
  ASSUME IInv, TypeOK', NEW o \in Ops, NEW p \in Payloads,
         NetworkDrops(o, p)
  PROVE  IInv'
<1> USE DEF IInv
<1>1. /\ UNCHANGED <<row, envSeq, callVars, batch, accountSeq, made, revokedBy>>
      /\ tx[o][p] = "pending"
      /\ \A u \in Ops, q \in Payloads :
           tx'[u][q] = IF u = o /\ q = p THEN "unseen" ELSE tx[u][q]
  BY DEF NetworkDrops, dbVars, TypeOK
<1>2. Stable
  BY <1>1 DEF Stable
<1>3. RowsSound'
  BY <1>1, <1>2, SoundStays DEF RowsSound
<1>4. CopiesSound'
  BY <1>1, <1>2, CallersStay
<1>5. BatchesSound'
  BY <1>1, <1>2, BatchesShrink
<1>6. SuccessTookEffect'
  BY <1>1 DEF SuccessTookEffect, EffectOnChain
<1>7. EnvelopesSound' /\ SequenceUsedOnce'
  BY <1>1 DEF EnvelopesSound, SequenceUsedOnce, Included
<1> QED
  BY <1>3, <1>4, <1>5, <1>6, <1>7

LEMMA TrafficInv ==
  ASSUME IInv, TypeOK', OtherTraffic
  PROVE  IInv'
<1> USE DEF IInv
<1>1. /\ UNCHANGED <<row, envSeq, callVars, batch, tx, made, revokedBy>>
      /\ accountSeq' = accountSeq + 1
  BY DEF OtherTraffic, dbVars
<1>2. Stable
  BY <1>1, NothingWritten
<1>3. CopiesSound' /\ BatchesSound'
  BY <1>1, <1>2, CallersStay, BatchesShrink
<1>4. RowsSound' /\ SuccessTookEffect' /\ SequenceUsedOnce'
  BY <1>1 DEF RowsSound, Sound, SuccessTookEffect, EffectOnChain,
              SequenceUsedOnce
<1>5. EnvelopesSound'
  BY <1>1 DEF EnvelopesSound, TypeOK
<1> QED
  BY <1>3, <1>4, <1>5

LEMMA InitInv == Init => IInv
<1> SUFFICES ASSUME Init
             PROVE  IInv
  OBVIOUS
<1>1. TypeOK
  BY BlankType DEF Init, TypeOK, PCs, TxStates
<1>2. RowsSound
  BY DEF Init, RowsSound, Sound, Blank, Absent
<1>3. CopiesSound
  BY DEF Init, CopiesSound, CopySound
<1>4. BatchesSound
  BY DEF Init, BatchesSound
<1>5. SuccessTookEffect /\ EnvelopesSound /\ SequenceUsedOnce
  BY DEF Init, SuccessTookEffect, EnvelopesSound, SequenceUsedOnce, Included
<1> QED
  BY <1>1, <1>2, <1>3, <1>4, <1>5 DEF IInv

LEMMA StepInv == IInv /\ [Next]_vars => IInv'
<1> SUFFICES ASSUME IInv, [Next]_vars
             PROVE  IInv'
  OBVIOUS
<1>1. TypeOK'
  BY TypeStep DEF IInv
<1>2. CASE \E o \in Ops : Prepare(o)
  BY <1>1, <1>2, PrepareInv
<1>3. CASE \E c \in Clients : ClientStep(c)
  BY <1>1, <1>3, ClientStepInv
<1>4. CASE \E w \in Workers : WorkerStep(w)
  BY <1>1, <1>4, ClaimInv, ProcessInv, HandleInv, SavesInv
     DEF WorkerStep, Callers
<1>5. CASE \E c \in Callers : CallStep(c) \/ Crash(c)
  BY <1>1, <1>5, SavesInv, SubmitInv, PollInv, ReadbackInv, CrashInv
     DEF CallStep
<1>6. CASE Clock
  BY <1>1, <1>6, ClockInv DEF Clock
<1>7. CASE Network
  BY <1>1, <1>7, TrafficInv, IncludeInv, DropInv DEF Network
<1>8. CASE UNCHANGED vars
  <2>1. UNCHANGED <<row, envSeq, callVars, batch, chainVars>>
    BY <1>8 DEF vars, dbVars
  <2>2. Stable
    BY <2>1, NothingWritten DEF chainVars
  <2>3. CopiesSound' /\ BatchesSound'
    BY <2>1, <2>2, CallersStay, BatchesShrink DEF IInv
  <2> QED
    BY <1>1, <2>1, <2>3, CallerStep
<1> QED
  BY <1>2, <1>3, <1>4, <1>5, <1>6, <1>7, <1>8 DEF Next

------------------------------------------------------------------------------
(* Envelopes are stored before the network has them.  A row that was never *)
(* signed and is no longer offered for signature stays unsigned, and a row *)
(* that has an envelope keeps one, because no copy that lacks the envelope *)
(* of its row survives until it is written back.                           *)

\* Rows that a relay may still sign.
Unsigned == {Absent, "awaiting_signature"}

\* The steps of a call that hold a copy with an envelope.
Carrying == {"saveSigned", "submit", "saveRetry", "saveSubmitted",
             "saveConfirming", "poll", "readback", "saveResult"}

RowsStored ==
  \A o \in Ops :
    /\ \A p \in Payloads : tx[o][p] # "unseen" => row[o].signed # None
    /\ row[o].signed # None => row[o].phase \notin Unsigned \cup {"restoring"}
    /\ row[o].hash # None => row[o].signed # None

\* A copy r at step s agrees with its row o in the table R on whether there
\* is an envelope; only the save of the first relay brings the row one.
CopyStored(R, s, o, r) ==
  /\ s \notin {"idle", "saveSigned"} => R[o].phase # "awaiting_signature"
  /\ s \in Carrying => r.signed # None
  /\ s \in Carrying => \/ R[o].signed # None
                       \/ s = "saveSigned" /\ R[o].phase = "awaiting_signature"
  /\ s = "saveHandler" => (r.signed = None <=> R[o].signed = None)
  /\ s = "saveHandler" /\ r.hash # None => r.signed # None

CopiesStored == \A c \in Callers : CopyStored(row, pc[c], cur[c], mem[c])

BatchesStored ==
  \A w \in Workers : \A item \in batch[w] :
    row[item.op].phase # "awaiting_signature"

StoreInv == IInv /\ RowsStored /\ CopiesStored /\ BatchesStored

\* What no step does to a row: offer it for signature again, take its
\* envelope away, or give it one outside a first relay.
Ages ==
  \A o \in Ops :
    /\ row[o].phase \notin Unsigned =>
         /\ row'[o].phase \notin Unsigned
         /\ row'[o].signed = None <=> row[o].signed = None
    /\ row[o].phase = "awaiting_signature" =>
         row'[o].phase = "awaiting_signature" \/ row'[o].signed # None

\* A copy keeps agreeing with its row while the row ages.
LEMMA CopyAges ==
  ASSUME Ages, NEW o \in Ops, row[o].phase # Absent, NEW s, NEW r,
         CopyStored(row, s, o, r), RowsStored
  PROVE  CopyStored(row', s, o, r)
<1>1. CASE row[o].phase = "awaiting_signature"
  <2>1. s \in {"idle", "saveSigned"}
    BY <1>1 DEF CopyStored
  <2> QED
    BY <1>1, <2>1 DEF CopyStored, Ages, Carrying
<1>2. CASE row[o].phase \notin Unsigned
  BY <1>2 DEF CopyStored, Ages, Unsigned
<1> QED
  BY <1>1, <1>2 DEF Unsigned

\* The callers that do not move keep copies that agree.
LEMMA OthersStored ==
  ASSUME IInv, RowsStored, CopiesStored, Ages, NEW d \in Callers
  PROVE  CopyStored(row', pc[d], cur[d], mem[d])
<1>1. CASE pc[d] = "idle"
  BY <1>1 DEF CopyStored, Carrying
<1>2. CASE pc[d] # "idle"
  <2>1. cur[d] \in Ops /\ row[cur[d]].phase # Absent
    BY <1>2, BusyCaller DEF IInv
  <2> QED
    BY <2>1, CopyAges DEF CopiesStored
<1> QED
  BY <1>1, <1>2

LEMMA GotoKeepsStored ==
  ASSUME IInv, RowsStored, CopiesStored, Ages, NEW c \in Callers,
         NEW s, NEW o, NEW r, Goto(c, s, o, r), CopyStored(row', s, o, r)
  PROVE  CopiesStored'
<1> SUFFICES ASSUME NEW d \in Callers
             PROVE  CopyStored(row', pc'[d], cur'[d], mem'[d])
  BY DEF CopiesStored
<1>1. CASE d = c
  BY <1>1 DEF Goto, IInv, TypeOK
<1>2. CASE d # c
  <2>1. pc'[d] = pc[d] /\ cur'[d] = cur[d] /\ mem'[d] = mem[d]
    BY <1>2 DEF Goto, IInv, TypeOK
  <2> QED
    BY <2>1, OthersStored
<1> QED
  BY <1>1, <1>2

LEMMA ReturnKeepsStored ==
  ASSUME IInv, RowsStored, CopiesStored, Ages, NEW c \in Callers, Return(c)
  PROVE  CopiesStored'
<1>1. CopyStored(row', "idle", None, Blank)
  BY DEF CopyStored, Carrying
<1> QED
  BY <1>1, GotoKeepsStored DEF Return

LEMMA ThrowKeepsStored ==
  ASSUME IInv, RowsStored, CopiesStored, Ages, NEW c \in Callers, Throw(c),
         pc[c] \notin {"idle", "saveSigned"}
  PROVE  CopiesStored'
<1>1. CASE Return(c)
  BY <1>1, ReturnKeepsStored
<1>2. CASE Goto(c, "handler", cur[c], Blank)
  <2>1. /\ cur[c] \in Ops
        /\ row[cur[c]].phase \notin Unsigned
    BY BusyCaller DEF IInv, CopiesStored, CopyStored, Unsigned
  <2>2. CopyStored(row', "handler", cur[c], Blank)
    BY <2>1 DEF CopyStored, Carrying, Ages, Unsigned
  <2> QED
    BY <1>2, <2>2, GotoKeepsStored
<1> QED
  BY <1>1, <1>2 DEF Throw

\* A call that still carries its envelope goes on.
LEMMA CarryKeepsStored ==
  ASSUME IInv, RowsStored, CopiesStored, Ages, NEW c \in Callers,
         NEW s \in Carrying \ {"saveSigned"}, NEW r, Continue(c, s, r),
         r.signed # None,
         row'[cur[c]].phase # "awaiting_signature",
         row'[cur[c]].signed # None
  PROVE  CopiesStored'
<1>1. CopyStored(row', s, cur[c], r)
  BY DEF CopyStored, Carrying
<1> QED
  BY <1>1, GotoKeepsStored DEF Continue

LEMMA NothingAges ==
  ASSUME UNCHANGED row
  PROVE  Ages
  BY DEF Ages

\* What is left of the rows' part when a step writes neither rows nor chain.
LEMMA RowsStay ==
  ASSUME RowsStored, UNCHANGED <<row, tx>>
  PROVE  RowsStored'
  BY DEF RowsStored

LEMMA BatchesStayStored ==
  ASSUME StoreInv, Ages,
         \A w \in Workers : batch'[w] \subseteq batch[w]
  PROVE  BatchesStored'
<1> SUFFICES ASSUME NEW w \in Workers, NEW item \in batch'[w]
             PROVE  row'[item.op].phase # "awaiting_signature"
  BY DEF BatchesStored
<1>1. item \in batch[w] /\ item.op \in Ops
  BY DEF StoreInv, IInv, TypeOK, Item
<1>2. row[item.op].phase \notin Unsigned
  BY <1>1 DEF StoreInv, IInv, BatchesSound, BatchesStored, Unsigned
<1> QED
  BY <1>1, <1>2 DEF Ages, Unsigned

\* A save writes an envelope, or agrees with its row on having none.
LEMMA SaveStored ==
  ASSUME StoreInv, NEW c \in Callers, pc[c] \notin {"idle", "handler"},
         Save(c), UNCHANGED <<batch, tx>>
  PROVE  /\ cur[c] \in Ops /\ row'[cur[c]] = mem[c]
         /\ mem[c].phase \notin Unsigned
         /\ Ages /\ RowsStored' /\ BatchesStored'
<1> USE DEF StoreInv, IInv
<1>1. /\ cur[c] \in Ops
      /\ row[cur[c]].phase # Absent
      /\ mem[c].phase \notin Unsigned \cup {"restoring"}
  <2>1. pc[c] \in PCs
    BY DEF TypeOK
  <2>2. CopyPhases(pc[c]) \cap (Unsigned \cup {"restoring"}) = {}
    BY <2>1 DEF CopyPhases, Absent, PCs, Unsigned
  <2> QED
    BY <2>2, BusyCaller
<1>2. /\ row'[cur[c]] = mem[c]
      /\ \A o \in Ops : o # cur[c] => row'[o] = row[o]
  BY <1>1 DEF Save, TypeOK
<1>3. /\ CopyStored(row, pc[c], cur[c], mem[c])
      /\ pc[c] \in Carrying \cup {"saveHandler"}
  BY DEF CopiesStored, TypeOK, PCs, Carrying
<1>4. Ages
  <2>1. \A o \in Ops : o # cur[c] => row'[o] = row[o]
    BY <1>2
  <2>2. row[cur[c]].phase \notin Unsigned =>
          (mem[c].signed = None <=> row[cur[c]].signed = None)
    BY <1>3 DEF CopyStored, Unsigned, Carrying
  <2>3. row[cur[c]].phase = "awaiting_signature" => mem[c].signed # None
    BY <1>3 DEF CopyStored, Carrying
  <2> QED
    BY <1>1, <1>2, <2>2, <2>3 DEF Ages
<1>5. RowsStored'
  <2> SUFFICES ASSUME NEW o \in Ops
               PROVE  /\ \A p \in Payloads :
                           tx[o][p] # "unseen" => row'[o].signed # None
                      /\ row'[o].signed # None =>
                           row'[o].phase \notin Unsigned \cup {"restoring"}
                      /\ row'[o].hash # None => row'[o].signed # None
    BY DEF RowsStored
  <2>1. CASE o # cur[c]
    BY <1>2, <2>1 DEF RowsStored
  <2>2. CASE o = cur[c] /\ pc[c] \in Carrying
    BY <1>1, <1>2, <1>3, <2>2 DEF CopyStored
  <2>3. CASE o = cur[c] /\ pc[c] = "saveHandler"
    BY <1>1, <1>2, <1>3, <2>3 DEF CopyStored, RowsStored
  <2> QED
    BY <1>3, <2>1, <2>2, <2>3
<1>6. BatchesStored'
  BY <1>4, BatchesStayStored
<1> QED
  BY <1>1, <1>2, <1>4, <1>5, <1>6

\* Entering submitSigned or reconcile: the first relay brings an envelope,
\* a recovery and a reconciliation start from a row that has one.
LEMMA EntryStored ==
  ASSUME StoreInv, UNCHANGED <<row, tx>>, NEW c \in Callers, NEW o \in Ops,
         NEW p \in Payloads \cup {None},
         \/ CanSubmit(row[o], p) /\ EnterSubmit(c, o, p)
         \/ CanReconcile(row[o]) /\ EnterReconcile(c, o),
         row[o].phase = "awaiting_signature" => p \in Payloads
  PROVE  CopiesStored'
<1> USE NothingAges DEF StoreInv
<1>1. row[o] \in Row /\ None \notin Payloads
  BY OutboxAssumption DEF IInv, TypeOK
<1>2. CASE EnterSubmit(c, o, p) /\ row[o].phase = "awaiting_signature"
  <2> DEFINE r == [row[o] EXCEPT !.phase = "signed", !.signed = p]
  <2>1. r.signed # None
    BY <1>1, <1>2 DEF Row
  <2>2. CopyStored(row', "saveSigned", o, r)
    BY <1>2, <2>1 DEF CopyStored, Carrying
  <2>3. Goto(c, "saveSigned", o, r)
    BY <1>2 DEF EnterSubmit
  <2> QED
    BY <2>2, <2>3, GotoKeepsStored
<1>3. CASE CanSubmit(row[o], p) /\ EnterSubmit(c, o, p)
           /\ row[o].phase # "awaiting_signature"
  <2>1. row[o].phase = "signed" /\ Goto(c, "submit", o, row[o])
    BY <1>3 DEF CanSubmit, EnterSubmit
  <2>2. row[o].signed # None
    BY <1>1, <2>1 DEF IInv, RowsSound, Sound
  <2>3. CopyStored(row', "submit", o, row[o])
    BY <2>1, <2>2 DEF CopyStored, Carrying
  <2> QED
    BY <2>1, <2>3, GotoKeepsStored
<1>4. CASE CanReconcile(row[o]) /\ EnterReconcile(c, o)
  <2> DEFINE r == [row[o] EXCEPT !.phase = "confirming"]
  <2>1. row[o].signed # None /\ row[o].phase # "awaiting_signature"
    BY <1>4 DEF CanReconcile, Reconcilable, RowsStored
  <2>2. r.signed = row[o].signed
    BY <1>1 DEF Row
  <2>3. CopyStored(row', "saveConfirming", o, r)
    BY <2>1, <2>2 DEF CopyStored, Carrying
  <2> QED
    BY <1>4, <2>3, GotoKeepsStored DEF EnterReconcile
<1> QED
  BY <1>2, <1>3, <1>4

LEMMA ClientStored ==
  ASSUME StoreInv, NEW c \in Clients, ClientStep(c)
  PROVE  RowsStored' /\ CopiesStored' /\ BatchesStored'
<1> USE DEF StoreInv
<1>1. UNCHANGED <<row, tx, batch>> /\ c \in Callers
  BY DEF ClientStep, ClientSubmit, ClientReconcile, dbVars, chainVars, Callers
<1>2. PICK o \in Ops : ClientReconcile(c, o)
                       \/ \E p \in Payloads : ClientSubmit(c, o, p)
  BY DEF ClientStep
<1>3. CASE ClientReconcile(c, o)
  <2>1. row[o].phase # "awaiting_signature"
    BY <1>3 DEF ClientReconcile, CanReconcile, Reconcilable
  <2>2. CopiesStored'
    BY <1>1, <1>3, <2>1, EntryStored DEF ClientReconcile
  <2> QED
    BY <1>1, <2>2, RowsStay, NothingAges, BatchesStayStored
<1>4. CASE \E p \in Payloads : ClientSubmit(c, o, p)
  <2>1. CopiesStored'
    BY <1>1, <1>4, EntryStored DEF ClientSubmit
  <2> QED
    BY <1>1, <2>1, RowsStay, NothingAges, BatchesStayStored
<1> QED
  BY <1>2, <1>3, <1>4

LEMMA ClaimStored ==
  ASSUME StoreInv, NEW w \in Workers, Claim(w)
  PROVE  RowsStored' /\ CopiesStored' /\ BatchesStored'
<1> USE DEF StoreInv
<1>1. UNCHANGED <<row, tx, callVars>>
  BY DEF Claim, chainVars
<1>2. RowsStored' /\ CopiesStored'
  BY <1>1, RowsStay DEF CopiesStored, CopyStored, callVars
<1>3. BatchesStored'
  <2> SUFFICES ASSUME NEW v \in Workers, NEW item \in batch'[v]
               PROVE  row'[item.op].phase # "awaiting_signature"
    BY DEF BatchesStored
  <2>1. CASE v = w
    <3>1. PICK o \in Ops :
            /\ Claimable(o)
            /\ item = [op |-> o, phase |-> row[o].phase,
                       signed |-> row[o].signed]
      BY <2>1 DEF Claim, IInv, TypeOK
    <3> QED
      BY <1>1, <3>1 DEF Claimable, ClaimPhases
  <2>2. CASE v # w
    BY <1>1, <2>2 DEF Claim, IInv, TypeOK, BatchesStored
  <2> QED
    BY <2>1, <2>2
<1> QED
  BY <1>2, <1>3

LEMMA ProcessStored ==
  ASSUME StoreInv, NEW w \in Workers, Process(w)
  PROVE  RowsStored' /\ CopiesStored' /\ BatchesStored'
<1> USE DEF StoreInv
<1>1. UNCHANGED <<row, tx>> /\ w \in Callers
  BY DEF Process, dbVars, chainVars, Callers
<1>2. PICK item \in batch[w] :
        /\ batch' = [batch EXCEPT ![w] = @ \ {item}]
        /\ \/ /\ CanSubmit(row[item.op], item.signed)
              /\ EnterSubmit(w, item.op, item.signed)
           \/ /\ CanReconcile(row[item.op])
              /\ EnterReconcile(w, item.op)
           \/ Goto(w, "handler", item.op, Blank)
           \/ Return(w)
  BY DEF Process
<1>3. /\ item.op \in Ops
      /\ item.signed \in Payloads \cup {None}
      /\ row[item.op].phase # "awaiting_signature"
  BY DEF IInv, TypeOK, Item, BatchesStored
<1>4. \A v \in Workers : batch'[v] \subseteq batch[v]
  BY <1>2 DEF IInv, TypeOK
<1>5. CopiesStored'
  <2>1. CASE Goto(w, "handler", item.op, Blank)
    <3>1. CopyStored(row', "handler", item.op, Blank)
      BY <1>1, <1>3 DEF CopyStored, Carrying
    <3> QED
      BY <1>1, <2>1, <3>1, NothingAges, GotoKeepsStored
  <2>2. CASE Return(w)
    BY <1>1, <2>2, NothingAges, ReturnKeepsStored
  <2> QED
    BY <1>1, <1>2, <1>3, <2>1, <2>2, EntryStored
<1> QED
  BY <1>1, <1>4, <1>5, RowsStay, NothingAges, BatchesStayStored

LEMMA HandleStored ==
  ASSUME StoreInv, NEW w \in Workers, Handle(w)
  PROVE  RowsStored' /\ CopiesStored' /\ BatchesStored'
<1> USE DEF StoreInv
<1>1. /\ UNCHANGED <<row, tx, batch>>
      /\ w \in Callers /\ pc[w] = "handler"
  BY DEF Handle, dbVars, chainVars, Callers
<1> DEFINE r == row[cur[w]]
           t == [r EXCEPT !.attempts = @ + 1, !.phase = "failed_terminal"]
           q == [ScheduleRetry(r) EXCEPT !.phase = "failed_retryable"]
<1>2. /\ cur[w] \in Ops /\ r \in Row
      /\ r.phase # "awaiting_signature"
  BY <1>1, BusyCaller DEF IInv, TypeOK, CopiesStored, CopyStored
<1>3. /\ t.signed = r.signed /\ t.hash = r.hash
      /\ q.signed = r.signed /\ q.hash = r.hash
  BY <1>2 DEF Row, ScheduleRetry
<1>4. ASSUME NEW m, m.signed = r.signed, m.hash = r.hash,
             Continue(w, "saveHandler", m)
      PROVE  CopiesStored'
  <2>1. CopyStored(row', "saveHandler", cur[w], m)
    BY <1>1, <1>2, <1>4 DEF CopyStored, Carrying, RowsStored
  <2> QED
    BY <1>1, <1>4, <2>1, NothingAges, GotoKeepsStored DEF Continue
<1>5. \/ Return(w)
      \/ Continue(w, "saveHandler", r)
      \/ Continue(w, "saveHandler", t)
      \/ Continue(w, "saveHandler", q)
  BY DEF Handle
<1>6. CopiesStored'
  <2>1. CASE Return(w)
    BY <1>1, <2>1, NothingAges, ReturnKeepsStored
  <2>2. CASE Continue(w, "saveHandler", r)
    BY <1>4, <2>2
  <2>3. CASE Continue(w, "saveHandler", t)
    BY <1>3, <1>4, <2>3
  <2>4. CASE Continue(w, "saveHandler", q)
    BY <1>3, <1>4, <2>4
  <2> QED
    BY <1>5, <2>1, <2>2, <2>3, <2>4
<1> QED
  BY <1>1, <1>6, RowsStay, NothingAges, BatchesStayStored

LEMMA SubmitStored ==
  ASSUME StoreInv, NEW c \in Callers, Submit(c)
  PROVE  RowsStored' /\ CopiesStored' /\ BatchesStored'
<1> USE DEF StoreInv
<1> DEFINE o == cur[c]
           p == mem[c].signed
<1>1. /\ pc[c] = "submit" /\ UNCHANGED <<row, batch>>
      /\ tx' = tx \/ tx' = [tx EXCEPT ![o][p] = "pending"]
      /\ \/ Continue(c, "saveSubmitted", Accepted(mem[c], p))
         \/ Continue(c, "saveRetry", ScheduleRetry(mem[c]))
  BY DEF Submit, dbVars
<1>2. /\ o \in Ops /\ mem[c] \in Row
      /\ p # None
      /\ row[o].signed # None
      /\ row[o].phase # "awaiting_signature"
  BY <1>1, BusyCaller DEF IInv, TypeOK, CopiesStored, CopyStored, Carrying
<1>3. RowsStored'
  <2>1. \A u \in Ops, q \in Payloads :
          tx'[u][q] # "unseen" => tx[u][q] # "unseen" \/ u = o
    BY <1>1, <1>2 DEF IInv, TypeOK
  <2> QED
    BY <1>1, <1>2, <2>1 DEF RowsStored
<1>4. /\ Accepted(mem[c], p).signed # None
      /\ ScheduleRetry(mem[c]).signed # None
  BY <1>2 DEF Accepted, ScheduleRetry, Row
<1>5. Ages
  BY <1>1, NothingAges
<1>6. CopiesStored'
  BY <1>1, <1>2, <1>4, <1>5, CarryKeepsStored DEF Carrying
<1> QED
  BY <1>1, <1>3, <1>5, <1>6, BatchesStayStored

LEMMA PollStored ==
  ASSUME StoreInv, NEW c \in Callers, Poll(c) \/ Readback(c)
  PROVE  RowsStored' /\ CopiesStored' /\ BatchesStored'
<1> USE DEF StoreInv
<1>1. UNCHANGED <<row, tx, batch>> /\ pc[c] \in {"poll", "readback"}
  BY DEF Poll, Readback, dbVars, chainVars
<1>2. /\ cur[c] \in Ops /\ mem[c] \in Row
      /\ mem[c].signed # None
      /\ row[cur[c]].signed # None
      /\ row[cur[c]].phase # "awaiting_signature"
  BY <1>1, BusyCaller DEF IInv, TypeOK, CopiesStored, CopyStored, Carrying
<1>3. Ages
  BY <1>1, NothingAges
<1>4. \/ \E s \in Carrying \ {"saveSigned"}, r \in Row :
           r.signed = mem[c].signed /\ Continue(c, s, r)
      \/ Throw(c)
  <2> DEFINE Verdict(ph) == [mem[c] EXCEPT !.phase = ph]
             Refused == [mem[c] EXCEPT !.phase = "failed_terminal", !.due = TRUE]
  <2>1. /\ MarkUnknown(mem[c]) \in Row
        /\ MarkUnknown(mem[c]).signed = mem[c].signed
    <3>1. /\ ScheduleRetry(mem[c]) \in Row
          /\ ScheduleRetry(mem[c]).signed = mem[c].signed
      BY <1>2, RowHelpers DEF ScheduleRetry, Row
    <3> QED
      BY <1>2, <3>1, RowHelpers DEF MarkUnknown, Row
  <2>2. /\ Refused \in Row /\ Refused.signed = mem[c].signed
        /\ Verdict("confirmed") \in Row
        /\ Verdict("confirmed").signed = mem[c].signed
        /\ Verdict("failed_terminal") \in Row
        /\ Verdict("failed_terminal").signed = mem[c].signed
    BY <1>2 DEF Row, Phases
  <2>3. CASE Poll(c)
    BY <1>2, <2>1, <2>2, <2>3 DEF Poll, Carrying
  <2>4. CASE Readback(c)
    BY <1>2, <2>2, <2>4 DEF Readback, Carrying
  <2> QED
    BY <2>3, <2>4
<1>5. CopiesStored'
  <2>1. CASE Throw(c)
    BY <1>1, <1>3, <2>1, ThrowKeepsStored
  <2>2. CASE \E s \in Carrying \ {"saveSigned"}, r \in Row :
               r.signed = mem[c].signed /\ Continue(c, s, r)
    BY <1>1, <1>2, <1>3, <2>2, CarryKeepsStored
  <2> QED
    BY <1>4, <2>1, <2>2
<1> QED
  BY <1>1, <1>3, <1>5, RowsStay, BatchesStayStored

LEMMA SavesStored ==
  ASSUME StoreInv, NEW c \in Callers,
         \/ SaveSigned(c) \/ SaveRetry(c) \/ SaveSubmitted(c)
         \/ SaveConfirming(c) \/ SaveResult(c) \/ SaveHandler(c)
  PROVE  RowsStored' /\ CopiesStored' /\ BatchesStored'
<1> USE DEF StoreInv
<1>1. /\ pc[c] \notin {"idle", "handler"} /\ Save(c)
      /\ UNCHANGED <<batch, tx>>
  BY DEF SaveSigned, SaveRetry, SaveSubmitted, SaveConfirming, SaveResult,
         SaveHandler, chainVars
<1>2. /\ cur[c] \in Ops /\ row'[cur[c]] = mem[c]
      /\ mem[c].phase \notin Unsigned
      /\ Ages /\ RowsStored' /\ BatchesStored'
  BY <1>1, SaveStored
<1>3. mem[c] \in Row
  BY DEF IInv, TypeOK
<1>4. CASE \E s \in Carrying \ {"saveSigned"}, r \in Row :
             r.signed = mem[c].signed /\ Continue(c, s, r)
             /\ pc[c] \in Carrying
  <2>1. mem[c].signed # None
    BY <1>4 DEF CopiesStored, CopyStored
  <2> QED
    BY <1>2, <1>4, <2>1, CarryKeepsStored DEF Unsigned
<1>5. CASE Throw(c) /\ pc[c] # "saveSigned"
  BY <1>1, <1>2, <1>5, ThrowKeepsStored
<1>6. CASE Return(c)
  BY <1>2, <1>6, ReturnKeepsStored
<1>7. \/ \E s \in Carrying \ {"saveSigned"}, r \in Row :
           r.signed = mem[c].signed /\ Continue(c, s, r)
           /\ pc[c] \in Carrying
      \/ Throw(c) /\ pc[c] # "saveSigned"
      \/ Return(c)
  <2>1. /\ [mem[c] EXCEPT !.phase = "confirming"] \in Row
        /\ [mem[c] EXCEPT !.phase = "confirming"].signed = mem[c].signed
    BY <1>3 DEF Row, Phases
  <2> QED
    BY <1>3, <2>1 DEF SaveSigned, SaveRetry, SaveSubmitted, SaveConfirming,
                      SaveResult, SaveHandler, Carrying
<1> QED
  BY <1>2, <1>4, <1>5, <1>6, <1>7

LEMMA PrepareStored ==
  ASSUME StoreInv, NEW o \in Ops, Prepare(o)
  PROVE  RowsStored' /\ CopiesStored' /\ BatchesStored'
<1> USE DEF StoreInv
<1>1. /\ UNCHANGED <<callVars, batch, tx>>
      /\ row[o].phase = Absent
  BY DEF Prepare
<1>2. \E ph \in {"failed_terminal", "restoring", "awaiting_signature"} :
        row' = [row EXCEPT ![o].phase = ph]
  BY DEF Prepare
<1>3. /\ row'[o].signed = row[o].signed /\ row'[o].hash = row[o].hash
      /\ \A u \in Ops : u # o => row'[u] = row[u]
  <2>1. row[o] \in Row
    BY DEF IInv, TypeOK
  <2> QED
    BY <1>2, <2>1 DEF IInv, TypeOK, Row
<1>4. row[o].signed = None /\ \A p \in Payloads : tx[o][p] = "unseen"
  BY <1>1 DEF RowsStored, Unsigned, IInv, EnvelopesSound
<1>5. RowsStored'
  BY <1>1, <1>3, <1>4 DEF RowsStored
<1>6. Ages
  BY <1>1, <1>3 DEF Ages, Unsigned, Absent
<1>7. CopiesStored'
  <2>1. \A d \in Callers : CopyStored(row', pc[d], cur[d], mem[d])
    BY <1>6, OthersStored
  <2> QED
    BY <1>1, <2>1 DEF CopiesStored, callVars
<1> QED
  BY <1>1, <1>5, <1>6, <1>7, BatchesStayStored

\* Time and the network: rows keep their phase and their envelope, and only
\* envelopes that were queued before change.
LEMMA WorldStored ==
  ASSUME StoreInv, Clock \/ Network
  PROVE  RowsStored' /\ CopiesStored' /\ BatchesStored'
<1> USE DEF StoreInv
<1>1. /\ UNCHANGED <<callVars, batch>>
      /\ \A u \in Ops : /\ row'[u].phase = row[u].phase
                        /\ row'[u].signed = row[u].signed
                        /\ row'[u].hash = row[u].hash
      /\ \A u \in Ops, q \in Payloads :
           tx'[u][q] # "unseen" => tx[u][q] # "unseen"
  <2>1. CASE \E o \in Ops : BackoffElapses(o)
    <3>1. PICK o \in Ops : BackoffElapses(o)
      BY <2>1
    <3>2. /\ UNCHANGED <<callVars, batch, tx>>
          /\ \A u \in Ops : u # o => row'[u] = row[u]
          /\ row'[o] = [row[o] EXCEPT !.due = TRUE]
      BY <3>1 DEF BackoffElapses, chainVars, IInv, TypeOK
    <3>3. row[o] \in Row
      BY DEF IInv, TypeOK
    <3> QED
      BY <3>2, <3>3 DEF Row
  <2>2. CASE (\E o \in Ops : LeaseExpires(o)) \/ OtherTraffic
    BY <2>2 DEF LeaseExpires, OtherTraffic, dbVars, chainVars
  <2>3. CASE \E o \in Ops, p \in Payloads :
               LedgerIncludes(o, p) \/ NetworkDrops(o, p)
    <3>1. PICK o \in Ops, p \in Payloads :
                 LedgerIncludes(o, p) \/ NetworkDrops(o, p)
      BY <2>3
    <3>2. /\ UNCHANGED <<row, callVars, batch>>
          /\ tx[o][p] = "pending"
          /\ \E v \in TxStates : tx' = [tx EXCEPT ![o][p] = v]
      BY <3>1 DEF LedgerIncludes, NetworkDrops, dbVars, TxStates
    <3> QED
      BY <3>2 DEF IInv, TypeOK
  <2> QED
    BY <2>1, <2>2, <2>3 DEF Clock, Network
<1>2. Ages
  BY <1>1 DEF Ages
<1>3. RowsStored'
  BY <1>1 DEF RowsStored
<1>4. CopiesStored'
  <2>1. \A d \in Callers : CopyStored(row', pc[d], cur[d], mem[d])
    BY <1>2, OthersStored
  <2> QED
    BY <1>1, <2>1 DEF CopiesStored, callVars
<1> QED
  BY <1>1, <1>2, <1>3, <1>4, BatchesStayStored

LEMMA CrashStored ==
  ASSUME StoreInv, NEW c \in Callers, Crash(c)
  PROVE  RowsStored' /\ CopiesStored' /\ BatchesStored'
<1> USE DEF StoreInv
<1>1. /\ UNCHANGED <<row, tx>> /\ Return(c)
      /\ \A w \in Workers : batch'[w] \subseteq batch[w]
  BY DEF Crash, dbVars, chainVars
<1> QED
  BY <1>1, RowsStay, NothingAges, ReturnKeepsStored, BatchesStayStored

LEMMA InitStored == Init => StoreInv
<1> SUFFICES ASSUME Init
             PROVE  StoreInv
  OBVIOUS
<1>1. IInv
  BY InitInv
<1>2. RowsStored /\ BatchesStored
  BY DEF Init, RowsStored, BatchesStored, Blank
<1>3. CopiesStored
  BY DEF Init, CopiesStored, CopyStored, Carrying
<1> QED
  BY <1>1, <1>2, <1>3 DEF StoreInv

LEMMA StepStored == StoreInv /\ [Next]_vars => StoreInv'
<1> SUFFICES ASSUME StoreInv, [Next]_vars
             PROVE  RowsStored' /\ CopiesStored' /\ BatchesStored'
  BY StepInv DEF StoreInv
<1>1. CASE \E o \in Ops : Prepare(o)
  BY <1>1, PrepareStored
<1>2. CASE \E c \in Clients : ClientStep(c)
  BY <1>2, ClientStored
<1>3. CASE \E w \in Workers : WorkerStep(w)
  BY <1>3, ClaimStored, ProcessStored, HandleStored, SavesStored
     DEF WorkerStep, Callers
<1>4. CASE \E c \in Callers : CallStep(c) \/ Crash(c)
  BY <1>4, SavesStored, SubmitStored, PollStored, CrashStored DEF CallStep
<1>5. CASE Clock \/ Network
  BY <1>5, WorldStored
<1>6. CASE UNCHANGED vars
  <2>1. UNCHANGED <<row, tx, batch, callVars>>
    BY <1>6 DEF vars, dbVars, chainVars
  <2> QED
    BY <2>1, RowsStay
       DEF StoreInv, CopiesStored, CopyStored, BatchesStored, callVars
<1> QED
  BY <1>1, <1>2, <1>3, <1>4, <1>5, <1>6 DEF Next

------------------------------------------------------------------------------
(* Saves, and where copies come from.  Only a save writes another phase or  *)
(* hash to a row that exists, and it is made by a caller that holds a copy; *)
(* a new copy is read from a row that has no verdict.                       *)

\* The steps that write a copy back.
Saves(c) ==
  \/ SaveSigned(c) \/ SaveRetry(c) \/ SaveSubmitted(c)
  \/ SaveConfirming(c) \/ SaveResult(c) \/ SaveHandler(c)

\* A save replaces one row by a copy that says confirmed only of an envelope
\* that succeeded.
LEMMA SaveVerdict ==
  ASSUME IInv, NEW c \in Callers, Saves(c)
  PROVE  /\ cur[c] \in Ops /\ UNCHANGED tx /\ HoldsCopy(c)
         /\ row'[cur[c]] = mem[c]
         /\ \A u \in Ops : u # cur[c] => row'[u] = row[u]
         /\ mem[c].phase = "confirmed" =>
              \E p \in Payloads : tx[cur[c]][p] = "success"
<1>1. pc[c] \notin {"idle", "handler"} /\ Save(c) /\ UNCHANGED tx
  BY DEF Saves, SaveSigned, SaveRetry, SaveSubmitted, SaveConfirming,
         SaveResult, SaveHandler, chainVars
<1>2. cur[c] \in Ops /\ Sound(tx, cur[c], mem[c])
  BY <1>1, BusyCaller DEF IInv
<1> QED
  BY <1>1, <1>2 DEF Save, Sound, IInv, TypeOK, HoldsCopy

\* What the steps other than saves do to the rows.
LEMMA RowsBetweenSaves ==
  ASSUME IInv, [Next]_vars,
         \A c \in Callers : ~Saves(c)
  PROVE  \/ \A o \in Ops : row'[o].phase = row[o].phase
                           /\ row'[o].hash = row[o].hash
         \/ \E o \in Ops : Prepare(o)
<1>1. CASE UNCHANGED row
  BY <1>1
<1>2. ASSUME NEW o \in Ops, BackoffElapses(o)
      PROVE  \A u \in Ops : row'[u].phase = row[u].phase
                            /\ row'[u].hash = row[u].hash
  <2>1. row \in [Ops -> Row] /\ row[o] \in Row
    BY DEF IInv, TypeOK
  <2> QED
    BY <1>2, <2>1 DEF BackoffElapses, Row
<1> QED
  BY <1>1, <1>2
     DEF Saves, Next, ClientStep, ClientSubmit, ClientReconcile, WorkerStep,
         Claim, Process, Handle, CallStep, Submit, Poll, Readback, Crash, Clock,
         LeaseExpires, Network, OtherTraffic, LedgerIncludes, NetworkDrops,
         dbVars, vars, Callers

\* A row is inserted without a verdict of its own, and not as confirmed.
LEMMA PrepareInserts ==
  ASSUME IInv, NEW o \in Ops, Prepare(o)
  PROVE  /\ row[o].phase = Absent /\ row[o].phase \notin Terminal
         /\ row'[o].phase # "confirmed" /\ row'[o].phase # "signed"
         /\ UNCHANGED <<tx, callVars>>
         /\ \A u \in Ops : u # o => row'[u] = row[u]
<1>1. row[o].phase = Absent /\ UNCHANGED <<tx, callVars>>
  BY DEF Prepare
<1>2. PICK ph \in {"failed_terminal", "restoring", "awaiting_signature"} :
        row' = [row EXCEPT ![o].phase = ph]
  BY DEF Prepare
<1>3. row \in [Ops -> Row] /\ row[o] \in Row
  BY DEF IInv, TypeOK
<1> QED
  BY <1>1, <1>2, <1>3 DEF Row, Terminal, Absent

\* A step moves at most one caller.
LEMMA MovesOne ==
  ASSUME [Next]_vars
  PROVE  \/ UNCHANGED callVars
         \/ \E c \in Callers : \E s, o, r : Goto(c, s, o, r)
<1>1. ASSUME NEW c \in Clients, ClientStep(c)
      PROVE  c \in Callers /\ \E s, o, r : Goto(c, s, o, r)
  BY <1>1 DEF ClientStep, ClientSubmit, ClientReconcile, EnterSubmit,
              EnterReconcile, Callers
<1>2. ASSUME NEW w \in Workers, WorkerStep(w)
      PROVE  \/ UNCHANGED callVars
             \/ w \in Callers /\ \E s, o, r : Goto(w, s, o, r)
  BY <1>2 DEF WorkerStep, Claim, Process, Handle, SaveHandler, EnterSubmit,
              EnterReconcile, Continue, Return, Callers
<1>3. ASSUME NEW c \in Callers, CallStep(c) \/ Crash(c)
      PROVE  \E s, o, r : Goto(c, s, o, r)
  BY <1>3 DEF CallStep, SaveSigned, Submit, SaveRetry, SaveSubmitted,
              SaveConfirming, Poll, Readback, SaveResult, Crash, Continue,
              Throw, Return
<1>4. CASE (\E o \in Ops : Prepare(o)) \/ Clock \/ Network \/ UNCHANGED vars
  BY <1>4 DEF Prepare, Clock, BackoffElapses, LeaseExpires, Network,
              OtherTraffic, LedgerIncludes, NetworkDrops, vars
<1> QED
  BY <1>1, <1>2, <1>3, <1>4 DEF Next

\* Caller c goes on with the copy it held, which loses no hash.
GoesOn(c) ==
  /\ HoldsCopy(c) /\ cur'[c] = cur[c]
  /\ mem[c].hash # None => mem'[c].hash # None

\* Caller c has read its row, which has no verdict, with the hash it holds.
ReadsRow(c) ==
  /\ row[cur'[c]].phase \notin Terminal
  /\ row[cur'[c]].hash # None => mem'[c].hash # None

\* What a caller goes to.
LEMMA Gone ==
  ASSUME TypeOK, NEW c \in Callers, NEW s, NEW o, NEW r, Goto(c, s, o, r)
  PROVE  /\ pc'[c] = s /\ cur'[c] = o /\ mem'[c] = r
         /\ \A d \in Callers \ {c} :
              pc'[d] = pc[d] /\ cur'[d] = cur[d] /\ mem'[d] = mem[d]
  BY DEF Goto, TypeOK

LEMMA EntryReads ==
  ASSUME IInv, NEW c \in Callers, NEW o \in Ops, NEW p,
         \/ CanSubmit(row[o], p) /\ EnterSubmit(c, o, p)
         \/ CanReconcile(row[o]) /\ EnterReconcile(c, o)
  PROVE  ReadsRow(c)
<1>1. row[o] \in Row /\ TypeOK
  BY DEF IInv, TypeOK
<1>2. CASE CanSubmit(row[o], p) /\ EnterSubmit(c, o, p)
  <2>1. row[o].phase \notin Terminal
    BY <1>2 DEF CanSubmit, Terminal
  <2>2. [row[o] EXCEPT !.phase = "signed", !.signed = p].hash = row[o].hash
    BY <1>1 DEF Row
  <2>3. cur'[c] = o /\ mem'[c].hash = row[o].hash
    BY <1>1, <1>2, <2>2 DEF EnterSubmit, Goto, TypeOK
  <2> QED
    BY <2>1, <2>3 DEF ReadsRow
<1>3. CASE CanReconcile(row[o]) /\ EnterReconcile(c, o)
  <2>1. row[o].phase \notin Terminal
    BY <1>3 DEF CanReconcile, Reconcilable, Terminal
  <2>2. [row[o] EXCEPT !.phase = "confirming"].hash = row[o].hash
    BY <1>1 DEF Row
  <2>3. cur'[c] = o /\ mem'[c].hash = row[o].hash
    BY <1>1, <1>3, <2>2 DEF EnterReconcile, Goto, TypeOK
  <2> QED
    BY <2>1, <2>3 DEF ReadsRow
<1> QED
  BY <1>2, <1>3

\* A call that goes on keeps the hash of its copy, or gets one.
LEMMA CallGoesOn ==
  ASSUME StoreInv, NEW c \in Callers, CallStep(c), HoldsCopy(c)'
  PROVE  GoesOn(c)
<1>1. /\ TypeOK /\ HoldsCopy(c) /\ pc[c] \in Carrying
      /\ cur[c] \in Ops /\ mem[c] \in Row
  BY BusyCaller
     DEF StoreInv, IInv, TypeOK, CallStep, SaveSigned, Submit, SaveRetry,
         SaveSubmitted, SaveConfirming, Poll, Readback, SaveResult, HoldsCopy,
         Carrying
<1>2. mem[c].signed # None
  BY <1>1 DEF StoreInv, CopiesStored, CopyStored
<1>3. ASSUME Return(c) \/ Throw(c)
      PROVE  FALSE
  BY <1>1, <1>3, Gone DEF Return, Throw, HoldsCopy
<1>4. ASSUME NEW s, NEW r, Continue(c, s, r),
             mem[c].hash # None => r.hash # None
      PROVE  GoesOn(c)
  BY <1>1, <1>4, Gone DEF Continue, GoesOn
<1>5. /\ ScheduleRetry(mem[c]).hash = mem[c].hash
      /\ MarkUnknown(mem[c]).hash = mem[c].hash
      /\ Accepted(mem[c], mem[c].signed).hash = mem[c].signed
      /\ \A ph : [mem[c] EXCEPT !.phase = ph].hash = mem[c].hash
      /\ \A ph : [mem[c] EXCEPT !.phase = ph, !.due = TRUE].hash = mem[c].hash
  BY <1>1 DEF Row, ScheduleRetry, MarkUnknown, Accepted
<1> QED
  BY <1>2, <1>3, <1>4, <1>5
     DEF CallStep, SaveSigned, Submit, SaveRetry, SaveSubmitted,
         SaveConfirming, Poll, Readback, SaveResult

\* A copy in hand after a step was in hand before, or has just been read.
LEMMA CopyOrigin ==
  ASSUME StoreInv, [Next]_vars, NEW c \in Callers, HoldsCopy(c)'
  PROVE  GoesOn(c) \/ ReadsRow(c)
<1>0. IInv /\ TypeOK
  BY DEF StoreInv, IInv
<1>1. ASSUME pc'[c] = pc[c], cur'[c] = cur[c], mem'[c] = mem[c]
      PROVE  GoesOn(c)
  BY <1>1 DEF GoesOn, HoldsCopy
<1>2. ASSUME NEW d \in Callers, \E s, o, r : Goto(d, s, o, r), d # c
      PROVE  GoesOn(c)
  BY <1>0, <1>1, <1>2, Gone
<1>3. ASSUME Return(c) \/ Goto(c, "handler", cur'[c], Blank)
      PROVE  FALSE
  BY <1>0, <1>3, Gone DEF Return, HoldsCopy
<1>4. CASE UNCHANGED callVars
  BY <1>1, <1>4 DEF callVars
<1>5. ASSUME NEW d \in Clients, ClientStep(d)
      PROVE  GoesOn(c) \/ ReadsRow(c)
  <2>1. PICK o \in Ops :
          \/ CanReconcile(row[o]) /\ EnterReconcile(d, o)
          \/ \E p \in Payloads : CanSubmit(row[o], p) /\ EnterSubmit(d, o, p)
    BY <1>5 DEF ClientStep, ClientSubmit, ClientReconcile
  <2>2. d \in Callers /\ \E s, u, r : Goto(d, s, u, r)
    BY <2>1 DEF EnterReconcile, EnterSubmit, Callers
  <2> QED
    BY <1>0, <1>2, <2>1, <2>2, EntryReads
<1>6. ASSUME NEW w \in Workers, Process(w)
      PROVE  GoesOn(c) \/ ReadsRow(c)
  <2>1. PICK item \in batch[w] :
          \/ /\ CanSubmit(row[item.op], item.signed)
             /\ EnterSubmit(w, item.op, item.signed)
          \/ CanReconcile(row[item.op]) /\ EnterReconcile(w, item.op)
          \/ Goto(w, "handler", item.op, Blank)
          \/ Return(w)
    BY <1>6 DEF Process
  <2>2. /\ item.op \in Ops /\ w \in Callers
        /\ \E s, u, r : Goto(w, s, u, r)
    BY <1>0, <2>1
       DEF TypeOK, Item, EnterReconcile, EnterSubmit, Return, Callers
  <2>3. CASE Goto(w, "handler", item.op, Blank)
    BY <1>0, <1>2, <1>3, <2>2, <2>3, Gone
  <2> QED
    BY <1>0, <1>2, <1>3, <2>1, <2>2, <2>3, EntryReads
<1>7. ASSUME NEW w \in Workers, Handle(w)
      PROVE  GoesOn(c) \/ ReadsRow(c)
  <2> DEFINE r == row[cur[w]]
             t == [r EXCEPT !.attempts = @ + 1, !.phase = "failed_terminal"]
             q == [ScheduleRetry(r) EXCEPT !.phase = "failed_retryable"]
  <2>1. /\ w \in Callers /\ cur[w] \in Ops /\ r \in Row
        /\ \E s, u, m : Goto(w, s, u, m)
    BY <1>0, <1>7, BusyCaller
       DEF Handle, IInv, TypeOK, Callers, Continue, Return
  <2>2. t.hash = r.hash /\ q.hash = r.hash
    BY <2>1 DEF Row, ScheduleRetry
  <2>3. \/ Return(w)
        \/ /\ r.phase \notin Terminal
           /\ \E m \in {r, t, q} : Goto(w, "saveHandler", cur[w], m)
    BY <1>7 DEF Handle, Continue, Terminal
  <2>4. ASSUME NEW m \in {r, t, q}, Goto(w, "saveHandler", cur[w], m),
               r.phase \notin Terminal, w = c
        PROVE  ReadsRow(c)
    <3>1. m.hash = r.hash
      BY <2>2, <2>4
    <3>2. cur'[c] = cur[w] /\ mem'[c] = m
      BY <1>0, <2>1, <2>4 DEF Goto, TypeOK
    <3> QED
      BY <2>4, <3>1, <3>2 DEF ReadsRow
  <2> QED
    BY <1>2, <1>3, <2>1, <2>3, <2>4
<1>8. ASSUME NEW w \in Workers, SaveHandler(w)
      PROVE  GoesOn(c)
  BY <1>2, <1>3, <1>8 DEF SaveHandler, Return, Callers
<1>9. ASSUME NEW d \in Callers, CallStep(d)
      PROVE  GoesOn(c)
  <2>1. \E s, o, r : Goto(d, s, o, r)
    BY <1>9 DEF CallStep, SaveSigned, Submit, SaveRetry, SaveSubmitted,
                SaveConfirming, Poll, Readback, SaveResult, Continue,
                Throw, Return
  <2> QED
    BY <1>2, <1>9, <2>1, CallGoesOn
<1>10. ASSUME NEW d \in Callers, Crash(d)
       PROVE  GoesOn(c)
  BY <1>2, <1>3, <1>10 DEF Crash, Return
<1> QED
  BY <1>4, <1>5, <1>6, <1>7, <1>8, <1>9, <1>10
     DEF Next, WorkerStep, Claim, Prepare, Clock, BackoffElapses, LeaseExpires,
         Network, OtherTraffic, LedgerIncludes, NetworkDrops, vars

------------------------------------------------------------------------------
(* Verdicts.  An operation that has one and no call at work is left alone   *)
(* for ever, and a step settles at most one operation.                      *)

LEMMA SettledStays ==
  ASSUME StoreInv, [Next]_vars, NEW o \in Ops, Settled(o)
  PROVE  /\ Settled(o)'
         /\ row'[o].phase = row[o].phase /\ row'[o].hash = row[o].hash
<1>1. IInv
  BY DEF StoreInv
<1>2. row'[o].phase = row[o].phase /\ row'[o].hash = row[o].hash
  <2>1. ASSUME NEW c \in Callers, Saves(c)
        PROVE  row'[o] = row[o]
    BY <1>1, <2>1, SaveVerdict DEF Settled
  <2>2. ASSUME NEW u \in Ops, Prepare(u)
        PROVE  row'[o] = row[o]
    BY <1>1, <2>2, PrepareInserts DEF Settled
  <2> QED
    BY <1>1, <2>1, <2>2, RowsBetweenSaves
<1>3. ASSUME NEW c \in Callers, HoldsCopy(c)'
      PROVE  cur'[c] # o
  BY <1>3, CopyOrigin DEF GoesOn, ReadsRow, Settled
<1> QED
  BY <1>2, <1>3 DEF Settled

\* The operation a caller leaves is the only one a step can settle.
LEMMA SettlesOne ==
  ASSUME IInv, [Next]_vars
  PROVE  \E u : \A o \in Ops : o # u /\ Settled(o)' => Settled(o)
<1>1. TypeOK
  BY DEF IInv
<1>2. ASSUME NEW u, \A o \in Ops : o # u => row'[o].phase = row[o].phase,
             UNCHANGED callVars
      PROVE  \A o \in Ops : o # u /\ Settled(o)' => Settled(o)
  BY <1>2 DEF Settled, HoldsCopy, callVars
<1>3. ASSUME NEW c \in Callers, \E s, o, r : Goto(c, s, o, r),
             \A o \in Ops : o # cur[c] => row'[o].phase = row[o].phase
      PROVE  \A o \in Ops : o # cur[c] /\ Settled(o)' => Settled(o)
  BY <1>1, <1>3, Gone DEF Settled, HoldsCopy
<1>4. ASSUME NEW c \in Callers, Saves(c)
      PROVE  \E u : \A o \in Ops : o # u /\ Settled(o)' => Settled(o)
  <2>1. \E s, o, r : Goto(c, s, o, r)
    BY <1>4 DEF Saves, SaveSigned, SaveRetry, SaveSubmitted, SaveConfirming,
                SaveResult, SaveHandler, Continue, Throw, Return
  <2> QED
    BY <1>3, <1>4, <2>1, SaveVerdict
<1>5. ASSUME NEW p \in Ops, Prepare(p)
      PROVE  \E u : \A o \in Ops : o # u /\ Settled(o)' => Settled(o)
  BY <1>2, <1>5, PrepareInserts
<1>6. CASE \A o \in Ops : row'[o].phase = row[o].phase
  BY <1>2, <1>3, <1>6, MovesOne
<1> QED
  BY <1>4, <1>5, <1>6, RowsBetweenSaves

------------------------------------------------------------------------------
(* Answers.  What a caller may still send was never answered, and a row that *)
(* says signed says so too.                                                  *)

\* A copy r at step s that leads to a submission has no hash.
Unsent(s, r) ==
  /\ s \in {"saveSigned", "submit", "saveRetry"} => r.hash = None
  /\ s = "saveHandler" /\ r.phase = "signed" => r.hash = None

CallsUnanswered == \A c \in Callers : Unsent(pc[c], mem[c])

RowsUnanswered == \A o \in Ops : row[o].phase = "signed" => row[o].hash = None

AnswerInv == StoreInv /\ CallsUnanswered /\ RowsUnanswered

LEMMA GotoUnanswered ==
  ASSUME TypeOK, CallsUnanswered, NEW c \in Callers, NEW s, NEW o, NEW r,
         Goto(c, s, o, r), Unsent(s, r)
  PROVE  CallsUnanswered'
  BY Gone DEF CallsUnanswered

LEMMA LeaveUnanswered ==
  ASSUME TypeOK, CallsUnanswered, NEW c \in Callers,
         Return(c) \/ Throw(c) \/ \E o : Goto(c, "handler", o, Blank)
  PROVE  CallsUnanswered'
<1>1. \A s \in {"idle", "handler"} : Unsent(s, Blank)
  BY DEF Unsent
<1> QED
  BY <1>1, GotoUnanswered DEF Return, Throw

\* A relay starts from a row whose envelope was not answered.
LEMMA EntryUnanswered ==
  ASSUME AnswerInv, NEW c \in Callers, NEW o \in Ops, NEW p,
         \/ CanSubmit(row[o], p) /\ EnterSubmit(c, o, p)
         \/ CanReconcile(row[o]) /\ EnterReconcile(c, o)
  PROVE  CallsUnanswered'
<1> USE DEF AnswerInv, StoreInv
<1>1. row[o] \in Row /\ TypeOK
  BY DEF IInv, TypeOK
<1>2. CASE CanSubmit(row[o], p) /\ EnterSubmit(c, o, p)
  <2>1. row[o].hash = None
    BY <1>2 DEF CanSubmit, RowsStored, Unsigned, RowsUnanswered
  <2>2. [row[o] EXCEPT !.phase = "signed", !.signed = p].hash = None
    BY <1>1, <2>1 DEF Row
  <2>3. /\ Unsent("saveSigned", [row[o] EXCEPT !.phase = "signed", !.signed = p])
        /\ Unsent("submit", row[o])
    BY <2>1, <2>2 DEF Unsent
  <2> QED
    BY <1>1, <1>2, <2>3, GotoUnanswered DEF EnterSubmit
<1>3. CASE EnterReconcile(c, o)
  BY <1>1, <1>3, GotoUnanswered DEF EnterReconcile, Unsent
<1> QED
  BY <1>2, <1>3

LEMMA CallsStep ==
  ASSUME AnswerInv, [Next]_vars
  PROVE  CallsUnanswered'
<1> USE DEF AnswerInv, StoreInv
<1>0. TypeOK /\ CallsUnanswered
  BY DEF IInv
<1>1. ASSUME NEW c \in Clients, ClientStep(c)
      PROVE  CallsUnanswered'
  <2>1. PICK o \in Ops :
          \/ CanReconcile(row[o]) /\ EnterReconcile(c, o)
          \/ \E p \in Payloads : CanSubmit(row[o], p) /\ EnterSubmit(c, o, p)
    BY <1>1 DEF ClientStep, ClientSubmit, ClientReconcile
  <2> QED
    BY <2>1, EntryUnanswered DEF Callers
<1>2. ASSUME NEW w \in Workers, Process(w)
      PROVE  CallsUnanswered'
  <2>1. PICK item \in batch[w] :
          \/ /\ CanSubmit(row[item.op], item.signed)
             /\ EnterSubmit(w, item.op, item.signed)
          \/ CanReconcile(row[item.op]) /\ EnterReconcile(w, item.op)
          \/ Goto(w, "handler", item.op, Blank)
          \/ Return(w)
    BY <1>2 DEF Process
  <2>2. item.op \in Ops /\ w \in Callers
    BY <1>0, <2>1 DEF TypeOK, Item, Callers
  <2> QED
    BY <1>0, <2>1, <2>2, EntryUnanswered, LeaveUnanswered
<1>3. ASSUME NEW w \in Workers, Handle(w)
      PROVE  CallsUnanswered'
  <2> DEFINE r == row[cur[w]]
             t == [r EXCEPT !.attempts = @ + 1, !.phase = "failed_terminal"]
             q == [ScheduleRetry(r) EXCEPT !.phase = "failed_retryable"]
  <2>1. w \in Callers /\ cur[w] \in Ops /\ r \in Row
    BY <1>0, <1>3, BusyCaller DEF Handle, IInv, TypeOK, Callers
  <2>2. t.phase = "failed_terminal" /\ q.phase = "failed_retryable"
    BY <2>1 DEF Row, ScheduleRetry
  <2>3. \A m \in {r, t, q} : Unsent("saveHandler", m)
    BY <2>1, <2>2 DEF Unsent, RowsUnanswered
  <2>4. \/ Return(w)
        \/ \E m \in {r, t, q} : Goto(w, "saveHandler", cur[w], m)
    BY <1>3 DEF Handle, Continue
  <2> QED
    BY <1>0, <2>1, <2>3, <2>4, GotoUnanswered, LeaveUnanswered
<1>4. ASSUME NEW c \in Callers, SaveSigned(c) \/ Submit(c)
      PROVE  CallsUnanswered'
  <2>1. mem[c].hash = None /\ mem[c] \in Row
    BY <1>0, <1>4, BusyCaller
       DEF IInv, TypeOK, CallsUnanswered, Unsent, SaveSigned, Submit
  <2>2. ScheduleRetry(mem[c]).hash = None
    BY <2>1 DEF ScheduleRetry, Row
  <2>3. /\ Unsent("submit", mem[c]) /\ Unsent("saveRetry", ScheduleRetry(mem[c]))
        /\ \A r : Unsent("saveSubmitted", r)
    BY <2>1, <2>2 DEF Unsent
  <2> QED
    BY <1>0, <1>4, <2>3, GotoUnanswered DEF SaveSigned, Submit, Continue
<1>5. ASSUME NEW c \in Callers,
             \/ SaveSubmitted(c) \/ SaveConfirming(c) \/ Poll(c) \/ Readback(c)
      PROVE  CallsUnanswered'
  <2>1. \A s \in {"saveConfirming", "poll", "saveResult", "readback"} :
          \A r : Unsent(s, r)
    BY DEF Unsent
  <2>2. \/ Throw(c)
        \/ \E s \in {"saveConfirming", "poll", "saveResult", "readback"} :
             \E r : Goto(c, s, cur[c], r)
    BY <1>5 DEF SaveSubmitted, SaveConfirming, Poll, Readback, Continue
  <2> QED
    BY <1>0, <2>1, <2>2, GotoUnanswered, LeaveUnanswered
<1>6. ASSUME NEW c \in Callers,
             \/ SaveRetry(c) \/ SaveResult(c) \/ SaveHandler(c) \/ Crash(c)
      PROVE  CallsUnanswered'
  BY <1>0, <1>6, LeaveUnanswered
     DEF SaveRetry, SaveResult, SaveHandler, Crash
<1>7. CASE UNCHANGED callVars
  BY <1>7 DEF CallsUnanswered, callVars
<1> QED
  BY <1>1, <1>2, <1>3, <1>4, <1>5, <1>6, <1>7
     DEF Next, WorkerStep, CallStep, Claim, Prepare, Clock, BackoffElapses,
         LeaseExpires, Network, OtherTraffic, LedgerIncludes, NetworkDrops,
         vars, Callers

LEMMA RowsStep ==
  ASSUME AnswerInv, [Next]_vars
  PROVE  RowsUnanswered'
<1>1. IInv
  BY DEF AnswerInv, StoreInv
<1>2. ASSUME NEW c \in Callers, Saves(c)
      PROVE  RowsUnanswered'
  <2>1. mem[c].phase = "signed" =>
          pc[c] \in {"saveSigned", "saveRetry", "saveHandler"}
    <3>1. pc[c] # "idle" /\ mem[c].phase \in CopyPhases(pc[c])
      BY <1>1, <1>2, BusyCaller
         DEF Saves, SaveSigned, SaveRetry, SaveSubmitted, SaveConfirming,
             SaveResult, SaveHandler, IInv
    <3> QED
      BY <1>2, <3>1
         DEF Saves, SaveSigned, SaveRetry, SaveSubmitted, SaveConfirming,
             SaveResult, SaveHandler, CopyPhases
  <2>2. mem[c].phase = "signed" => mem[c].hash = None
    BY <2>1 DEF AnswerInv, CallsUnanswered, Unsent
  <2> QED
    BY <1>1, <1>2, <2>2, SaveVerdict DEF AnswerInv, RowsUnanswered
<1>3. ASSUME NEW o \in Ops, Prepare(o)
      PROVE  RowsUnanswered'
  BY <1>1, <1>3, PrepareInserts DEF AnswerInv, RowsUnanswered
<1>4. CASE \A o \in Ops : row'[o].phase = row[o].phase /\ row'[o].hash = row[o].hash
  BY <1>4 DEF AnswerInv, RowsUnanswered
<1> QED
  BY <1>1, <1>2, <1>3, <1>4, RowsBetweenSaves

LEMMA AnswerStep == AnswerInv /\ [Next]_vars => AnswerInv'
  BY StepStored, CallsStep, RowsStep DEF AnswerInv

LEMMA AnswerInit == Init => AnswerInv
<1> SUFFICES ASSUME Init
             PROVE  AnswerInv
  OBVIOUS
<1>1. CallsUnanswered /\ RowsUnanswered
  BY DEF Init, CallsUnanswered, RowsUnanswered, Unsent, Blank, Absent, Callers
<1> QED
  BY <1>1, InitStored DEF AnswerInv

\* The network sees an envelope for the first time, or again, only from a
\* call that relays it.
LEMMA SentByCall ==
  ASSUME IInv, [Next]_vars, NEW o \in Ops, NEW p \in Payloads,
         tx[o][p] = "unseen", tx'[o][p] # "unseen"
  PROVE  \E c \in Callers : pc[c] = "submit" /\ cur[c] = o
<1>1. tx \in [Ops -> [Payloads -> TxStates]]
  BY DEF IInv, TypeOK
<1>2. ASSUME NEW u \in Ops, NEW q \in Payloads, NEW v, tx[u][q] = "pending",
             tx' = [tx EXCEPT ![u][q] = v]
      PROVE  FALSE
  BY <1>1, <1>2
<1>3. \A u \in Ops, q \in Payloads :
        ~LedgerIncludes(u, q) /\ ~NetworkDrops(u, q)
  BY <1>2 DEF LedgerIncludes, NetworkDrops
<1>4. PICK c \in Callers : Submit(c)
  BY <1>3
     DEF Next, Prepare, ClientStep, ClientSubmit, ClientReconcile, WorkerStep,
         Claim, Process, Handle, SaveHandler, CallStep, SaveSigned, SaveRetry,
         SaveSubmitted, SaveConfirming, SaveResult, Poll, Readback, Crash,
         Clock, BackoffElapses, LeaseExpires, Network, OtherTraffic, chainVars,
         vars
<1>5. pc[c] = "submit" /\ cur[c] \in Ops
  BY <1>4, BusyCaller DEF Submit, IInv
<1>6. tx' = [tx EXCEPT ![cur[c]][mem[c].signed] = "pending"]
  BY <1>4 DEF Submit
<1> QED
  BY <1>1, <1>5, <1>6

LEMMA AnsweredStays ==
  ASSUME AnswerInv, [Next]_vars, NEW o \in Ops, Answered(o)
  PROVE  /\ Answered(o)'
         /\ \A p \in Payloads : tx[o][p] = "unseen" => tx'[o][p] = "unseen"
<1>1. IInv /\ StoreInv
  BY DEF AnswerInv, StoreInv
<1>2. row'[o].hash # None
  <2>1. ASSUME NEW c \in Callers, Saves(c)
        PROVE  row'[o].hash # None
    BY <1>1, <2>1, SaveVerdict DEF Answered
  <2>2. ASSUME NEW u \in Ops, Prepare(u)
        PROVE  row'[o].hash # None
    <3>1. row[u].hash = None
      BY <1>1, <2>2, PrepareInserts DEF StoreInv, RowsStored, Unsigned
    <3> QED
      BY <1>1, <2>2, <3>1, PrepareInserts DEF Answered
  <2> QED
    BY <1>1, <2>1, <2>2, RowsBetweenSaves DEF Answered
<1>3. ASSUME NEW c \in Callers, HoldsCopy(c)', cur'[c] = o
      PROVE  mem'[c].hash # None
  BY <1>1, <1>3, CopyOrigin DEF GoesOn, ReadsRow, Answered
<1>4. ASSUME NEW p \in Payloads, tx[o][p] = "unseen", tx'[o][p] # "unseen"
      PROVE  FALSE
  <2>1. PICK c \in Callers : pc[c] = "submit" /\ cur[c] = o
    BY <1>1, <1>4, SentByCall
  <2>2. mem[c].hash = None
    BY <2>1 DEF AnswerInv, CallsUnanswered, Unsent
  <2> QED
    BY <2>1, <2>2 DEF Answered, HoldsCopy
<1> QED
  BY <1>2, <1>3, <1>4 DEF Answered

------------------------------------------------------------------------------
(* From rows to verdicts and effects.                                       *)

\* The transactions between inclusions: the same have succeeded and failed.
LEMMA EffectsBetweenInclusions ==
  ASSUME IInv, [Next]_vars,
         \A o \in Ops, p \in Payloads : ~LedgerIncludes(o, p)
  PROVE  \A o \in Ops, p \in Payloads :
           \/ tx'[o][p] = tx[o][p]
           \/ tx[o][p] \notin Included /\ tx'[o][p] \notin Included
<1>1. CASE UNCHANGED tx
  BY <1>1
<1>2. ASSUME NEW o, NEW p, NEW v \in {"pending", "unseen"},
             tx[o][p] \in {"pending", "unseen"}, tx' = [tx EXCEPT ![o][p] = v]
      PROVE  \A u \in Ops, q \in Payloads :
               \/ tx'[u][q] = tx[u][q]
               \/ tx[u][q] \notin Included /\ tx'[u][q] \notin Included
  BY <1>2 DEF IInv, TypeOK, Included
<1>3. \/ UNCHANGED tx
      \/ \E c \in Callers : Submit(c)
      \/ \E o \in Ops, p \in Payloads : NetworkDrops(o, p)
  BY DEF Next, Prepare, ClientStep, ClientSubmit, ClientReconcile, WorkerStep,
         Claim, Process, Handle, SaveHandler, CallStep, SaveSigned, SaveRetry,
         SaveSubmitted, SaveConfirming, SaveResult, Poll, Readback, Crash, Clock,
         BackoffElapses, LeaseExpires, Network, OtherTraffic, chainVars, vars
<1>4. CASE \E c \in Callers : Submit(c)
  BY <1>1, <1>2, <1>4 DEF Submit
<1>5. CASE \E o \in Ops, p \in Payloads : NetworkDrops(o, p)
  BY <1>2, <1>5 DEF NetworkDrops
<1> QED
  BY <1>1, <1>3, <1>4, <1>5

\* The variables of the abstract lifecycles.
SavedVerdict ==
  [o \in Ops |-> IF row[o].phase \in Terminal THEN row[o].phase ELSE "open"]
Verdict == [o \in Ops |-> IF Settled(o) THEN row[o].phase ELSE "open"]
EffectOf == [o \in Ops |-> Effect(o)]

\* Effects stay when the same transactions have succeeded and failed.
LEMMA SameEffect ==
  ASSUME \A o \in Ops, p \in Payloads :
           \/ tx'[o][p] = tx[o][p]
           \/ tx[o][p] \notin Included /\ tx'[o][p] \notin Included
  PROVE  EffectOf' = EffectOf
<1>1. \A o \in Ops : /\ (\E p \in Payloads : tx'[o][p] = "success")
                          <=> (\E p \in Payloads : tx[o][p] = "success")
                     /\ (\E p \in Payloads : tx'[o][p] = "failed")
                          <=> (\E p \in Payloads : tx[o][p] = "failed")
  BY DEF Included
<1> QED
  BY <1>1 DEF EffectOf, Effect

\* An inclusion is the first for its operation: the ledger consumes the
\* sequence number all envelopes of the operation compete for.
LEMMA InclusionIsFirst ==
  ASSUME IInv, NEW o \in Ops, NEW p \in Payloads, LedgerIncludes(o, p)
  PROVE  /\ UNCHANGED <<row, callVars>>
         /\ EffectOf[o] = "none"
         /\ \E e \in Included : EffectOf' = [EffectOf EXCEPT ![o] = e]
<1>1. \A q \in Payloads : tx[o][q] \notin Included
  BY DEF IInv, EnvelopesSound, TypeOK, LedgerIncludes
<1>2. PICK e \in Included : tx' = [tx EXCEPT ![o][p] = e]
  BY DEF LedgerIncludes, Included
<1>3. EffectOf[o] = "none"
  BY <1>1 DEF EffectOf, Effect, Included
<1>4. /\ tx'[o] = [tx[o] EXCEPT ![p] = e] /\ tx'[o][p] = e
      /\ \A q \in Payloads \ {p} : tx'[o][q] = tx[o][q]
      /\ \A u \in Ops \ {o} : tx'[u] = tx[u]
  BY <1>2 DEF IInv, TypeOK
<1>5. IF \E q \in Payloads : tx'[o][q] = "success" THEN e = "success"
      ELSE (\E q \in Payloads : tx'[o][q] = "failed") /\ e = "failed"
  BY <1>1, <1>4 DEF Included
<1>6. EffectOf' = [EffectOf EXCEPT ![o] = e]
  BY <1>4, <1>5 DEF EffectOf, Effect
<1> QED
  BY <1>3, <1>6 DEF LedgerIncludes, dbVars

\* A saved row tells its verdict, or none.
LEMMA PhaseGiven ==
  ASSUME NEW o \in Ops, UNCHANGED tx,
         \A u \in Ops : u # o => row'[u] = row[u],
         row'[o].phase = "confirmed" => \E p \in Payloads : tx[o][p] = "success"
  PROVE  SavedLifecycle!OverlapNext
<1>1. PICK v \in SavedLifecycle!Verdicts : v = SavedVerdict'[o]
  BY DEF SavedVerdict, Terminal, SavedLifecycle!Verdicts
<1>2. EffectOf' = EffectOf
  BY DEF EffectOf, Effect
<1>3. SavedVerdict' = [SavedVerdict EXCEPT ![o] = v]
  BY <1>1 DEF SavedVerdict
<1>4. v = "confirmed" => EffectOf[o] = "success"
  BY <1>1 DEF SavedVerdict, EffectOf, Effect, Terminal
<1>5. SavedLifecycle!Save(o, v)
  BY <1>2, <1>3, <1>4 DEF SavedLifecycle!Save, SavedVerdict, EffectOf
<1> QED
  BY <1>1, <1>5 DEF SavedLifecycle!OverlapNext

\* Every step, whatever overlaps, is a step of the overlapping lifecycle.
LEMMA OverlapStep ==
  ASSUME IInv, [Next]_vars
  PROVE  SavedLifecycle!OverlapNext \/ UNCHANGED <<SavedVerdict, EffectOf>>
<1>1. ASSUME NEW c \in Callers, Saves(c)
      PROVE  SavedLifecycle!OverlapNext
  <2>1. PICK o \in Ops : o = cur[c]
    BY <1>1, SaveVerdict
  <2> QED
    BY <1>1, <2>1, SaveVerdict, PhaseGiven
<1>2. ASSUME NEW o \in Ops, Prepare(o)
      PROVE  SavedLifecycle!OverlapNext
  BY <1>2, PrepareInserts, PhaseGiven
<1>3. ASSUME NEW o \in Ops, NEW p \in Payloads, LedgerIncludes(o, p)
      PROVE  SavedLifecycle!OverlapNext
  <2>1. UNCHANGED SavedVerdict
    BY <1>3, InclusionIsFirst DEF SavedVerdict
  <2>2. SavedLifecycle!TakeEffect(o)
    BY <1>3, <2>1, InclusionIsFirst
       DEF SavedLifecycle!TakeEffect, SavedVerdict, EffectOf, Included
  <2> QED
    BY <2>2 DEF SavedLifecycle!OverlapNext
<1>4. CASE /\ \A c \in Callers : ~Saves(c)
           /\ \A o \in Ops : ~Prepare(o)
           /\ \A o \in Ops, p \in Payloads : ~LedgerIncludes(o, p)
  <2>1. SavedVerdict' = SavedVerdict
    BY <1>4, RowsBetweenSaves DEF SavedVerdict
  <2>2. EffectOf' = EffectOf
    BY <1>4, EffectsBetweenInclusions, SameEffect
  <2> QED
    BY <2>1, <2>2
<1> QED
  BY <1>1, <1>2, <1>3, <1>4

\* Verdicts given stay, and the one a step gives is the first of its
\* operation and true: every step is a step of the lifecycle.
LEMMA LifecycleStep ==
  ASSUME StoreInv, [Next]_vars
  PROVE  Lifecycle!Next \/ UNCHANGED <<Verdict, EffectOf>>
<1>1. IInv /\ IInv'
  BY StepInv DEF StoreInv
<1>2. ASSUME NEW o \in Ops, NEW p \in Payloads, LedgerIncludes(o, p)
      PROVE  Lifecycle!Next
  <2>1. UNCHANGED <<row, callVars>>
    BY <1>1, <1>2, InclusionIsFirst
  <2>2. UNCHANGED Verdict
    BY <2>1 DEF Verdict, Settled, HoldsCopy, callVars
  <2>3. Lifecycle!TakeEffect(o)
    BY <1>1, <1>2, <2>2, InclusionIsFirst
       DEF Lifecycle!TakeEffect, Verdict, EffectOf, Included
  <2> QED
    BY <2>3 DEF Lifecycle!Next
<1>3. CASE \A o \in Ops, p \in Payloads : ~LedgerIncludes(o, p)
  <2>1. EffectOf' = EffectOf
    BY <1>1, <1>3, EffectsBetweenInclusions, SameEffect
  <2>2. ASSUME NEW o \in Ops, Settled(o)
        PROVE  Settled(o)' /\ row'[o].phase = row[o].phase
    BY <2>2, SettledStays
  <2>3. PICK u : \A o \in Ops : o # u /\ Settled(o)' => Settled(o)
    BY <1>1, SettlesOne
  <2>4. \A o \in Ops : o # u => Verdict'[o] = Verdict[o]
    BY <2>2, <2>3 DEF Verdict
  <2>5. CASE u \in Ops /\ ~Settled(u) /\ Settled(u)'
    <3>0. PICK v \in Terminal : v = row'[u].phase
      BY <2>5 DEF Settled
    <3>1. Verdict[u] = "open" /\ Verdict'[u] = v
      BY <2>5, <3>0 DEF Verdict
    <3>2. Verdict' = [Verdict EXCEPT ![u] = v]
      BY <2>4, <3>1 DEF Verdict
    <3>3. v = "confirmed" => EffectOf[u] = "success"
      <4>1. v = "confirmed" => EffectOf'[u] = "success"
        <5>1. v = "confirmed" => /\ row'[u].hash \in Payloads
                                 /\ tx'[u][row'[u].hash] = "success"
          BY <1>1, <2>5, <3>0 DEF IInv, RowsSound, Sound
        <5> QED
          BY <2>5, <5>1 DEF EffectOf, Effect
      <4> QED
        BY <2>1, <4>1
    <3>4. Lifecycle!Save(u, v)
      BY <2>1, <3>2, <3>3 DEF Lifecycle!Save, Verdict, EffectOf
    <3>5. Lifecycle!Confirm(u) \/ Lifecycle!Reject(u)
      <4>1. v = "confirmed" \/ v = "failed_terminal"
        BY <3>0 DEF Terminal
      <4> QED
        BY <3>1, <3>4, <4>1
           DEF Lifecycle!Confirm, Lifecycle!Reject, Verdict
    <3> QED
      BY <2>5, <3>5 DEF Lifecycle!Next
  <2>6. CASE ~(u \in Ops /\ ~Settled(u) /\ Settled(u)')
    <3>1. \A o \in Ops : Verdict'[o] = Verdict[o]
      BY <2>2, <2>4, <2>6 DEF Verdict
    <3>2. Verdict' = Verdict
      BY <3>1 DEF Verdict
    <3> QED
      BY <2>1, <3>2
  <2> QED
    BY <2>5, <2>6
<1> QED
  BY <1>2, <1>3

LEMMA LifecycleInit ==
  ASSUME Init
  PROVE  Lifecycle!Init /\ SavedLifecycle!Init
<1>1. \A o \in Ops : row[o].phase \notin Terminal /\ ~Settled(o)
  BY DEF Init, Blank, Absent, Terminal, Settled
<1>2. \A o \in Ops : Effect(o) = "none"
  BY DEF Init, Effect
<1> QED
  BY <1>1, <1>2 DEF Lifecycle!Init, SavedLifecycle!Init

------------------------------------------------------------------------------
(* The theorems.                                                           *)

\* The inductive invariant holds in every reachable state.
THEOREM Invariance == Spec => []IInv
  BY InitInv, StepInv, PTL DEF Spec

\* Rows, leases, copies and the chain keep their types, whatever races.
THEOREM TypeCorrect == Spec => []TypeOK
<1>1. IInv => TypeOK
  BY DEF IInv
<1> QED
  BY <1>1, Invariance, PTL

\* A confirmed operation is on chain: its row names an envelope the ledger
\* included with success and the contract holds what the operation wrote.
THEOREM ConfirmedCorrect == Spec => []ConfirmedIsOnChain
<1>1. IInv => ConfirmedIsOnChain
  BY OutboxAssumption
     DEF IInv, RowsSound, Sound, SuccessTookEffect, ConfirmedIsOnChain
<1> QED
  BY <1>1, Invariance, PTL

\* Every row reconcile is meant for has the hash it needs.
THEOREM HashKnown == Spec => []PolledPhasesHaveHash
<1>1. IInv => PolledPhasesHaveHash
  BY OutboxAssumption DEF IInv, RowsSound, Sound, PolledPhasesHaveHash
<1> QED
  BY <1>1, Invariance, PTL

\* The ledger includes at most one of the envelopes, of one operation or of
\* several, that compete for a sequence number of the fee payer.
THEOREM IncludedOnce == Spec => []SequenceUsedOnce
<1>1. IInv => SequenceUsedOnce
  BY DEF IInv
<1> QED
  BY <1>1, Invariance, PTL

\* Whatever the network may execute is stored first: an envelope it has seen
\* belongs to a row that has one and is not offered for signature again.
THEOREM EnvelopesStored == Spec => []NetworkImpliesStored
<1>1. StoreInv => NetworkImpliesStored
  BY DEF StoreInv, RowsStored, Unsigned, NetworkImpliesStored
<1>2. Spec => []StoreInv
  BY InitStored, StepStored, PTL DEF Spec
<1> QED
  BY <1>1, <1>2, PTL

\* However many calls, workers, retries and crashes overlap, an operation
\* takes effect at most once and no save calls it confirmed unless it did.
THEOREM OverlapImplemented == Spec => OverlapSpec
<1>1. Init => SavedLifecycle!Init
  BY LifecycleInit
<1>2. IInv /\ [Next]_vars =>
        [SavedLifecycle!OverlapNext]_<<SavedVerdict, EffectOf>>
  BY OverlapStep
<1> QED
  BY <1>1, <1>2, Invariance, PTL
     DEF Spec, OverlapSpec, SavedLifecycle!OverlapSpec, SavedVerdict, EffectOf

\* The invariant that envelopes are stored before the network has them.
LEMMA Stored == Spec => []StoreInv
  BY InitStored, StepStored, PTL DEF Spec

\* The outbox implements the lifecycle, whatever calls, workers, retries and
\* crashes overlap on one operation: it takes effect at most once, and the
\* verdict its row has when the calls at work on it are through is the only one
\* it ever gets, confirmed only when it took effect.
THEOREM LifecycleImplemented == Spec => LifecycleSpec
<1>1. Init => Lifecycle!Init
  BY LifecycleInit
<1>2. StoreInv /\ [Next]_vars => [Lifecycle!Next]_<<Verdict, EffectOf>>
  BY LifecycleStep
<1> QED
  BY <1>1, <1>2, Stored, PTL
     DEF Spec, LifecycleSpec, Lifecycle!Spec, Verdict, EffectOf

\* A verdict no call holds a copy of is final: no call, worker, claim, retry or
\* crash changes the phase or the hash of the row again, or takes a copy of it.
THEOREM SettledIsFinal ==
  Spec => [][\A o \in Ops : Settled(o) =>
               /\ Settled(o)'
               /\ row'[o].phase = row[o].phase
               /\ row'[o].hash = row[o].hash]_vars
<1>1. StoreInv /\ [Next]_vars =>
        [\A o \in Ops : Settled(o) =>
           /\ Settled(o)'
           /\ row'[o].phase = row[o].phase
           /\ row'[o].hash = row[o].hash]_vars
  BY SettledStays
<1> QED
  BY <1>1, Stored, PTL DEF Spec

\* What the network answered is polled and never relayed again: once the
\* answer is in the row and the calls that work without it are through, it is
\* never lost and no envelope of the operation enters the network any more.
THEOREM NeverBlind == Spec => NeverResubmitsBlind
<1>1. AnswerInv /\ [Next]_vars =>
        [\A o \in Ops : Answered(o) =>
           /\ Answered(o)'
           /\ \A p \in Payloads : tx[o][p] = "unseen" => tx'[o][p] = "unseen"]_vars
  BY AnsweredStays
<1>2. Spec => []AnswerInv
  BY AnswerInit, AnswerStep, PTL DEF Spec
<1> QED
  BY <1>1, <1>2, PTL DEF Spec, NeverResubmitsBlind

==============================================================================
