------------------------- MODULE OperationLifecycle --------------------------
(***************************************************************************)
(* What the outbox promises about one operation, with the calls, workers,  *)
(* retries and network traffic left out: it takes effect on the chain at   *)
(* most once, its verdict is given once and stays, and it is only          *)
(* confirmed when it took effect.                                          *)
(***************************************************************************)
CONSTANT Ops

VARIABLES
  verdict,  \* what the outbox says about an operation
  effect    \* what the ledger did with it

Verdicts == {"open", "confirmed", "failed_terminal"}

Init ==
  /\ verdict = [o \in Ops |-> "open"]
  /\ effect = [o \in Ops |-> "none"]

TakeEffect(o) ==
  /\ effect[o] = "none"
  /\ \E e \in {"success", "failed"} : effect' = [effect EXCEPT ![o] = e]
  /\ UNCHANGED verdict

\* A call saves its copy of the row, which says v.
Save(o, v) ==
  /\ v = "confirmed" => effect[o] = "success"
  /\ verdict' = [verdict EXCEPT ![o] = v]
  /\ UNCHANGED effect

Confirm(o) == verdict[o] = "open" /\ Save(o, "confirmed")
Reject(o)  == verdict[o] = "open" /\ Save(o, "failed_terminal")

Next == \E o \in Ops : TakeEffect(o) \/ Confirm(o) \/ Reject(o)

Spec == Init /\ [][Next]_<<verdict, effect>>

\* What every single save keeps of it while calls overlap and write copies
\* they read earlier: a verdict may be replaced by another one, or by none.
OverlapNext == \E o \in Ops : TakeEffect(o) \/ \E v \in Verdicts : Save(o, v)

OverlapSpec == Init /\ [][OverlapNext]_<<verdict, effect>>
==============================================================================
