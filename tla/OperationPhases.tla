--------------------------- MODULE OperationPhases ---------------------------
(***************************************************************************)
(* The phases of a chain operation and the transition table between them,  *)
(* as src/domain/operations/operationState.ts declares them.  No state:    *)
(* the modules about the outbox, the relay and the provisioning service    *)
(* all use this vocabulary.                                                *)
(***************************************************************************)

Phases == {"awaiting_signature", "signed", "submitted", "confirming",
           "confirmed", "failed_retryable", "failed_terminal", "unknown",
           "restoring"}

\* The table TRANSITIONS: where each phase may go.
Transitions ==
  [ awaiting_signature |-> {"signed", "failed_terminal"},
    signed             |-> {"submitted", "failed_retryable"},
    submitted          |-> {"confirming", "failed_retryable", "unknown"},
    confirming         |-> {"confirmed", "failed_retryable",
                            "failed_terminal", "unknown", "restoring"},
    confirmed          |-> {},
    failed_retryable   |-> {"awaiting_signature", "submitted", "unknown",
                            "failed_terminal"},
    failed_terminal    |-> {},
    unknown            |-> {"submitted", "confirming", "confirmed",
                            "failed_retryable", "failed_terminal",
                            "restoring"},
    restoring          |-> {"awaiting_signature", "submitted",
                            "failed_retryable", "failed_terminal"} ]

\* assertTransition: staying put is always allowed.
CanTransition(from, to) == from = to \/ to \in Transitions[from]

\* isTerminal
Terminal == {"confirmed", "failed_terminal"}

\* The phases claimBatch hands to a worker.
ClaimPhases == {"signed", "submitted", "confirming", "failed_retryable",
                "unknown", "restoring"}

\* The phases SorobanStellarGateway.reconcile acts on.
Reconcilable == {"submitted", "confirming", "unknown", "restoring",
                 "failed_retryable"}
==============================================================================
