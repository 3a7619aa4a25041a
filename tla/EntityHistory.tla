--------------------------- MODULE EntityHistory ---------------------------
(***************************************************************************)
(* What the entity registry promises: the published hashes of an entity    *)
(* are a list that only grows at its end, one hash at a time, until the    *)
(* entity is retired; from then on it never changes.                       *)
(***************************************************************************)
EXTENDS Integers, Sequences

CONSTANTS Entities, Contents

VARIABLES
  history,  \* [Entities -> Seq(Contents)]: what was published, oldest first
  retired   \* the entities that are closed

HistoryInit ==
  /\ history = [e \in Entities |-> <<>>]
  /\ retired = {}

Publish(e, c) ==
  /\ e \notin retired
  /\ history' = [history EXCEPT ![e] = Append(@, c)]
  /\ UNCHANGED retired

Retire(e) ==
  /\ history[e] # <<>>
  /\ retired' = retired \cup {e}
  /\ UNCHANGED history

HistoryNext ==
  \E e \in Entities : Retire(e) \/ \E c \in Contents : Publish(e, c)

HistorySpec == HistoryInit /\ [][HistoryNext]_<<history, retired>>
=============================================================================
