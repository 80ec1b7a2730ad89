----------------------------- MODULE DurableIntent -----------------------------
(***************************************************************************)
(* What the transactional outbox promises the code that calls emit(): an   *)
(* intent recorded with a committed change is handed to the job queue      *)
(* and, once it has been handed over, its handler completes.  An intent    *)
(* that no handler is registered for is dropped instead.  Nothing is said  *)
(* of relays, row locks, batches or job ids: OutboxRelay has those.        *)
(***************************************************************************)

CONSTANTS Events,   \* outbox rows
          Handled   \* the rows whose event type has a handler

VARIABLE status     \* status[e]: where the intent e has got to

Statuses == {"absent", "recorded", "handed", "done", "dropped"}

Init == status = [e \in Events |-> "absent"]

Move(e, from, to) ==
  /\ status[e] = from
  /\ status' = [status EXCEPT ![e] = to]

Record(e) == Move(e, "absent", "recorded")
Hand(e) == e \in Handled /\ Move(e, "recorded", "handed")
Complete(e) == Move(e, "handed", "done")

\* A relay marks a whole batch sent at once: several rows are dropped together.
Drop(S) ==
  /\ S # {}
  /\ S \subseteq Events \ Handled
  /\ \A e \in S : status[e] = "recorded"
  /\ status' = [e \in Events |-> IF e \in S THEN "dropped" ELSE status[e]]

Next ==
  \/ \E e \in Events : Record(e) \/ Hand(e) \/ Complete(e)
  \/ \E S \in SUBSET Events : Drop(S)

Settles(e) == Hand(e) \/ Complete(e) \/ \E S \in SUBSET Events : e \in S /\ Drop(S)

Safe == Init /\ [][Next]_status
Spec == Safe /\ \A e \in Events : WF_status(Settles(e))
================================================================================
