---------------------------- MODULE JobLifecycle ----------------------------
(***************************************************************************)
(* What the ingest state machine promises of a job row, whatever workers,  *)
(* restarts and deferrals do: it completes its stages one after the other, *)
(* or leaves them by one off-ramp, or is parked in the DLQ with its last   *)
(* good state, and such an end is final.                                   *)
(*                                                                         *)
(* The promise is off for a job whose queue entry is run again after the   *)
(* call that held it had written its last: then two calls may drive the    *)
(* job at once, or one start over, and none looks at the row before it     *)
(* writes.                                                                 *)
(***************************************************************************)
EXTENDS Integers

CONSTANTS
  Jobs,
  N,          \* number of stages, a positive number
  OffRamps,   \* states outside 0..N
  Reentered   \* the off-ramps from which a new call starts over

VARIABLES
  state, dlq,
  redelivered \* jobs whose entry was run again after its call's last write

vars == <<state, dlq, redelivered>>

Init ==
  /\ state = [j \in Jobs |-> 0]
  /\ dlq = [j \in Jobs |-> FALSE]
  /\ redelivered = {}

Open(j) == ~dlq[j] /\ state[j] \in 0..(N - 1)

Advance(j) ==
  /\ Open(j)
  /\ state' = [state EXCEPT ![j] = @ + 1]
  /\ UNCHANGED <<dlq, redelivered>>

Divert(j) ==
  /\ Open(j)
  /\ \E t \in OffRamps : state' = [state EXCEPT ![j] = t]
  /\ UNCHANGED <<dlq, redelivered>>

Bury(j) ==
  /\ Open(j)
  /\ dlq' = [dlq EXCEPT ![j] = TRUE]
  /\ UNCHANGED <<state, redelivered>>

\* A complete, a diverted and a parked job are left alone.
Redeliver(j) ==
  /\ ~dlq[j] /\ state[j] \in 0..(N - 1) \cup Reentered
  /\ redelivered' = redelivered \cup {j}
  /\ UNCHANGED <<state, dlq>>

Overwrite(j) ==
  /\ j \in redelivered
  /\ \/ /\ \E st \in 1..N \cup OffRamps : state' = [state EXCEPT ![j] = st]
        /\ UNCHANGED dlq
     \/ /\ dlq' = [dlq EXCEPT ![j] = TRUE]
        /\ UNCHANGED state
  /\ UNCHANGED redelivered

Writes(j) == Advance(j) \/ Divert(j) \/ Bury(j) \/ Overwrite(j)
Next == \E j \in Jobs : Writes(j) \/ Redeliver(j)

Spec == Init /\ [][Next]_vars

=============================================================================
