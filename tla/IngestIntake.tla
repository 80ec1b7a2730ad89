------------------------------ MODULE IngestIntake ------------------------------
(***************************************************************************)
(* POST /garments/ingest under one Idempotency-Key of one user: the claim  *)
(* in Redis (SET NX, then GET), the transaction that inserts the batch's   *)
(* garments, jobs and outbox rows, and the reply.  An attempt is one       *)
(* execution of the handler; it stands for the job ids it minted, so that  *)
(* a claim, a batch of jobs and a reply are all named by an attempt.  A    *)
(* client that gets no reply sends the request again: another attempt.     *)
(***************************************************************************)
EXTENDS Integers

CONSTANTS Attempts,     \* executions of the handler with this key
          Nobody,       \* no claim, no reply
          MaxExpiries   \* bound: times the claim outlives IDEMPOTENCY_TTL_SECONDS

ASSUME NobodyAssumption == Nobody \notin Attempts
ASSUME ExpiriesAssumption == MaxExpiries \in Nat

VARIABLES claim,     \* whose job ids are under the key in Redis
          inserted,  \* attempts whose batch is in the jobs table
          pc,        \* where each attempt is
          reply,     \* reply[a]: whose job ids a's client was given
          expiries

vars == <<claim, inserted, pc, reply, expiries>>

Places == {"start", "refused", "claimed", "answered", "failed"}

TypeOK ==
  /\ claim \in Attempts \cup {Nobody}
  /\ inserted \subseteq Attempts
  /\ pc \in [Attempts -> Places]
  /\ reply \in [Attempts -> Attempts \cup {Nobody}]
  /\ \A a \in Attempts : (pc[a] = "answered") <=> (reply[a] # Nobody)
  /\ expiries \in 0..MaxExpiries

Init ==
  /\ claim = Nobody /\ inserted = {}
  /\ pc = [a \in Attempts |-> "start"]
  /\ reply = [a \in Attempts |-> Nobody]
  /\ expiries = 0
--------------------------------------------------------------------------------
Goto(a, place) == pc' = [pc EXCEPT ![a] = place]

Answer(a, owner) ==
  /\ Goto(a, "answered")
  /\ reply' = [reply EXCEPT ![a] = owner]

\* claim_idempotency_key(): SET NX EX.
SetNx(a) ==
  /\ pc[a] = "start"
  /\ \/ claim = Nobody /\ claim' = a /\ Goto(a, "claimed")
     \/ claim # Nobody /\ claim' = claim /\ Goto(a, "refused")
  /\ UNCHANGED <<inserted, reply, expiries>>

\* ... and GET when the SET was refused: a claim that has expired in between
\* counts as a fresh one, anything else is a replay.
GetClaimIgnored(a) ==
  /\ pc[a] = "refused"
  /\ Answer(a, a)
  /\ UNCHANGED <<claim, inserted, expiries>>

GetClaim(a) ==
  /\ pc[a] = "refused"
  /\ \/ claim = Nobody /\ Goto(a, "claimed") /\ reply' = reply
     \/ claim # Nobody /\ Answer(a, claim)
  /\ UNCHANGED <<claim, inserted, expiries>>

\* The one transaction of the batch; UNIQUE (user_id, idempotency_key) makes it
\* fail when another batch of the key is there, and the handler with it.
Insert(a) ==
  /\ pc[a] = "claimed"
  /\ \/ inserted = {} /\ inserted' = {a} /\ Answer(a, a)
     \/ inserted # {} /\ Goto(a, "failed") /\ UNCHANGED <<inserted, reply>>
  /\ UNCHANGED <<claim, expiries>>

\* The process dies, or Redis or Postgres does not answer.
Die(a) ==
  /\ pc[a] \in {"start", "refused", "claimed"}
  /\ Goto(a, "failed")
  /\ UNCHANGED <<claim, inserted, reply, expiries>>

Expire ==
  /\ claim # Nobody
  /\ expiries < MaxExpiries
  /\ expiries' = expiries + 1
  /\ claim' = Nobody
  /\ UNCHANGED <<inserted, pc, reply>>

Next ==
  \/ \E a \in Attempts : SetNx(a) \/ GetClaim(a) \/ Insert(a) \/ Die(a)
  \/ Expire

Spec == Init /\ [][Next]_vars
--------------------------------------------------------------------------------
(* Within the TTL the same key gives the same job ids, whatever attempt    *)
(* dies where and however the attempts overlap (test_idempotency.py).      *)
SameAnswer ==
  \A a, b \in Attempts :
    pc[a] = "answered" /\ pc[b] = "answered" /\ expiries = 0 => reply[a] = reply[b]
================================================================================
