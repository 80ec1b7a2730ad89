------------------------------ MODULE OutboxRelay ------------------------------
(***************************************************************************)
(* The transactional outbox: an event row commits with the change that     *)
(* caused it (stylist_db/outbox.py), relay replicas claim unsent rows,     *)
(* enqueue an arq job per row and mark the rows sent                       *)
(* (stylist_worker/relay.py), and arq runs the jobs.                       *)
(*                                                                         *)
(* Rows are numbered in the order of created_at, which is the start of the *)
(* emitting transaction: they may commit in any other order.  A row that   *)
(* never commits is one whose transaction rolled back.  A job is named by  *)
(* the row it was made from, as its id outbox-<row> is.                    *)
(***************************************************************************)
EXTENDS Integers, FiniteSets, FiniteSetsExt

CONSTANTS Events,       \* outbox rows, numbered in the order of created_at
          Handled,      \* the rows whose event_type is in EVENT_HANDLERS
          Relays,       \* relay replicas (one cron task per worker process)
          Batch,        \* BATCH_LIMIT
          MaxDeaths,    \* bound: relay ticks and job executions cut short
          MaxForgets    \* bound: job results that outlive keep_result

ASSUME EventsAssumption == Events \subseteq Nat /\ IsFiniteSet(Events)
ASSUME HandledAssumption == Handled \subseteq Events
ASSUME RelayBounds == Batch \in Nat \ {0} /\ MaxDeaths \in Nat /\ MaxForgets \in Nat

VARIABLES committed,  \* rows of the outbox table visible to other transactions
          sent,       \* rows with sent_at set
          batch,      \* batch[r]: rows relay r holds locked in its open tick
          todo,       \* todo[r]: those of them it has not come to yet
          jobs,       \* jobs in arq's queue, running ones included
          running,    \* jobs a worker is executing
          kept,       \* finished jobs whose result arq still keeps
          done,       \* done[e]: completed executions of e's handler
          deaths, forgets

relayVars == <<committed, sent, batch, todo, jobs, running, kept, done, deaths, forgets>>
outbox == <<committed, sent>>
ticks == <<batch, todo>>
arq == <<jobs, running, kept, done>>

RelayTypeOK ==
  /\ committed \subseteq Events
  /\ sent \subseteq committed
  /\ batch \in [Relays -> SUBSET committed]
  /\ todo \in [Relays -> SUBSET committed]
  /\ \A r \in Relays : todo[r] \subseteq batch[r]
  /\ jobs \subseteq Handled
  /\ running \subseteq jobs
  /\ kept \subseteq Handled \ jobs
  /\ done \in [Events -> Nat]
  /\ deaths \in 0..MaxDeaths
  /\ forgets \in 0..MaxForgets

RelayInit ==
  /\ committed = {} /\ sent = {}
  /\ batch = [r \in Relays |-> {}] /\ todo = [r \in Relays |-> {}]
  /\ jobs = {} /\ running = {} /\ kept = {}
  /\ done = [e \in Events |-> 0]
  /\ deaths = 0 /\ forgets = 0
--------------------------------------------------------------------------------
(* emit(): the row commits with the caller's transaction. *)

Commit(e) ==
  /\ e \notin committed
  /\ committed' = committed \cup {e}
  /\ UNCHANGED <<sent, ticks, arq, deaths, forgets>>
--------------------------------------------------------------------------------
(* relay_outbox(): one tick of one replica. *)

Locked == UNION {batch[r] : r \in Relays}

\* CLAIM_BATCH_SQL: ORDER BY created_at, FOR UPDATE SKIP LOCKED, LIMIT.
Oldest(S) == {e \in S : Cardinality({f \in S : f < e}) < Batch}
ClaimableUncommitted == Events \ (sent \cup Locked)
Claimable == committed \ (sent \cup Locked)

Claim(r) ==
  /\ batch[r] = {}
  /\ Claimable # {}
  /\ batch' = [batch EXCEPT ![r] = Oldest(Claimable)]
  /\ todo' = [todo EXCEPT ![r] = Oldest(Claimable)]
  /\ UNCHANGED <<outbox, arq, deaths, forgets>>

\* arq's enqueue_job returns None while it knows the job id.
AcceptsFinished(e) == e \notin jobs
Accepts(e) == e \notin jobs \cup kept

\* The loop comes to the oldest row left; a row without a handler is skipped.
Publish(r) ==
  \E e \in todo[r] :
    /\ \A f \in todo[r] : e <= f
    /\ todo' = [todo EXCEPT ![r] = @ \ {e}]
    /\ jobs' = IF e \in Handled /\ Accepts(e) THEN jobs \cup {e} ELSE jobs
    /\ UNCHANGED <<outbox, batch, running, kept, done, deaths, forgets>>

\* MARK_SENT_SQL and the commit that releases the locks.
MarkSentBeforeLoop(r) ==
  /\ batch[r] # {}
  /\ sent' = sent \cup batch[r]
  /\ batch' = [batch EXCEPT ![r] = {}]
  /\ todo' = [todo EXCEPT ![r] = {}]
  /\ UNCHANGED <<committed, arq, deaths, forgets>>

MarkSent(r) ==
  /\ batch[r] # {}
  /\ todo[r] = {}
  /\ sent' = sent \cup batch[r]
  /\ batch' = [batch EXCEPT ![r] = {}]
  /\ UNCHANGED <<committed, todo, arq, deaths, forgets>>

\* The tick dies (an exception, a lost connection, the process): the
\* transaction rolls back, its locks go, what was enqueued stays enqueued.
TickDies(r) ==
  /\ batch[r] # {}
  /\ deaths < MaxDeaths
  /\ deaths' = deaths + 1
  /\ batch' = [batch EXCEPT ![r] = {}]
  /\ todo' = [todo EXCEPT ![r] = {}]
  /\ UNCHANGED <<outbox, arq, forgets>>
--------------------------------------------------------------------------------
(* arq, as the relay uses it. *)

StartJob(e) ==
  /\ e \in jobs \ running
  /\ running' = running \cup {e}
  /\ UNCHANGED <<outbox, ticks, jobs, kept, done, deaths, forgets>>

FinishJob(e) ==
  /\ e \in running
  /\ running' = running \ {e}
  /\ jobs' = jobs \ {e}
  /\ kept' = kept \cup {e}
  /\ done' = [done EXCEPT ![e] = @ + 1]
  /\ UNCHANGED <<outbox, ticks, deaths, forgets>>

\* The worker dies: the job stays in the queue and is executed again.
WorkerDies(e) ==
  /\ e \in running
  /\ deaths < MaxDeaths
  /\ deaths' = deaths + 1
  /\ running' = running \ {e}
  /\ UNCHANGED <<outbox, ticks, jobs, kept, done, forgets>>

\* keep_result has passed: the job id is no longer known.
Forget(e) ==
  /\ e \in kept
  /\ forgets < MaxForgets
  /\ forgets' = forgets + 1
  /\ kept' = kept \ {e}
  /\ UNCHANGED <<outbox, ticks, jobs, running, done, deaths>>
--------------------------------------------------------------------------------
Tick(r) == Claim(r) \/ Publish(r) \/ MarkSent(r)
Execute(e) == StartJob(e) \/ FinishJob(e)

RelayNext ==
  \/ \E e \in Events : Commit(e) \/ Execute(e) \/ WorkerDies(e) \/ Forget(e)
  \/ \E r \in Relays : Tick(r) \/ TickDies(r)

RelaySafe == RelayInit /\ [][RelayNext]_relayVars

\* Every replica's cron task ticks each second and arq runs what is queued.
\* Whether a transaction commits, a process dies or a result expires is open.
RelayFairness ==
  /\ \A r \in Relays : WF_relayVars(Tick(r))
  /\ \A e \in Events : WF_relayVars(Execute(e))

RelaySpec == RelaySafe /\ RelayFairness
--------------------------------------------------------------------------------
(* Work is never lost (relay.py, "WHY ENQUEUE BEFORE MARKING SENT"): a row *)
(* that is marked sent and has a handler is in the queue or has been       *)
(* executed to the end, whichever replica crashed between which steps.     *)
NothingLost == \A e \in sent \cap Handled : e \in jobs \/ done[e] > 0

(* Delivery is effectively exactly-once while arq remembers the job id     *)
(* (relay.py: "a re-delivered event cannot start a second pipeline"): no   *)
(* handler completes twice for one row.  The queue's memory is all there   *)
(* is: no consumer uses the processed_keys table relay.py speaks of.       *)
EffectivelyOnce == \A e \in Events : done[e] <= 1 + forgets

Status(e) ==
  IF e \notin committed THEN "absent"
  ELSE IF done[e] > 0 THEN "done"
  ELSE IF e \in jobs THEN "handed"
  ELSE IF e \in sent \ Handled THEN "dropped"
  ELSE "recorded"

Intent == INSTANCE DurableIntent WITH status <- [e \in Events |-> Status(e)]

(* The relay implements the durable intent: no intent skips the queue, is  *)
(* handed over before its transaction commits, or goes back.               *)
IntentSafe == Intent!Safe

(* Every committed intent is settled in the end: its handler completes, or *)
(* the row is dropped for want of one.                                     *)
IntentSpec == Intent!Spec
================================================================================
