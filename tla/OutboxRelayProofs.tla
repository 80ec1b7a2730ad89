--------------------------- MODULE OutboxRelayProofs ---------------------------
(* Proofs about OutboxRelay, for every value of its constants.             *)
EXTENDS OutboxRelay, TLAPS

\* A row a tick has passed is in the queue or has been executed, only executed
\* jobs have a result to keep, and jobs are made from committed rows.
Passed ==
  /\ jobs \subseteq committed
  /\ \A e \in Events : done[e] > 0 => e \in committed \cap Handled
  /\ \A r \in Relays : \A e \in (batch[r] \ todo[r]) \cap Handled : e \in jobs \/ done[e] > 0
  /\ \A e \in kept : done[e] > 0

RelayInv == RelayTypeOK /\ Passed /\ NothingLost

LEMMA InitRelay == RelayInit => RelayInv
BY RelayBounds DEF RelayInit, RelayInv, RelayTypeOK, Passed, NothingLost

LEMMA NextRelay == RelayInv /\ [RelayNext]_relayVars => RelayInv'
<1> SUFFICES ASSUME RelayInv, [RelayNext]_relayVars PROVE RelayInv'
  OBVIOUS
<1> USE HandledAssumption, RelayBounds
        DEF RelayInv, RelayTypeOK, Passed, NothingLost, outbox, ticks, arq
<1>1. ASSUME NEW e \in Events, Commit(e) PROVE RelayInv'
  BY <1>1 DEF Commit
<1>2. ASSUME NEW r \in Relays, Claim(r) PROVE RelayInv'
  <2>1. Oldest(Claimable) \subseteq committed
    BY DEF Oldest, Claimable
  <2>2. batch' \in [Relays -> SUBSET committed] /\ todo' \in [Relays -> SUBSET committed]
    BY <1>2, <2>1 DEF Claim
  <2>3. \A q \in Relays : \/ batch'[q] = todo'[q]
                          \/ batch'[q] = batch[q] /\ todo'[q] = todo[q]
    BY <1>2 DEF Claim
  <2> QED
    BY <1>2, <2>2, <2>3 DEF Claim
<1>3. ASSUME NEW r \in Relays, Publish(r) PROVE RelayInv'
  <2>1. PICK e \in todo[r] :
          /\ todo' = [todo EXCEPT ![r] = @ \ {e}]
          /\ jobs' = IF e \in Handled /\ Accepts(e) THEN jobs \cup {e} ELSE jobs
          /\ UNCHANGED <<outbox, batch, running, kept, done, deaths, forgets>>
    BY <1>3 DEF Publish
  <2>2. e \in Handled => e \in jobs' \/ done[e] > 0
    BY <2>1 DEF Accepts
  <2>3. jobs \subseteq jobs' /\ jobs' \subseteq Handled /\ kept \cap jobs' = {}
    BY <2>1 DEF Accepts
  <2>4. RelayTypeOK'
    BY <2>1, <2>3
  <2>5. \A q \in Relays : batch'[q] \ todo'[q] \subseteq (batch[q] \ todo[q]) \cup {e}
    BY <2>1
  <2> QED
    BY <2>1, <2>2, <2>3, <2>4, <2>5
<1>4. ASSUME NEW r \in Relays, MarkSent(r) PROVE RelayInv'
  BY <1>4 DEF MarkSent
<1>5. ASSUME NEW r \in Relays, TickDies(r) PROVE RelayInv'
  BY <1>5 DEF TickDies
<1>6. ASSUME NEW e \in Events, StartJob(e) PROVE RelayInv'
  BY <1>6 DEF StartJob
<1>7. ASSUME NEW e \in Events, FinishJob(e) PROVE RelayInv'
  <2>1. done' \in [Events -> Nat] /\ done'[e] > 0
        /\ \A f \in Events : done[f] > 0 => done'[f] > 0
    BY <1>7 DEF FinishJob
  <2>2. jobs' = jobs \ {e} /\ kept' = kept \cup {e} /\ e \in Handled
    BY <1>7 DEF FinishJob
  <2> QED
    BY <1>7, <2>1, <2>2 DEF FinishJob
<1>8. ASSUME NEW e \in Events, WorkerDies(e) PROVE RelayInv'
  BY <1>8 DEF WorkerDies
<1>9. ASSUME NEW e \in Events, Forget(e) PROVE RelayInv'
  BY <1>9 DEF Forget
<1>10. CASE UNCHANGED relayVars
  BY <1>10 DEF relayVars
<1> QED
  BY <1>1, <1>2, <1>3, <1>4, <1>5, <1>6, <1>7, <1>8, <1>9, <1>10
  DEF RelayNext, Tick, Execute

LEMMA SafeKeepsInv == RelaySafe => []RelayInv
BY InitRelay, NextRelay, PTL DEF RelaySafe

(* However many replicas tick, crash and overlap, and however large the    *)
(* batch, no row of relay_outbox is marked sent without its job.           *)
THEOREM WorkIsNotLost == RelaySafe => []NothingLost
<1>1. RelayInv => NothingLost
  BY DEF RelayInv
<1> QED
  BY SafeKeepsInv, <1>1, PTL
\* A row is executed once more than its result has been forgotten, at most,
\* and that only while the last result is kept.
OnceInv == \A e \in Events : done[e] <= forgets + (IF e \in kept THEN 1 ELSE 0)

LEMMA NextOnce ==
  ASSUME RelayInv, OnceInv, [RelayNext]_relayVars
  PROVE  OnceInv'
<1> USE RelayBounds DEF OnceInv, RelayInv, RelayTypeOK, outbox, ticks, arq
<1>1. ASSUME UNCHANGED <<forgets, done, kept>> PROVE OnceInv'
  BY <1>1
<1>2. ASSUME NEW e \in Events, FinishJob(e) PROVE OnceInv'
  <2>1. e \notin kept /\ done[e] <= forgets /\ forgets' = forgets
    BY <1>2 DEF FinishJob
  <2> QED
    BY <1>2, <2>1 DEF FinishJob
<1>3. ASSUME NEW e \in Events, Forget(e) PROVE OnceInv'
  <2>1. forgets' = forgets + 1 /\ kept' = kept \ {e} /\ done' = done
    BY <1>3 DEF Forget
  <2>2. \A f \in Events : done[f] \in Nat /\ forgets \in Nat
    OBVIOUS
  <2> QED
    BY <2>1, <2>2
<1> QED
  BY <1>1, <1>2, <1>3
  DEF RelayNext, Tick, Execute, relayVars, Commit, Claim, Publish, MarkSent, TickDies, StartJob, WorkerDies

(* As long as arq still knows the job ids, no crash or overlap of replicas *)
(* makes the handler of one row of relay_outbox complete twice.            *)
THEOREM HandlersCompleteOnce == RelaySafe => []EffectivelyOnce
<1>1. RelayInit => OnceInv
  BY DEF RelayInit, OnceInv
<1>2. RelayInv /\ OnceInv /\ [RelayNext]_relayVars => OnceInv'
  BY NextOnce
<1>3. RelayInv /\ OnceInv => EffectivelyOnce
  BY DEF OnceInv, EffectivelyOnce, RelayInv, RelayTypeOK
<1> QED
  BY SafeKeepsInv, <1>1, <1>2, <1>3, PTL DEF RelaySafe
--------------------------------------------------------------------------------
(* The refinement of DurableIntent: what one step does to each status.     *)

st == [e \in Events |-> Status(e)]

\* A row none of whose facts change keeps its status.
LEMMA StatusKept ==
  ASSUME NEW e \in Events,
         (e \in committed) <=> (e \in committed'),
         (done[e] > 0) <=> (done'[e] > 0),
         (e \in jobs) <=> (e \in jobs'),
         (e \in sent \ Handled) <=> (e \in sent' \ Handled)
  PROVE  Status(e)' = Status(e)
BY DEF Status

\* A step that changes the status of one row is an abstract move of it.
LEMMA OneRowMoves ==
  ASSUME NEW e \in Events, NEW from, NEW to,
         st[e] = from, st'[e] = to,
         \A f \in Events \ {e} : Status(f)' = Status(f)
  PROVE  st[e] = from /\ st' = [st EXCEPT ![e] = to]
BY DEF st

LEMMA InitIntent == RelayInit => Intent!Init
BY DEF RelayInit, Intent!Init, Status

LEMMA NextIntent == RelayInv /\ RelayInv' /\ [RelayNext]_relayVars => [Intent!Next]_st
<1> SUFFICES ASSUME RelayInv, RelayInv', [RelayNext]_relayVars PROVE Intent!Next \/ st' = st
  OBVIOUS
<1> USE HandledAssumption DEF outbox, ticks, arq
<1> RelayTypeOK /\ RelayTypeOK' /\ Passed
  BY DEF RelayInv
<1>0. ASSUME UNCHANGED <<committed, sent, jobs, done>> PROVE st' = st
  BY <1>0, StatusKept DEF st
<1>1. ASSUME NEW e \in Events, Commit(e) PROVE Intent!Next
  <2>1. Status(e) = "absent" /\ Status(e)' = "recorded"
    BY <1>1 DEF Commit, Status, RelayTypeOK, Passed
  <2>2. \A f \in Events \ {e} : Status(f)' = Status(f)
    BY <1>1, StatusKept DEF Commit
  <2> QED
    BY <2>1, <2>2, OneRowMoves DEF Intent!Next, Intent!Record, Intent!Move, st
<1>2. ASSUME NEW r \in Relays, Claim(r) PROVE st' = st
  BY <1>0, <1>2 DEF Claim
<1>3. ASSUME NEW r \in Relays, Publish(r) PROVE Intent!Next \/ st' = st
  <2>1. PICK e \in todo[r] :
          /\ jobs' = IF e \in Handled /\ Accepts(e) THEN jobs \cup {e} ELSE jobs
          /\ UNCHANGED <<committed, sent, done>>
    BY <1>3 DEF Publish
  <2>2. CASE jobs' = jobs
    BY <1>0, <2>1, <2>2
  <2>3. CASE done[e] > 0
    <3>1. \A f \in Events : Status(f)' = Status(f)
      BY <2>1, <2>3 DEF Status
    <3> QED
      BY <3>1 DEF st
  <2>4. CASE jobs' # jobs /\ ~(done[e] > 0)
    <3>1. e \in Handled /\ e \in Events /\ e \notin jobs /\ e \in committed
          /\ jobs' = jobs \cup {e}
      BY <2>1, <2>4 DEF Accepts, RelayTypeOK
    <3>2. Status(e) = "recorded" /\ Status(e)' = "handed"
      BY <2>1, <2>4, <3>1 DEF Status
    <3>3. \A f \in Events \ {e} : Status(f)' = Status(f)
      BY <2>1, <3>1, StatusKept
    <3> QED
      BY <3>1, <3>2, <3>3, OneRowMoves DEF Intent!Next, Intent!Hand, Intent!Move, st
  <2> QED
    BY <2>2, <2>3, <2>4
<1>4. ASSUME NEW r \in Relays, MarkSent(r) PROVE Intent!Next \/ st' = st
  <2> DEFINE S == {e \in Events : Status(e) = "recorded" /\ Status(e)' # Status(e)}
  <2>1. sent' = sent \cup batch[r] /\ UNCHANGED <<committed, jobs, done>>
    BY <1>4 DEF MarkSent
  <2>2. \A e \in Events : e \in S => e \notin Handled /\ Status(e)' = "dropped"
    BY <2>1 DEF Status
  <2>3. \A e \in Events : e \notin S => Status(e)' = Status(e)
    BY <2>1 DEF Status
  <2>4. st' = [e \in Events |-> IF e \in S THEN "dropped" ELSE st[e]]
    BY <2>2, <2>3 DEF st
  <2>5. CASE S = {}
    BY <2>4, <2>5 DEF st
  <2>6. CASE S # {}
    <3>1. Intent!Drop(S)
      BY <2>2, <2>4, <2>6 DEF Intent!Drop, st
    <3> QED
      BY <3>1 DEF Intent!Next
  <2> QED
    BY <2>5, <2>6
<1>5. ASSUME NEW r \in Relays, TickDies(r) PROVE st' = st
  BY <1>0, <1>5 DEF TickDies
<1>6. ASSUME NEW e \in Events, StartJob(e) PROVE st' = st
  BY <1>0, <1>6 DEF StartJob
<1>7. ASSUME NEW e \in Events, FinishJob(e) PROVE Intent!Next \/ st' = st
  <2>1. e \in jobs /\ jobs' = jobs \ {e} /\ done'[e] > 0
        /\ \A f \in Events \ {e} : done'[f] = done[f]
    BY <1>7 DEF FinishJob, RelayTypeOK
  <2>2. UNCHANGED <<committed, sent>> /\ e \in committed
    BY <1>7, <2>1 DEF FinishJob, Passed
  <2>3. \A f \in Events \ {e} : Status(f)' = Status(f)
    BY <2>1, <2>2, StatusKept
  <2>4. Status(e)' = "done" /\ Status(e) \in {"handed", "done"}
    BY <2>1, <2>2 DEF Status
  <2>5. CASE Status(e) = "done"
    BY <2>3, <2>4, <2>5 DEF st
  <2>6. CASE Status(e) = "handed"
    BY <2>3, <2>4, <2>6, OneRowMoves DEF Intent!Next, Intent!Complete, Intent!Move, st
  <2> QED
    BY <2>4, <2>5, <2>6
<1>8. ASSUME NEW e \in Events, WorkerDies(e) PROVE st' = st
  BY <1>0, <1>8 DEF WorkerDies
<1>9. ASSUME NEW e \in Events, Forget(e) PROVE st' = st
  BY <1>0, <1>9 DEF Forget
<1>10. CASE UNCHANGED relayVars
  BY <1>0, <1>10 DEF relayVars
<1> QED
  BY <1>1, <1>2, <1>3, <1>4, <1>5, <1>6, <1>7, <1>8, <1>9, <1>10
  DEF RelayNext, Tick, Execute

(* OutboxRelay implements DurableIntent: every step of emit, relay_outbox  *)
(* and arq is a step of the intent, or changes nothing it speaks of.       *)
THEOREM RelayImplementsIntent == RelaySafe => IntentSafe
<1>1. RelayInit => Intent!Init
  BY InitIntent
<1>2. RelayInv /\ RelayInv' /\ [RelayNext]_relayVars => [Intent!Next]_st
  BY NextIntent
<1> QED
  BY SafeKeepsInv, <1>1, <1>2, PTL DEF RelaySafe, IntentSafe, Intent!Safe, st
================================================================================
