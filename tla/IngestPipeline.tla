--------------------------- MODULE IngestPipeline ---------------------------
(***************************************************************************)
(* The durable ingest state machine of services/stylist_worker: the job    *)
(* row (state_machine.py), the worker slots that drive it (run_pipeline    *)
(* and ingest_photo) and the arq queue that hands jobs to the slots.       *)
(*                                                                         *)
(* A state of a job is an integer: 0 is "received", i in 1..N is the       *)
(* completed_state of the i-th stage (so N is "complete") and a negative   *)
(* number is an off-ramp.  state_rank() is then Max(state, -1).  Time is   *)
(* counted in whole units; a delay is a member of Delays.                  *)
(*                                                                         *)
(*   jobs row:   state, attempts, dlq, waited, deferrals                   *)
(*   garments:   marked, the off-ramp on the job's garment row, 0 for none *)
(*   arq:        queued and finished entries <<job, round>>; round 0 is    *)
(*               the relay's outbox entry, round n the n-th re-enqueue     *)
(*   slots:      run, what one call of ingest_photo holds in memory        *)
(*   history:    failed (stage errors raised), spent (time waited for a    *)
(*               dependency, in a slot or in the queue), crashes, aborts,  *)
(*               redelivered (jobs whose entry was run again after its     *)
(*               call had written its last)                                *)
(***************************************************************************)
EXTENDS Integers, FiniteSets

CONSTANTS
  Jobs,            \* ingest jobs
  Slots,           \* worker slots: WORKER_MAX_JOBS per replica
  N,               \* number of stages in INGEST_STAGES
  Terminates,      \* stage -> the off-ramps its Terminal may carry
  Flaky,           \* stages that can fail with an ordinary exception
  Dependent,       \* stages that can raise Unavailable
  Retryable,       \* stages with retryable=True
  MaxAttempts,     \* MAX_ATTEMPTS
  Budget,          \* UNAVAILABLE_BUDGET_SECONDS
  InProcess,       \* IN_PROCESS_WAIT_BUDGET_SECONDS
  Delays,          \* what `retry_after or backoff` may come to
  MaxCrashes,      \* bound: worker crashes and shutdowns; below arq's
                   \* max_tries of 5, so that arq never gives an entry up
  MaxAborts        \* bound: exceptions that escape ingest_photo

Stages == 1..N

REJECTED == -1
QUARANTINED == -2
NEEDS_REVIEW == -3
DEGRADED_TAGGED == -4
DUPLICATE_SUSPECT == -5
OffRamps == {REJECTED, QUARANTINED, NEEDS_REVIEW, DEGRADED_TAGGED,
             DUPLICATE_SUSPECT}
States == 0..N \cup OffRamps

\* TERMINAL_STATES: note that DEGRADED_TAGGED is not a member.
TerminalStates == {N} \cup (OffRamps \ {DEGRADED_TAGGED})

ASSUME StageAssumption ==
  /\ N \in Nat \ {0}
  /\ Terminates \in [Stages -> SUBSET OffRamps]
  /\ Flaky \subseteq Stages
  /\ Dependent \subseteq Stages
  /\ Retryable \subseteq Stages
ASSUME BudgetAssumption ==
  /\ MaxAttempts \in Nat \ {0}
  /\ Budget \in Nat \ {0}
  /\ InProcess \in Nat
  /\ Delays \subseteq Nat \ {0}
ASSUME BoundAssumption == MaxCrashes \in 0..4 /\ MaxAborts \in Nat

VARIABLES state, attempts, dlq, waited, deferrals, marked,
          delivered, queued, finished, run, failed, spent, crashes, aborts,
          redelivered

row == <<state, attempts, dlq, waited, deferrals, marked>>
queue == <<delivered, queued, finished>>
history == <<failed, spent, crashes, aborts, redelivered>>
vars == <<row, queue, run, history>>

-----------------------------------------------------------------------------
(* What a slot holds.  pc names the next database or queue step.           *)

PCs == {"begin", "stage", "failed", "ok", "park", "mark", "wait",
        "count", "enqueue", "dlq", "return"}

Idle == [pc |-> "idle"]
Busy ==
  [pc : PCs,
   job : Jobs, round : Nat,
   cur : States,          \* current_state
   att : Nat,             \* attempt, in _run_stage_with_retry
   before : Nat,          \* waited_before
   inproc : Nat,          \* waited_in_process
   delay : Nat,           \* Deferred.delay
   off : OffRamps,        \* Terminal.state
   target : Nat]          \* round_no, in ingest_photo

Ready == {s \in Slots : run[s].pc # "idle"}
Entry(s) == <<run[s].job, run[s].round>>

\* state_rank(), and the stage whose turn it is.
Rank(st) == IF st >= 0 THEN st ELSE -1
NextStage(st) == IF st >= 0 THEN st + 1 ELSE 1
StageOf(s) == NextStage(run[s].cur)

\* max_attempts: one try for a stage that is not retryable.
Limit(i) == IF i \in Retryable THEN MaxAttempts ELSE 1

\* Every arq id ever used and not forgotten: enqueue_job refuses these.
Known == queued \cup finished \cup {Entry(s) : s \in Ready}

Goto(s, pc) == run' = [run EXCEPT ![s].pc = pc]

\* The slot's call returns or raises: arq files the result under its id.
Release(s) ==
  /\ finished' = finished \cup {Entry(s)}
  /\ run' = [run EXCEPT ![s] = Idle]

Init ==
  /\ state = [j \in Jobs |-> 0]
  /\ attempts = [j \in Jobs |-> [i \in Stages |-> 0]]
  /\ dlq = [j \in Jobs |-> FALSE]
  /\ waited = [j \in Jobs |-> 0]
  /\ deferrals = [j \in Jobs |-> 0]
  /\ marked = [j \in Jobs |-> 0]
  /\ delivered = [j \in Jobs |-> FALSE]
  /\ queued = {}
  /\ finished = {}
  /\ run = [s \in Slots |-> Idle]
  /\ failed = [j \in Jobs |-> [i \in Stages |-> 0]]
  /\ spent = [j \in Jobs |-> 0]
  /\ crashes = 0
  /\ aborts = 0
  /\ redelivered = {}

-----------------------------------------------------------------------------
(* The queue.                                                              *)

\* The relay hands the job over under the id of its outbox row.
Deliver(j) ==
  /\ ~delivered[j]
  /\ delivered' = [delivered EXCEPT ![j] = TRUE]
  /\ queued' = queued \cup {<<j, 0>>}
  /\ UNCHANGED <<row, finished, run, history>>

\* load_job finds the job in the DLQ or terminal: nothing to do.
Skip(s, j, n) ==
  /\ run[s] = Idle /\ <<j, n>> \in queued
  /\ dlq[j] \/ state[j] \in TerminalStates
  /\ queued' = queued \ {<<j, n>>}
  /\ finished' = finished \cup {<<j, n>>}
  /\ UNCHANGED <<row, delivered, run, history>>

TakeEntry(s, j, n, st) ==
  /\ run[s] = Idle /\ <<j, n>> \in queued
  /\ queued' = queued \ {<<j, n>>}
  /\ run' = [run EXCEPT ![s] =
       [pc |-> "begin", job |-> j, round |-> n, cur |-> st, att |-> 0,
        before |-> 0, inproc |-> 0, delay |-> 0, off |-> REJECTED, target |-> 0]]
  /\ UNCHANGED <<row, delivered, finished, history>>

\* Mutants: start over at the top; no test for TERMINAL_STATES.
StartFromTop(s, j, n) ==
  ~dlq[j] /\ state[j] \notin TerminalStates /\ TakeEntry(s, j, n, 0)

\* load_job returns the row and run_pipeline starts from its state.
Start(s, j, n) ==
  ~dlq[j] /\ state[j] \notin TerminalStates /\ TakeEntry(s, j, n, state[j])

\* Nothing is left to write for the entry a slot holds, or only the mark on the
\* garment; still a call that ran the entry again would find work to do.
CutAtTheEnd(s) ==
  /\ run[s].pc \in {"mark", "return"}
  /\ ~dlq[run[s].job] /\ state[run[s].job] \notin TerminalStates

\* The worker dies or is shut down: arq runs the same entry again.
Crash(s) ==
  /\ run[s].pc # "idle" /\ crashes < MaxCrashes
  /\ crashes' = crashes + 1
  /\ redelivered' = IF CutAtTheEnd(s) THEN redelivered \cup {run[s].job} ELSE redelivered
  /\ queued' = queued \cup {Entry(s)}
  /\ run' = [run EXCEPT ![s] = Idle]
  /\ UNCHANGED <<row, delivered, finished, failed, spent, aborts>>

\* An exception that run_pipeline does not catch (a failed bookkeeping
\* write, arq's job timeout): arq files the entry as done and retries
\* nothing.
Abort(s) ==
  /\ run[s].pc # "idle" /\ aborts < MaxAborts
  /\ aborts' = aborts + 1
  /\ Release(s)
  /\ UNCHANGED <<row, delivered, queued, failed, spent, crashes, redelivered>>

-----------------------------------------------------------------------------
(* run_pipeline and _run_stage_with_retry.                                 *)

BeginWith(s, a, w) ==
  /\ run[s].pc = "begin"
  /\ run' = [run EXCEPT ![s] = [@ EXCEPT
       !.pc = IF a < Limit(StageOf(s)) THEN "stage" ELSE "dlq",
       !.att = a, !.before = w, !.inproc = 0]]
  /\ UNCHANGED <<row, queue, history>>

\* Mutant: the wait counted from zero in every call.
BeginFreshWait(s) == BeginWith(s, attempts[run[s].job][StageOf(s)], 0)

\* _attempts_for and _dependency_wait_for, then the loop's first test.
BeginStage(s) ==
  BeginWith(s, attempts[run[s].job][StageOf(s)], waited[run[s].job])

StageSucceeds(s) ==
  /\ run[s].pc = "stage"
  /\ Goto(s, "ok")
  /\ UNCHANGED <<row, queue, history>>

StageTerminal(s) ==
  /\ run[s].pc = "stage"
  /\ \E t \in Terminates[StageOf(s)] :
       run' = [run EXCEPT ![s] = [@ EXCEPT !.pc = "park", !.off = t]]
  /\ UNCHANGED <<row, queue, history>>

StageFails(s) ==
  LET j == run[s].job
      i == StageOf(s)
  IN /\ run[s].pc = "stage" /\ i \in Flaky
     /\ failed' = [failed EXCEPT ![j][i] = @ + 1]
     /\ Goto(s, "failed")
     /\ UNCHANGED <<row, queue, spent, crashes, aborts, redelivered>>

\* _record_attempt: the count is in the row before the next try.
RecordAttempt(s) ==
  LET j == run[s].job
      i == StageOf(s)
      a == run[s].att + 1
  IN /\ run[s].pc = "failed"
     /\ attempts' = [attempts EXCEPT ![j][i] = a]
     /\ run' = [run EXCEPT ![s] = [@ EXCEPT
          !.att = a, !.pc = IF a < Limit(i) THEN "stage" ELSE "dlq"]]
     /\ UNCHANGED <<state, dlq, waited, deferrals, marked, queue, history>>

\* Unavailable: out of budget, a short wait in the slot, or a deferral.
StageUnavailable(s) ==
  LET i == StageOf(s)
      total == run[s].before + run[s].inproc
  IN /\ run[s].pc = "stage" /\ i \in Dependent
     /\ \/ /\ i \notin Retryable \/ total >= Budget
           /\ Goto(s, "dlq")
           /\ UNCHANGED spent
        \/ /\ i \in Retryable /\ total < Budget
           /\ \E d \in Delays :
                LET w == IF d <= Budget - total THEN d ELSE Budget - total
                IN IF run[s].inproc + w <= InProcess
                   THEN /\ run' = [run EXCEPT ![s].inproc = @ + w]
                        /\ spent' = [spent EXCEPT ![run[s].job] = @ + w]
                   ELSE /\ run' = [run EXCEPT ![s] =
                             [@ EXCEPT !.pc = "wait", !.delay = w]]
                        /\ UNCHANGED spent
     /\ UNCHANGED <<row, queue, failed, crashes, aborts, redelivered>>

RecordWaitAnd(s, more) ==
  LET j == run[s].job
  IN /\ run[s].pc = "wait"
     /\ waited' = [waited EXCEPT ![j] = run[s].before + run[s].inproc + run[s].delay]
     /\ deferrals' = [deferrals EXCEPT ![j] = @ + more]
     /\ spent' = [spent EXCEPT ![j] = @ + run[s].delay]
     /\ Goto(s, "count")
     /\ UNCHANGED <<state, attempts, dlq, marked, queue, failed, crashes, aborts, redelivered>>

\* Mutant: the deferral is not counted.
RecordWaitOnly(s) == RecordWaitAnd(s, 0)

\* _record_dependency_wait: one statement for the wait and the counter.
RecordWait(s) == RecordWaitAnd(s, 1)

TakeRound(s, n) ==
  /\ run[s].pc = "count"
  /\ run' = [run EXCEPT ![s] = [@ EXCEPT !.pc = "enqueue", !.target = n]]
  /\ UNCHANGED <<row, queue, history>>

\* ingest_photo: deferral_count(), in its own transaction.
ReadRound(s) == TakeRound(s, deferrals[run[s].job])

Enqueue(s, e) ==
  /\ run[s].pc = "enqueue"
  /\ queued' = IF e \in Known THEN queued ELSE queued \cup {e}
  /\ Goto(s, "return")
  /\ UNCHANGED <<row, delivered, finished, history>>

\* Mutant: under the id of the running entry.
RequeueSameId(s) == Enqueue(s, Entry(s))

\* enqueue_job under "defer-{job}-{round}": refused when the id is known.
Requeue(s) == Enqueue(s, <<run[s].job, run[s].target>>)

CompleteAs(s, st, i) ==
  /\ run[s].pc = "ok"
  /\ state' = [state EXCEPT ![run[s].job] = st]
  /\ run' = [run EXCEPT ![s] = [@ EXCEPT
       !.cur = i, !.pc = IF i = N THEN "return" ELSE "begin"]]
  /\ UNCHANGED <<attempts, dlq, waited, deferrals, marked, queue, history>>

\* _transition to the stage's completed state; the loop goes on.
Transition(s) == CompleteAs(s, StageOf(s), StageOf(s))

ParkThen(s, pc) ==
  /\ run[s].pc = "park"
  /\ state' = [state EXCEPT ![run[s].job] = run[s].off]
  /\ Goto(s, pc)
  /\ UNCHANGED <<attempts, dlq, waited, deferrals, marked, queue, history>>

\* Mutant: the job row alone takes the off-ramp.
ParkOnly(s) == ParkThen(s, "return")

\* Terminal: _transition to the off-ramp ...
Park(s) == ParkThen(s, "mark")

\* ... and mark_garment_state, in a second transaction.
MarkGarment(s) ==
  /\ run[s].pc = "mark"
  /\ marked' = [marked EXCEPT ![run[s].job] = run[s].off]
  /\ Goto(s, "return")
  /\ UNCHANGED <<state, attempts, dlq, waited, deferrals, queue, history>>

\* Exhausted: _to_dlq leaves the state at the last good value.
ToDlq(s) ==
  /\ run[s].pc = "dlq"
  /\ dlq' = [dlq EXCEPT ![run[s].job] = TRUE]
  /\ Goto(s, "return")
  /\ UNCHANGED <<state, attempts, waited, deferrals, marked, queue, history>>

Return(s) ==
  /\ run[s].pc = "return"
  /\ Release(s)
  /\ UNCHANGED <<row, delivered, queued, history>>

-----------------------------------------------------------------------------
Pick(s) == \E e \in queued : Skip(s, e[1], e[2]) \/ Start(s, e[1], e[2])

RunStage(s) ==
  \/ StageSucceeds(s) \/ StageTerminal(s) \/ StageFails(s) \/ StageUnavailable(s)

Bookkeep(s) ==
  \/ BeginStage(s) \/ RecordAttempt(s) \/ RecordWait(s) \/ ReadRound(s)
  \/ Requeue(s) \/ Transition(s) \/ Park(s) \/ MarkGarment(s) \/ ToDlq(s)
  \/ Return(s)

Next ==
  \/ \E j \in Jobs : Deliver(j)
  \/ \E s \in Slots : Pick(s) \/ RunStage(s) \/ Bookkeep(s) \/ Crash(s) \/ Abort(s)

Spec == Init /\ [][Next]_vars

\* The relay ticks, arq polls and a running call makes progress.  Nothing
\* forces a stage to succeed, a crash or an abort.
Fairness ==
  /\ \A j \in Jobs : WF_vars(Deliver(j))
  /\ \A s \in Slots : WF_vars(Pick(s)) /\ WF_vars(RunStage(s)) /\ WF_vars(Bookkeep(s))

FairSpec == Spec /\ Fairness

-----------------------------------------------------------------------------
(* Properties.                                                             *)

TypeOK ==
  /\ state \in [Jobs -> States]
  /\ attempts \in [Jobs -> [Stages -> Nat]]
  /\ dlq \in [Jobs -> BOOLEAN]
  /\ waited \in [Jobs -> Nat]
  /\ deferrals \in [Jobs -> Nat]
  /\ marked \in [Jobs -> OffRamps \cup {0}]
  /\ delivered \in [Jobs -> BOOLEAN]
  /\ queued \subseteq Jobs \X Nat
  /\ finished \subseteq Jobs \X Nat
  /\ run \in [Slots -> Busy \cup {Idle}]
  /\ failed \in [Jobs -> [Stages -> Nat]]
  /\ spent \in [Jobs -> Nat]
  /\ crashes \in Nat
  /\ aborts \in Nat
  /\ redelivered \subseteq Jobs

\* Nothing has to drive the job any further.
Settled(j) == dlq[j] \/ state[j] \in TerminalStates \cup {DEGRADED_TAGGED}

\* A slot whose call will still move the job on or put it back on the
\* queue: the last chance is the step that files the next round.
Carries(s, j) ==
  /\ run[s].pc \in PCs \ {"mark", "return"}
  /\ run[s].job = j
  /\ run[s].pc = "count" => <<j, deferrals[j]>> \notin Known
  /\ run[s].pc = "enqueue" => <<j, run[s].target>> \notin Known

\* A slot that is not about to return has a stage to run.
Working == \A s \in Ready : run[s].pc = "return" \/ run[s].cur # N

\* No job is forgotten: until it is settled, a job is waiting for the relay,
\* queued in arq, or in the hands of a slot that will settle or re-enqueue
\* it.  Hazard: the re-enqueue happens under an id that arq may already
\* know, and then silently nothing is queued (_record_dependency_wait and
\* ingest_photo on why the round number is in the id).
NoLostJob ==
  \A j \in Jobs :
    \/ Settled(j) \/ ~delivered[j]
    \/ \E e \in queued : e[1] = j
    \/ \E s \in Slots : Carries(s, j)

\* What makes NoLostJob inductive: no round beyond the row's counter exists.
RoundsCounted ==
  /\ \A e \in Known : e[2] <= deferrals[e[1]]
  /\ \A s \in Ready : run[s].target <= deferrals[run[s].job]

\* A restart gives no fresh budget, and the DLQ stays reachable: over all the
\* calls a job has had, a stage has raised at most its limit of errors, and one
\* more for each crash that hit before _record_attempt; and beyond the budget
\* of waiting in the row there is only what a stage (or a crashed call) spent
\* in its slot without a deferral to persist it.
RetriesBounded ==
  \A j \in Jobs :
    /\ \A i \in Stages : failed[j][i] <= Limit(i) + crashes
    /\ spent[j] <= Budget + InProcess * (Cardinality(Dependent) + crashes)

\* An off-ramped job shows on its garment row as soon as nothing is left that
\* could write it: no slot between the two transactions, no entry in the
\* queue (run_pipeline on why mark_garment_state is called).
OffRampShown ==
  \A j \in Jobs :
    state[j] \in OffRamps =>
      \/ marked[j] = state[j]
      \/ \E s \in Ready : run[s].job = j
      \/ \E e \in queued : e[1] = j

\* Every job comes to rest, and stays there: completed, diverted or in the
\* DLQ, whatever its dependencies and the workers do.
EventuallySettled == \A j \in Jobs : <>[]Settled(j)

\* The job rows implement the abstract lifecycle: stages complete one by one
\* in order and an end is final, with two calls at hand, deferrals, errors and
\* crashes; only a job that is redelivered may go back.  Hazard: no write of
\* the row has a guard, so it rests on no two calls driving a job at once.
Lifecycle == INSTANCE JobLifecycle WITH Reentered <- {DEGRADED_TAGGED}
LifecycleSafe == Lifecycle!Spec

=============================================================================
