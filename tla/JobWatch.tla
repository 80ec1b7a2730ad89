--------------------------------- MODULE JobWatch ------------------------------
(* GET /jobs/{id}/events: a stream of polls over a job that moves as JobLifecycle
   allows, back and forth once it was delivered again, while attempts and waits are
   recorded on it, and until its row is gone. *)
EXTENDS Naturals, Integers, Sequences

CONSTANTS
  JobStages, JobOffRamps,   \* as in JobLifecycle
  NotTerminal,              \* the off-ramp the stream does not take for an end
  MaxPolls,                 \* sse_max_stream_seconds / sse_poll_interval_seconds
  MaxStreams, MaxWrites     \* bounds

ASSUME WatchAssumption ==
  /\ JobStages \in Nat /\ MaxPolls \in Nat
  /\ JobOffRamps \subseteq Int /\ JobOffRamps \cap 0..JobStages = {} /\ -100 \notin JobOffRamps
  /\ NotTerminal \in JobOffRamps

VARIABLES
  jobState, jobDlq,         \* of the one job, a function on {"job"}
  jobAgain,                 \* {"job"} once it was delivered again, else {}
  jobWrites,                \* writes of the row: updated_at, with it last_error
  jobThere,
  stream                    \* [at, snap, again, last, polls, closed]: at is "off",
                            \* "telling", "asleep"; again: jobAgain at the read

\* What clients saw so far.
VARIABLES heard, streams

watchVars == <<jobState, jobDlq, jobAgain, jobWrites, jobThere, stream, heard, streams>>
jobRow == <<jobState, jobDlq, jobAgain, jobWrites, jobThere>>

Lifecycle == INSTANCE JobLifecycle
  WITH Jobs <- {"job"}, N <- JobStages, OffRamps <- JobOffRamps, Reentered <- {NotTerminal},
       state <- jobState, dlq <- jobDlq, redelivered <- jobAgain

NoSnap == [state |-> -100, dlq |-> FALSE, updated |-> 0]
Closed == [at |-> "off", snap |-> NoSnap, again |-> FALSE, last |-> NoSnap, polls |-> 0,
           closed |-> "no"]

WatchInit ==
  /\ Lifecycle!Init /\ jobWrites = 0 /\ jobThere = TRUE
  /\ stream = Closed /\ heard = <<>> /\ streams = 0

\* Every UPDATE of the row sets updated_at.
Stamped ==
  /\ jobThere /\ jobWrites < MaxWrites /\ jobWrites' = jobWrites + 1
  /\ UNCHANGED <<jobThere, stream, heard, streams>>

\* _transition and _to_dlq, without a look at what the row says.
JobMoves == Stamped /\ Lifecycle!Writes("job")

JobDeliveredAgain ==
  /\ jobThere /\ Lifecycle!Redeliver("job")
  /\ UNCHANGED <<jobWrites, jobThere, stream, heard, streams>>

\* _record_attempt and _record_dependency_wait of a call that has the job.
RecordOnJob ==
  /\ Stamped /\ (Lifecycle!Open("job") \/ jobAgain # {})
  /\ UNCHANGED <<jobState, jobDlq, jobAgain>>

JobDeleted ==
  /\ jobThere /\ jobThere' = FALSE
  /\ UNCHANGED <<jobState, jobDlq, jobAgain, jobWrites, stream, heard, streams>>

Snapshot == [state |-> jobState["job"], dlq |-> jobDlq["job"], updated |-> jobWrites]
Looked(s, at) == [s EXCEPT !.at = at, !.snap = Snapshot, !.again = jobAgain # {}]

\* An unknown job is a 404, before any stream; GET /jobs/{id} answers likewise.
Connect ==
  /\ stream.at = "off" /\ jobThere /\ streams < MaxStreams
  /\ streams' = streams + 1
  /\ stream' = Looked(Closed, "telling")
  /\ UNCHANGED <<jobRow, heard>>

\* What taking the last stage but one for the end would do.
TakenEarly(snap) == snap.dlq \/ snap.state \in {JobStages - 1, JobStages} \cup JobOffRamps

\* TERMINAL_JOB_STATES, or parked.
TakenForEnd(snap) ==
  \/ snap.dlq
  \/ snap.state = JobStages
  \/ snap.state \in JobOffRamps \ {NotTerminal}

\* The snapshot if it changed; then the end, the cap, or sleep.
Tell ==
  /\ stream.at = "telling"
  /\ heard' = IF stream.snap = stream.last THEN heard
              ELSE Append(heard, [stream |-> streams, snap |-> stream.snap, again |-> stream.again])
  /\ stream' =
       IF TakenForEnd(stream.snap) THEN [stream EXCEPT !.at = "off", !.closed = "done"]
       ELSE IF stream.polls >= MaxPolls THEN [stream EXCEPT !.at = "off", !.closed = "timeout"]
       ELSE [stream EXCEPT !.at = "asleep", !.last = stream.snap]
  /\ UNCHANGED <<jobRow, streams>>

Poll ==
  /\ stream.at = "asleep"
  /\ stream' =
       IF jobThere
       THEN [Looked(stream, "telling") EXCEPT !.polls = @ + 1]
       ELSE [stream EXCEPT !.at = "off", !.closed = "gone"]
  /\ UNCHANGED <<jobRow, heard, streams>>

HangUp ==
  /\ stream.at = "telling" /\ stream' = Closed
  /\ UNCHANGED <<jobRow, heard, streams>>

WatchNext ==
  JobMoves \/ JobDeliveredAgain \/ RecordOnJob \/ JobDeleted \/ Connect \/ Tell \/ Poll \/ HangUp

WatchSpec == WatchInit /\ [][WatchNext]_watchVars

--------------------------------------------------------------------------------
Later(a, b) ==
  /\ a.updated <= b.updated /\ (a.dlq => b.dlq)
  /\ a.state \in JobOffRamps => b.state = a.state
  /\ b.state \notin JobOffRamps => a.state <= b.state

\* Parked, complete or diverted for good: no call takes such a job up.
AtRest(snap) == snap.dlq \/ snap.state \notin 0..(JobStages - 1) \cup {NotTerminal}

LastHeard == heard[Len(heard)]

(* job_events: whatever the job does between two polls and however often a client *)
(* reconnects, one stream never says the same twice in a row, "done" is said only *)
(* of an end and "gone" only of a row that is gone, and a stream ends at its cap. *)
(* As long as the job had not been delivered again when the row was read, what    *)
(* clients hear never goes back and the end they are told is the one it stays at; *)
(* of a job delivered again neither holds, for the worker's writes have no guard. *)
StreamsTell ==
  /\ \A i \in 2..Len(heard) :
       /\ heard[i].again \/ Later(heard[i - 1].snap, heard[i].snap)
       /\ heard[i - 1].stream = heard[i].stream => heard[i - 1].snap # heard[i].snap
  /\ stream.closed = "done" =>
       AtRest(LastHeard.snap) /\ (LastHeard.again \/ LastHeard.snap = Snapshot)
  /\ stream.closed = "gone" => ~jobThere
  /\ stream.polls <= MaxPolls
================================================================================
