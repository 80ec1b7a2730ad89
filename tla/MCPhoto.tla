-------------------------------- MODULE MCPhoto --------------------------------
(* One photo through the writes of its ten stages (PhotoRows) and, beside it, *)
(* one job through the bookkeeping of the same ten (IngestPipeline): what     *)
(* retries, waits, crashes and aborts add up to when every stage has its own  *)
(* limits.  Behaviours of the one part leave the other alone.                 *)
EXTENDS PhotoRows

VARIABLES part, state, attempts, dlq, waited, deferrals, marked, delivered,
          queued, finished, run, failed, spent, breaks, aborts, redelivered

bookkeeping == <<state, attempts, dlq, waited, deferrals, marked, delivered,
                 queued, finished, run, failed, spent, breaks, aborts, redelivered>>

\* INGEST_STAGES as it is in stages/__init__.py, without the off-ramp of TAG
\* that is not terminal: a job delivered again from there starts over, and may
\* wait in its slot once more at every stage.
TenTerminates ==
  [i \in 1..10 |->
     CASE i \in {VALIDATE, PERSIST} -> {-1}           \* rejected
       [] i = MODERATE -> {-1, -2}                    \* ... or quarantined
       [] i \in {SEGMENT, MATTE} -> {-1, -3}          \* ... or needs_review
       [] OTHER -> {}]

Ten == INSTANCE IngestPipeline WITH
  Jobs <- {"job"}, Slots <- {"slot"}, N <- 10,
  Terminates <- TenTerminates,
  Flaky <- {VALIDATE, SEGMENT, CLASSIFY},
  Dependent <- {MODERATE, SEGMENT, MATTE, TAG, EMBED},
  Retryable <- 1..10 \ {CLASSIFY},
  MaxAttempts <- 3, Budget <- 4, InProcess <- 1, Delays <- {1, 3},
  MaxCrashes <- 2, MaxAborts <- 1, crashes <- breaks

\* One photo is enough for the part that does not look at it.
MCInit ==
  /\ part \in {"photo", "job"}
  /\ Init /\ (part = "job" => ~photo.valid /\ photo.verdict = "ok")
  /\ Ten!Init

MCNext ==
  /\ part' = part
  /\ \/ part = "photo" /\ Next /\ UNCHANGED bookkeeping
     \/ part = "job" /\ Ten!Next /\ UNCHANGED vars

MCSpec == MCInit /\ [][MCNext]_<<part, vars, bookkeeping>>

(* RetriesBounded of IngestPipeline.                                         *)
RetriesBounded == part = "job" => Ten!RetriesBounded

================================================================================
