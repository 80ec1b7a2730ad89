\* One job, one slot and a worker that dies once: enough for a death between
\* the job's off-ramp and its garment's.
SPECIFICATION Spec
CONSTANTS
  Jobs = {j1}
  Slots = {s1}
  N = 3
  Terminates <- SmallTerminates
  Flaky = {2, 3}
  Dependent = {2}
  Retryable = {1, 2}
  MaxAttempts = 2
  Budget = 2
  InProcess = 1
  Delays = {1, 2}
  MaxCrashes = 1
  MaxAborts = 0
INVARIANTS OffRampShown
CHECK_DEADLOCK FALSE
