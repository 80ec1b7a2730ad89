\* The ingest of one job with three stages, two slots and two crashes; three
\* rows of the outbox, one of them without a handler, two replicas that take
\* two rows a tick, and two ticks or jobs cut short; three outfits of three
\* garments with one reaction, one change of a garment and one fault.
\* Deadlock is off: what has settled is left alone.
SPECIFICATION MCSpec
CONSTANTS
  Jobs = {j1}
  Slots = {s1, s2}
  N = 3
  Terminates <- SmallTerminates
  Flaky = {2, 3}
  Dependent = {2}
  Retryable = {1, 2}
  MaxAttempts = 2
  Budget = 2
  InProcess = 1
  Delays = {1, 2}
  MaxCrashes = 2
  MaxAborts = 0
  Events <- ThreeRows
  Handled <- TwoHandled
  Relays = {r1, r2}
  Batch = 2
  MaxDeaths = 2
  MaxForgets = 1
  tee = tee
  shirt = shirt
  jeans = jeans
  Replicas = {w1}
  Requests = {q1}
  None = None
INVARIANTS NoLostJob NothingLost EffectivelyOnce
PROPERTIES LifecycleSafe JobsSettle IntentSpec OutfitsSettle
CHECK_DEADLOCK FALSE
