\* The account: objects under three prefixes, two grants, two late writers, three
\* outages or crashes.  Try-on: two photos, one outfit, two taps, three jobs, one
\* fault.  Deadlock is off: faults, uploads and jobs are bounded.
SPECIFICATION AccountSpec
CONSTANTS
  Nothing = Nothing
  Kinds = {"originals", "body", "avatars"}
  Grants = {"litellm", "calendar"}
  Writers = {w1, w2}
  Loose = {"outbox"}
  MaxFailures = 3
  None = None
  NPhotos = 2
  Outfits = {o1}
  Fits <- MCFits
  Taps = {t1, t2}
  Jobs = {j1, j2, j3}
  Quota = 1
  MaxPasses = 2
  MaxFaults = 1
INVARIANTS AccountTypeOK ConfirmedIsTrue RevocationHolds RecordDescribesImage
PROPERTIES ErasureFinishes InProgressEnds
CHECK_DEADLOCK FALSE
