\* A photo of up to two garments, one of them known by its picture and the other
\* by its embedding; one edit by the user, one worker lost, one fault.  Deadlock is off:
\* a photo that is done is left alone.  Beside it one job of ten stages, two
\* crashes and one abort.
SPECIFICATION MCSpec
CONSTANTS
  Primary = top
  Extra = {shoe}
  HashTwins = {shoe}
  VectorTwins = {top}
  MaxEdits = 1
  MaxCrashes = 1
  MaxFaults = 1
INVARIANTS SplitIsWhole
  FlagsReachTheUser QuarantineContained RetriesBounded
PROPERTIES CorrectionsKept
CHECK_DEADLOCK FALSE
