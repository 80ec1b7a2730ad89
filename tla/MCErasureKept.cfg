\* No outage, no race: one upload of a photo and one of a profile picture.
SPECIFICATION ErasureSpec
CONSTANTS
  Nothing = Nothing
  Kinds = {"originals", "avatars"}
  Grants = {"litellm"}
  Writers = {w1}
  Loose = {"outbox"}
  MaxFailures = 0
INVARIANT NothingSurvivesUndisclosed
CHECK_DEADLOCK FALSE
