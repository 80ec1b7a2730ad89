SPECIFICATION Spec
CONSTANTS
  tee = tee
  shirt = shirt
  jeans = jeans
  jacket = jacket
  Garments <- MCGarments
  Sets <- MCSets
  Hash <- MCHash
  Score <- MCScore
  Coarse = 10
  Penalty = 1
  Away = {jeans}
  Apart = {jacket}
  Basket = {tee}
  Keep = 2
  Limits = {2}
  Overfetch = 2
  Replicas = {r1}
  Jobs = {j1}
  Requests = {q1}
  None = None
  MaxReactions = 1
  MaxChanges = 1
  MaxFaults = 1
INVARIANTS
  HashesResolve
  NeverServedUnwearable
  AnswersWhatItCan
CHECK_DEADLOCK FALSE
