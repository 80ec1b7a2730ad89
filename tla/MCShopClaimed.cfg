SPECIFICATION Spec
CONSTANTS
  tee = tee
  sherwani = sherwani
  jeans = jeans
  shorts = shorts
  dress = dress
  boots = boots
  sandals = sandals
  sneakers = sneakers
  trousers = trousers
  gown = gown
  theirs = theirs
  Unset = Unset
  NoSlot = NoSlot
  None = None
  Night = Night
  Template = Template
  Pieces <- MCPieces
  Slot <- MCSlot
  Kind <- MCKind
  Wears <- MCWears
  Accepts <- MCAccepts
  Warmth <- MCWarmth
  Formality <- MCFormality
  WearCount <- MCWearCount
  PoorWhenWet <- MCPoorWhenWet
  AnchorCount = 3
  ExplorationAnchors = 1
  PerSlot = 2
  PerOptional = 1
  MaxCandidates = 6
  Colour <- MCColour
  Neutrals <- MCNeutrals
  Distance <- MCDistance
  Bold <- MCBold
  Worn <- MCWorn
  Damped <- MCDamped
  Scored <- MCScored
  OccasionCode = "casual"
  TopN = 2
  Answers <- MCAnswers
  Asks = {q1}
  MaxRemovals = 1
  MaxCacheFaults = 1
  Catalogue = {sneakers, trousers, gown}
  Gender <- MCGender
  Price <- MCPrice
  MaxSuggestions = 2
  Sold = {sneakers}
  Orders = {"o1", "o2"}
  Buys <- MCBuys
  MaxReports = 5
  MaxTaps = 2
  MaxChanges = 2
  Occasions <- MCOccasions
  Lexicon <- MCLexicon
  Rules <- MCRules
  Holidays <- MCHolidays
  Length <- MCLength
  Creates = {c1, c2}
  Refreshes = {r1, r2}
  MaxTokens = 2
  MaxGatewayFaults = 1
  MaxDenyFaults = 1
  Keys = {k1, k2}
  Users = {u1}
  Requests = {p1, p2}
  RateLimit = 1
  MaxWindows = 2
  MaxCacheOutages = 1
  MaxRequests = 4
  Calls = {g1, g2}
  MaxGrants = 2
  MaxStates = 2
  MaxGoogleFaults = 1
  MaxCalls = 4
  JobStages = 3
  JobOffRamps = {7, 8}
  NotTerminal = 8
  MaxPolls = 2
  MaxStreams = 2
  MaxWrites = 4
INVARIANT
  TheirsToRemove
CHECK_DEADLOCK FALSE
