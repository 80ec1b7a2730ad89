\* Two clients, four requests, two days; deadlock is off because the requests
\* are bounded.
SPECIFICATION Spec
CONSTANTS
  coat1 = coat1
  coat2 = coat2
  scarf = scarf
  coat = coat
  shawl = shawl
  Garments <- MCGarments
  Articles <- MCArticles
  Shows <- MCShows
  mon = mon
  tue = tue
  Days <- MCDays
  Worn <- MCWorn
  Clients = {c1, c2}
  None = None
  MaxRequests = 4
INVARIANTS AnswersLoseNothing WearsNeverMix
SYMMETRY Symmetry
CHECK_DEADLOCK FALSE
