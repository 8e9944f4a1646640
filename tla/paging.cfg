\* Six rows, two to a page, four of them there at the start.
SPECIFICATION Spec
CONSTANTS
  Nil = Nil
  NumRows = 6
  Stamp <- MCStamp
  Seed = {1, 2, 3, 4}
  Matches = {2, 3, 4}
  Limit = 2
  MaxPage = 3
  MaxEvents = 5
INVARIANTS
  TypeOK
  WalkIsExact
  PostedIsReachable
  FilterResetsPage
PROPERTIES
  PagerSurvivesErrors
