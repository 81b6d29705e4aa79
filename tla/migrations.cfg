SPECIFICATION FairSpec
CONSTANTS
  Processes = {p1, p2}
  Messages = {m1, m2}
  Hashes = {h1, h2}
  MaxCrashes = 1
INVARIANTS
  TypeOK
  ReadyMeansCurrent
  HistoryComplete
  InvalidForCause
PROPERTIES
  WholeOrNothing
  GetsCurrent
