SPECIFICATION FairRefillSpec
CONSTANTS
  plain = plain
  alike = alike
  other = other
  third = third
  copy = copy
  MessageCount = 3
  Messages <- MCMessages
  Keys = {k1}
  Days = {d1}
  Instants <- MCInstants
  ProviderIds = {}
  MaxAttempts = 0
  Texts <- MCTexts
  Similar <- MCSimilar
  Copied = {copy}
  Generators = {g1, g2}
  Refillers = {w1, w2}
  Target = 1
  Prohibited = {alike}
CHECK_DEADLOCK FALSE
INVARIANTS
  RefillTypeOK
  QueueBounded
  ProhibitedNeverQueued
  CandidateOpen
  RejectedNeverQueued
  NoTwoAlike
PROPERTY RefillEnds
