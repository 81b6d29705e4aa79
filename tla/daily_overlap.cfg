SPECIFICATION FairSpec
CONSTANTS
  Messages <- MCMessages
  Keys = {k1, k2}
  Days <- MCDays
  Instants <- MCInstants
  ProviderIds = {}
  MaxAttempts = 0
  Workers = {w1, w2}
  BatchLimit = 2
  MaxUpdates = 0
  MaxEvents = 1
  EnrolledKey = k1
  PacificDate <- MCPacificDate
  SendWindow <- MCSendWindow
  UndecodableAnswers = FALSE
  MaxCrashes = 1
  DayLength = 3
  LastInstant = 2
  MessageCount = 1
CHECK_DEADLOCK FALSE
INVARIANTS
  TypeOK
  AudioNeverMissing
  NoReplay
  SentNamesANote
PROPERTIES
  SendingIsConcluded
