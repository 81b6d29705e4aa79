SPECIFICATION FairSpec
CONSTANTS
  Messages <- MCMessages
  Keys = {k1}
  Days <- MCDays
  Instants <- MCInstants
  ProviderIds = {}
  MaxAttempts = 0
  Workers = {w1}
  BatchLimit = 2
  MaxUpdates = 0
  MaxEvents = 0
  EnrolledKey = k1
  PacificDate <- MCPacificDate
  SendWindow <- MCSendWindow
  UndecodableAnswers = FALSE
  MaxCrashes = 0
  DayLength = 4
  LastInstant = 4
  MessageCount = 1
CHECK_DEADLOCK FALSE
PROPERTY SentAudioCleared
