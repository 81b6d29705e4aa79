SPECIFICATION Spec
CONSTANTS
  Messages <- MCMessages
  Keys = {k1, k2}
  Days <- MCDays
  Instants <- MCInstants
  ProviderIds = {}
  MaxAttempts = 0
  Workers = {w1}
  BatchLimit = 2
  MaxUpdates = 1
  MaxEvents = 2
  EnrolledKey = k1
  PacificDate <- MCPacificDate
  SendWindow <- MCSendWindow
  UndecodableAnswers = TRUE
  MaxCrashes = 1
  DayLength = 3
  LastInstant = 4
  MessageCount = 2
CHECK_DEADLOCK FALSE
INVARIANTS
  AtMostOneNote
  EveryRequestAudited
PROPERTIES
  NoSendAfterStop
  RetryOnlyWhenRefused
  ImplementsDailyNote
