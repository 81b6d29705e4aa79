SPECIFICATION StoreSpec
CONSTANTS
  Messages <- MCMessages
  Keys = {k1, k2}
  Days = {d1}
  Instants <- MCInstants
  ProviderIds <- MCProviderIds
  MaxAttempts = 2
INVARIANTS
  RowsInStep
  MessageSpentOnce
  NoOrphanedMessage
  SentAttemptIsLast
CHECK_DEADLOCK FALSE
