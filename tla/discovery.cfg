SPECIFICATION FairWorkerSpec
CONSTANTS
  Callers = {worker, other}
  Worker = worker
  Urls <- MCUrls
  Public <- MCPublic
  Secure <- MCSecure
  HostOf <- MCHostOf
  Curated <- MCCurated
  Answers <- MCAnswers
  Routable = {1, 2}
  MaxResults = 2
  MaxRedirects = 2
  MaxIds = 4
  MaxHits = 2
  Queries = 2
CHECK_DEADLOCK FALSE
INVARIANTS
  WorkerTypeOK
  FetchStaysPinned
  RecordsHaveSources
  CapNeverReached
PROPERTIES
  ImplementsCapability
  WorkerEnds
