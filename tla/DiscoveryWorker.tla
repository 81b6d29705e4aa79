--------------------------- MODULE DiscoveryWorker ---------------------------
(***************************************************************************)
(* run_discovery_worker (discovery_worker_entrypoint.py) with              *)
(* DeterministicDiscovery (discovery/baseline.py) over a session: three    *)
(* fixed queries, each followed by a fetch of every result, within a       *)
(* wall-clock budget.  Other tasks may hold the same session and fetch its *)
(* results or close it; the container of the deployment has none.          *)
(***************************************************************************)
EXTENDS DiscoverySession

CONSTANTS
  Worker,    \* the caller that runs the loop
  Curated,   \* URLs whose host a source rule matches
  Queries,   \* Len(DISCOVERY_QUERIES)
  MaxHits    \* bound: hits of one answer

ASSUME WorkerAssumption ==
  /\ Worker \in Callers
  /\ Curated \subseteq Public
  /\ Queries \in Nat /\ MaxHits \in Nat
  /\ MaxHits <= MaxResults /\ Queries * MaxHits <= MaxIds

VARIABLES
  worker,    \* the locals of run_discovery_worker
  late,      \* the wall-clock budget is spent
  analyzed,  \* history: the records analyze_result returned
  skipped    \* history: results passed over because another fetch ran

workerVars == <<worker, late, analyzed, skipped>>
vars == <<sessionVars, workerVars>>

WorkerInit ==
  /\ SessionInit
  /\ worker = [pc |-> "query", query |-> 0, pending |-> {}]
  /\ late = FALSE
  /\ analyzed = {}
  /\ skipped = {}

Go(step) == worker' = [worker EXCEPT !.pc = step]

NextQuery ==
  worker' = [pc |-> "query", query |-> worker.query + 1, pending |-> {}]

\* Fault: only the loop over the results watches the budget.
FaultQueriesOverBudget ==
  /\ worker.pc = "query"
  /\ IF worker.query = Queries THEN Go("returned") ELSE Go("search")
  /\ UNCHANGED <<sessionVars, late, analyzed, skipped>>

\* The head of the loop over the queries.
BeginQuery ==
  /\ worker.pc = "query"
  /\ IF worker.query = Queries \/ late THEN Go("returned") ELSE Go("search")
  /\ UNCHANGED <<sessionVars, late, analyzed, skipped>>

\* Fault: a query that failed is asked again.
FaultRetriesQuery ==
  /\ worker.pc = "search"
  /\ Go("query")
  /\ UNCHANGED <<sessionVars, late, analyzed, skipped>>

\* DiscoverySearchError: no answer, another status, unusable JSON.
SearchFails ==
  /\ worker.pc = "search"
  /\ NextQuery
  /\ UNCHANGED <<sessionVars, late, analyzed, skipped>>

\* parse_searxng_response keeps the curated hits, each URL once, and the
\* session records them; a session that refuses ends the run.
SearchAnswers ==
  /\ worker.pc = "search"
  /\ \E hits \in SUBSET Curated :
       /\ Cardinality(hits) <= MaxHits
       /\ \/ /\ Record(hits)
             /\ worker' = [worker EXCEPT !.pc = "result",
                                         !.pending = NewIds(Cardinality(hits))]
          \/ /\ ~CanRecord(Cardinality(hits))
             /\ Go("refused")
             /\ UNCHANGED sessionVars
  /\ UNCHANGED <<late, analyzed, skipped>>

\* _sanitize_metadata rejects one title or snippet: record_search_results
\* raises before it records any, and only DiscoverySearchError is caught.
SearchRaises ==
  /\ worker.pc = "search"
  /\ Go("raised")
  /\ UNCHANGED <<sessionVars, late, analyzed, skipped>>

First(S) == CHOOSE i \in S : \A j \in S : i <= j

\* The head of the loop over the results, up to the await in analyze_result.
\* A fetch the session refuses is skipped.
BeginResult ==
  /\ worker.pc = "result"
  /\ IF worker.pending = {} \/ late
       THEN NextQuery /\ UNCHANGED <<sessionVars, skipped>>
       ELSE LET i == First(worker.pending) IN
            /\ worker' = [worker EXCEPT
                            !.pc = IF CanFetch(i) THEN "fetch" ELSE "result",
                            !.pending = @ \ {i}]
            /\ IF CanFetch(i) THEN BeginFetch(Worker, i)
                              ELSE UNCHANGED sessionVars
            /\ skipped' = IF fetching THEN skipped \cup {i} ELSE skipped
  /\ UNCHANGED <<late, analyzed>>

WorkerFetches ==
  /\ worker.pc = "fetch"
  /\ SendRequest(Worker) \/ Redirected(Worker)
  /\ UNCHANGED workerVars

Page == [id |-> fetch[Worker].id, url |-> fetch[Worker].url]

\* Fault: the rule that matched the search hit is trusted for the page.
FaultAnyFinalUrl(page) == page.url \in Public

\* analyze_fetched_page matches the URL the redirects led to.
Analyzable(page) == page.url \in Curated

\* The page is decoded or extracted, measured and analysed; whatever part
\* fails is a DiscoveryExtractionError and the result is skipped.
Analyze ==
  /\ worker.pc = "fetch"
  /\ ReturnPage(Worker)
  /\ \/ Analyzable(Page) /\ analyzed' = analyzed \cup {Page}
     \/ UNCHANGED analyzed
  /\ Go("result")
  /\ UNCHANGED <<late, skipped>>

SkipResult ==
  /\ worker.pc = "fetch"
  /\ FetchFails(Worker)
  /\ Go("result")
  /\ UNCHANGED <<late, analyzed, skipped>>

WorkerStep ==
  \/ BeginQuery \/ SearchFails \/ SearchAnswers \/ SearchRaises
  \/ BeginResult \/ WorkerFetches \/ Analyze \/ SkipResult

\* time.monotonic() passes the budget.
BudgetRunsOut ==
  ~late /\ late' = TRUE /\ UNCHANGED <<sessionVars, worker, analyzed, skipped>>

\* What another task that holds the session may do: fetch an open result and
\* close.  It does not search: the worker's loop is the only caller of search.
Others ==
  /\ \/ \E c \in Callers \ {Worker} :
          FetchStep(c) \/ \E i \in DOMAIN results : BeginFetch(c, i)
     \/ Close
  /\ UNCHANGED workerVars

WorkerNext == WorkerStep \/ BudgetRunsOut \/ Others

WorkerSpec == WorkerInit /\ [][WorkerNext]_vars

\* Every await of the worker ends: a search after SEARCH_TIMEOUT_SECONDS, a
\* fetch after total_timeout_seconds.
FairWorkerSpec == WorkerSpec /\ WF_vars(WorkerStep)

(***************************************************************************)
(* Properties                                                              *)
(***************************************************************************)

Ended == {"returned", "raised", "refused"}

WorkerTypeOK ==
  /\ SessionTypeOK
  /\ worker \in [pc : {"query", "search", "result", "fetch"} \cup Ended,
                 query : 0 .. Queries, pending : SUBSET Ids]
  /\ worker.pc = "fetch" <=> fetch[Worker].pc # "idle"
  /\ late \in BOOLEAN
  /\ analyzed \subseteq [id : Ids, url : Urls]

\* "Every record maps to a result actually returned in that run"
\* (IMPLEMENTATION_PLAN.md), one record for a result, and the page it is about
\* belongs to a curated source although redirects may lead anywhere public.
RecordsHaveSources ==
  \A r \in analyzed :
    /\ r.id <= issued /\ r.id \notin DOMAIN results
    /\ r.url \in Curated
    /\ \A q \in analyzed : q.id = r.id => q = r

\* The cap on open results ends no run by itself: a search finds the results of
\* the one before used up, by a fetch that succeeded or failed, because a
\* budget that stops their loop stops the next search too.  A refusal needs a
\* session closed by another task, or another task's fetch in the way; another
\* task that searched could fill the cap, and is not among the Others.
CapNeverReached == worker.pc = "refused" => closed \/ skipped # {}

\* The worker ends, whatever servers answer and other tasks do.
WorkerEnds == <>(worker.pc \in Ended)
=============================================================================
