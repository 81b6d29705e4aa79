-------------------------- MODULE DiscoverySession ---------------------------
(***************************************************************************)
(* DiscoveryWebSession and the fetch behind it (discovery/web.py).  The    *)
(* code runs in one event loop: what is written between two awaits is one  *)
(* step, and other tasks that hold the session act at the awaits, while a  *)
(* name is resolved, a connection opened or an answer read.                *)
(*                                                                         *)
(* DNS and the web servers are external: each resolution may give another  *)
(* answer, and each response may be anything, or never come.               *)
(***************************************************************************)
EXTENDS Naturals, FiniteSets, Sequences, Functions

CONSTANTS
  Callers,       \* tasks that hold the session
  Urls,          \* URLs, in their canonical form
  Public,        \* those that canonical_public_url accepts
  Secure,        \* those whose scheme is https
  HostOf,        \* the host name of each URL
  Answers,       \* sets of addresses a resolution may give
  Routable,      \* addresses is_public_address accepts
  MaxResults,    \* MAX_SEARCH_RESULTS
  MaxRedirects,  \* FetchPolicy.max_redirects
  MaxIds         \* bound: results a run issues

ASSUME SessionAssumption ==
  /\ IsFiniteSet(Urls)  \* MAX_URL_CHARACTERS bounds their length
  /\ "" \notin Urls
  /\ Public \subseteq Urls /\ Secure \subseteq Urls
  /\ MaxResults \in Nat /\ MaxRedirects \in Nat \ {0} /\ MaxIds \in Nat

VARIABLES
  issued,    \* how many ids were issued; token_urlsafe repeats none
  results,   \* _results: the URL behind each id that is still good
  closed,    \* _closed
  fetching,  \* _fetch_in_progress
  fetch      \* the locals of each caller's _fetch_url

sessionVars == <<issued, results, closed, fetching, fetch>>

Ids == 1 .. MaxIds

\* The key of the resolver's answers, (host, port); the port is the scheme's.
Destination(u) == <<HostOf[u], u \in Secure>>

Destinations == {Destination(u) : u \in Urls}

NoAnswers == [d \in Destinations |-> {}]

\* asked is history: the requests of the fetch, with the addresses they went to.
Idle == [pc |-> "idle", id |-> 0, url |-> "", visited |-> {}, redirects |-> 0,
         answers |-> NoAnswers, asked |-> <<>>]

Fetch ==
  [pc : {"idle", "request", "response"}, id : {0} \cup Ids, url : {""} \cup Urls,
   visited : SUBSET Urls, redirects : 0 .. MaxRedirects,
   answers : [Destinations -> Answers \cup {{}}],
   asked : Seq([url : Urls, addresses : Answers])]

SessionInit ==
  /\ issued = 0
  /\ results = <<>>
  /\ closed = FALSE
  /\ fetching = FALSE
  /\ fetch = [c \in Callers |-> Idle]

(***************************************************************************)
(* record_search_results                                                   *)
(***************************************************************************)

NewIds(n) == issued + 1 .. issued + n

\* Fault: the ids of a full session are refused one hit too late.
FaultRecordOneMore(n) ==
  ~closed /\ Cardinality(DOMAIN results) + n <= MaxResults + 1

CanRecord(n) == ~closed /\ Cardinality(DOMAIN results) + n <= MaxResults

\* One fresh id for each hit, once every hit was prepared.
Record(hits) ==
  LET n == Cardinality(hits) IN
  /\ issued + n <= MaxIds
  /\ CanRecord(n)
  /\ \E url \in Bijection(NewIds(n), hits) :
       results' = [i \in DOMAIN results \cup NewIds(n) |->
                     IF i \in NewIds(n) THEN url[i] ELSE results[i]]
  /\ issued' = issued + n
  /\ UNCHANGED <<closed, fetching, fetch>>

(***************************************************************************)
(* fetch_public_page                                                       *)
(***************************************************************************)

Set(c, locals) == fetch' = [fetch EXCEPT ![c] = locals]

CanFetch(i) == ~closed /\ ~fetching /\ i \in DOMAIN results

\* Fault: the result is looked up, and stays.
FaultBeginKeepsResult(c, i) ==
  /\ fetch[c].pc = "idle"
  /\ CanFetch(i)
  /\ UNCHANGED results
  /\ fetching' = TRUE
  /\ Set(c, [Idle EXCEPT !.pc = "request", !.id = i, !.url = results[i],
                         !.visited = {results[i]}])
  /\ UNCHANGED <<issued, closed>>

\* The result is taken out whatever becomes of the fetch; a call that is
\* refused takes nothing and raises.
BeginFetch(c, i) ==
  /\ fetch[c].pc = "idle"
  /\ CanFetch(i)
  /\ results' = Restrict(results, DOMAIN results \ {i})
  /\ fetching' = TRUE
  /\ Set(c, [Idle EXCEPT !.pc = "request", !.id = i, !.url = results[i],
                         !.visited = {results[i]}])
  /\ UNCHANGED <<issued, closed>>

\* Fault: each resolution is judged on its own.
FaultForgetsAnswers(c, addresses) ==
  addresses # {} /\ addresses \subseteq Routable

\* _PublicResolver.resolve and _public_socket_factory: there are addresses,
\* all public, and a (host, port) seen before has the answer it had then.
Accepts(c, addresses) ==
  /\ addresses # {}
  /\ addresses \subseteq Routable
  /\ fetch[c].answers[Destination(fetch[c].url)] \in {{}, addresses}

\* The name is resolved and the request goes out.
SendRequest(c) ==
  /\ fetch[c].pc = "request"
  /\ \E addresses \in Answers :
       /\ Accepts(c, addresses)
       /\ Set(c, [fetch[c] EXCEPT
                    !.pc = "response",
                    !.answers[Destination(fetch[c].url)] = addresses,
                    !.asked = Append(@, [url |-> fetch[c].url,
                                         addresses |-> addresses])])
  /\ UNCHANGED <<issued, results, closed, fetching>>

\* Which locations a fetch follows.
Follows(c, u) ==
  /\ fetch[c].redirects < MaxRedirects
  /\ u \in Public
  /\ fetch[c].url \in Secure => u \in Secure
  /\ u \notin fetch[c].visited

Redirected(c) ==
  /\ fetch[c].pc = "response"
  /\ \E u \in Urls :
       /\ Follows(c, u)
       /\ Set(c, [fetch[c] EXCEPT !.pc = "request", !.url = u,
                                  !.visited = @ \cup {u}, !.redirects = @ + 1])
  /\ UNCHANGED <<issued, results, closed, fetching>>

\* The finally clause, whichever way the fetch ends.
EndFetch(c) ==
  /\ Set(c, Idle)
  /\ fetching' = FALSE
  /\ UNCHANGED <<issued, results, closed>>

\* A 200 of a supported media type, framed and within the size limit: the
\* caller gets the page of fetch[c].id at fetch[c].url.
ReturnPage(c) == fetch[c].pc = "response" /\ EndFetch(c)

\* Anything else, at any time: an address or a location that is refused, any
\* other answer, a timeout of one phase or of the whole, a cancelled task.
FetchFails(c) == fetch[c].pc # "idle" /\ EndFetch(c)

Close ==
  /\ ~fetching
  /\ closed' = TRUE
  /\ results' = <<>>
  /\ UNCHANGED <<issued, fetching, fetch>>

\* A fetch after it began.
FetchStep(c) == SendRequest(c) \/ Redirected(c) \/ ReturnPage(c) \/ FetchFails(c)

(***************************************************************************)
(* Properties                                                              *)
(***************************************************************************)

SessionTypeOK ==
  /\ issued \in 0 .. MaxIds
  /\ IsFiniteSet(DOMAIN results) /\ DOMAIN results \subseteq 1 .. issued
  /\ \A i \in DOMAIN results : results[i] \in Public
  /\ closed \in BOOLEAN /\ fetching \in BOOLEAN
  /\ fetch \in [Callers -> Fetch]
  /\ Cardinality(DOMAIN results) <= MaxResults

\* Whatever servers answer and however often a name is resolved again, the
\* requests of one fetch are at most MaxRedirects + 1, to distinct URLs, never
\* go back from https to http, and reach public addresses only, the same ones
\* for the same host and port (_fetch_url, _PublicResolver).
FetchStaysPinned ==
  \A c \in Callers :
    LET asked == fetch[c].asked IN
    /\ Len(asked) <= MaxRedirects + 1
    /\ \A j \in 1 .. Len(asked) :
         /\ asked[j].url \in Public
         /\ asked[j].addresses \subseteq Routable
         /\ \A k \in 1 .. j - 1 :
              /\ asked[k].url # asked[j].url
              /\ asked[k].url \in Secure => asked[j].url \in Secure
              /\ Destination(asked[k].url) = Destination(asked[j].url)
                   => asked[k].addresses = asked[j].addresses

\* What became of an id.
StateOf(i) ==
  IF \E c \in Callers : fetch[c].pc # "idle" /\ fetch[c].id = i THEN "inuse"
  ELSE IF i \in DOMAIN results THEN "issued"
  ELSE IF i > issued THEN "unissued" ELSE "spent"

Capability == INSTANCE ResultCapability WITH
  state <- [i \in Ids |-> StateOf(i)], open <- ~closed

\* The session implements ResultCapability: an id opens one fetch, in no
\* order of calls, failures and cancellations a second, none after close, and
\* no two fetches run at one time.
ImplementsCapability == Capability!CapabilitySpec
=============================================================================
