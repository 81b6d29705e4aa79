--------------------------- MODULE DiscoveryProofs ---------------------------
(***************************************************************************)
(* FetchStaysPinned and RecordsHaveSources for any tasks, URLs, servers,   *)
(* DNS answers and limits.                                                 *)
(***************************************************************************)
EXTENDS DiscoveryWorker, FiniteSetTheorems, SequenceTheorems, TLAPS

Asked == [url : Urls, addresses : Answers]

\* What a fetch remembers about the requests it made: each went to a URL it
\* visited and to the addresses the resolver still holds.
Remembers(f) ==
  \A j \in 1 .. Len(f.asked) :
    /\ f.asked[j].url \in f.visited \cap Public
    /\ f.asked[j].addresses \subseteq Routable /\ f.asked[j].addresses # {}
    /\ f.answers[Destination(f.asked[j].url)] = f.asked[j].addresses
    /\ f.asked[j].url \in Secure => f.url \in Secure
    /\ f.pc = "request" => f.asked[j].url # f.url
    /\ \A k \in 1 .. j - 1 :
         /\ f.asked[k].url # f.asked[j].url
         /\ f.asked[k].url \in Secure => f.asked[j].url \in Secure

\* The locals of a fetch.
Pinned(f) ==
  /\ f \in Fetch
  /\ f.pc # "idle" => f.url \in f.visited \cap Public
  /\ Len(f.asked) = f.redirects + (IF f.pc = "response" THEN 1 ELSE 0)
  /\ Remembers(f)

LEMMA Limits ==
  /\ MaxRedirects \in Nat /\ MaxResults \in Nat /\ MaxIds \in Nat
  /\ Public \subseteq Urls /\ Curated \subseteq Public /\ Worker \in Callers
BY SessionAssumption, WorkerAssumption, Zenon

LEMMA IdlePinned == Pinned(Idle) /\ Idle.pc = "idle"
<1>1. NoAnswers \in [Destinations -> Answers \cup {{}}]
  BY DEF NoAnswers
<1>2. <<>> \in Seq(Asked) /\ Len(<<>>) = 0
  OBVIOUS
<1>3. 0 \in 0 .. MaxRedirects
  BY Limits
<1> QED
  BY <1>1, <1>2, <1>3 DEF Pinned, Idle, Fetch, Remembers, Asked

LEMMA BeginPinned ==
  ASSUME NEW i \in Ids, NEW u \in Public,
         NEW f, f = [Idle EXCEPT !.pc = "request", !.id = i, !.url = u,
                                 !.visited = {u}]
  PROVE  Pinned(f) /\ f.pc = "request" /\ f.id = i
<1>1. Idle \in Fetch /\ Idle.asked = <<>> /\ Idle.redirects = 0 /\ Len(<<>>) = 0
  BY IdlePinned DEF Idle, Pinned
<1>2. u \in Urls
  BY SessionAssumption
<1>3. /\ f \in Fetch /\ f.pc = "request" /\ f.id = i /\ f.url = u
      /\ f.visited = {u} /\ f.asked = <<>> /\ f.redirects = 0
  BY <1>1, <1>2 DEF Fetch
<1> QED BY <1>1, <1>3 DEF Pinned, Remembers

\* The request of SendRequest.
LEMMA SendPinned ==
  ASSUME NEW f, Pinned(f), f.pc = "request", NEW addresses \in Answers,
         addresses # {}, addresses \subseteq Routable,
         f.answers[Destination(f.url)] \in {{}, addresses},
         NEW g, g = [f EXCEPT !.pc = "response",
                              !.answers[Destination(f.url)] = addresses,
                              !.asked = Append(@, [url |-> f.url,
                                                   addresses |-> addresses])]
  PROVE  Pinned(g) /\ g.pc = "response" /\ g.id = f.id
<1> DEFINE request == [url |-> f.url, addresses |-> addresses]
           n == Len(f.asked)
<1>1. /\ f \in Fetch /\ f.url \in f.visited \cap Public /\ f.url \in Urls
      /\ f.asked \in Seq(Asked) /\ n = f.redirects /\ n \in Nat
      /\ request \in Asked
  <2>1. f \in Fetch /\ f.url \in f.visited \cap Public /\ n = f.redirects
    <3>1. f \in Fetch /\ f.pc # "idle"
      BY DEF Pinned
    <3>2. f.redirects \in 0 .. MaxRedirects
      BY <3>1 DEF Fetch
    <3> QED BY <3>1, <3>2, Limits DEF Pinned
  <2>2. f.url \in Urls /\ request \in Asked
    BY <2>1, Limits DEF Asked
  <2>3. f.asked \in Seq(Asked)
    BY <2>1 DEF Fetch, Asked
  <2>4. n \in Nat
    BY <2>3
  <2> QED BY <2>1, <2>2, <2>3, <2>4
<1>2. /\ g.pc = "response" /\ g.id = f.id /\ g.url = f.url
      /\ g.visited = f.visited /\ g.redirects = f.redirects
      /\ g.answers = [f.answers EXCEPT ![Destination(f.url)] = addresses]
      /\ g.asked = Append(f.asked, request)
  BY <1>1 DEF Fetch
<1>3. /\ g.asked \in Seq(Asked) /\ Len(g.asked) = n + 1
      /\ g.asked[n + 1] = request
      /\ \A j \in 1 .. n : g.asked[j] = f.asked[j]
  BY <1>1, <1>2, AppendProperties
<1>4. /\ f.answers \in [Destinations -> Answers \cup {{}}]
      /\ Destination(f.url) \in Destinations
      /\ g.answers \in [Destinations -> Answers \cup {{}}]
      /\ g.answers[Destination(f.url)] = addresses
      /\ \A d \in Destinations : f.answers[d] # {} => g.answers[d] = f.answers[d]
  BY <1>1, <1>2 DEF Fetch, Destinations
<1>5. g \in Fetch
  BY <1>1, <1>3, <1>4 DEF Fetch, Asked
<1>6. Remembers(g)
  <2> SUFFICES ASSUME NEW j \in 1 .. n + 1
               PROVE  /\ g.asked[j].url \in g.visited \cap Public
                      /\ g.asked[j].addresses \subseteq Routable
                      /\ g.asked[j].addresses # {}
                      /\ g.answers[Destination(g.asked[j].url)] = g.asked[j].addresses
                      /\ g.asked[j].url \in Secure => g.url \in Secure
                      /\ \A k \in 1 .. j - 1 :
                           /\ g.asked[k].url # g.asked[j].url
                           /\ g.asked[k].url \in Secure => g.asked[j].url \in Secure
    BY <1>2, <1>3 DEF Remembers
  <2>1. \A k \in 1 .. n :
          /\ f.asked[k].url \in f.visited \cap Public
          /\ f.asked[k].addresses \subseteq Routable /\ f.asked[k].addresses # {}
          /\ f.answers[Destination(f.asked[k].url)] = f.asked[k].addresses
          /\ f.asked[k].url \in Secure => f.url \in Secure
          /\ f.asked[k].url # f.url
    BY DEF Pinned, Remembers
  <2>2. CASE j = n + 1
    BY <1>1, <1>2, <1>3, <1>4, <2>1, <2>2
  <2>3. CASE j \in 1 .. n
    <3>1. Destination(f.asked[j].url) \in Destinations
      BY <2>1, <2>3, Limits DEF Destinations
    <3>2. \A k \in 1 .. j - 1 :
            /\ f.asked[k].url # f.asked[j].url
            /\ f.asked[k].url \in Secure => f.asked[j].url \in Secure
      BY <2>3 DEF Pinned, Remembers
    <3> QED BY <1>1, <1>2, <1>3, <1>4, <2>1, <2>3, <3>1, <3>2
  <2> QED BY <1>1, <2>2, <2>3
<1> QED BY <1>1, <1>2, <1>3, <1>5, <1>6 DEF Pinned

\* The redirect that Follows accepts.
LEMMA RedirectPinned ==
  ASSUME NEW f, Pinned(f), f.pc = "response", NEW u \in Urls,
         f.redirects < MaxRedirects, u \in Public,
         f.url \in Secure => u \in Secure, u \notin f.visited,
         NEW g, g = [f EXCEPT !.pc = "request", !.url = u,
                              !.visited = @ \cup {u}, !.redirects = @ + 1]
  PROVE  Pinned(g) /\ g.pc = "request" /\ g.id = f.id
<1>1. /\ f \in Fetch /\ Len(f.asked) = f.redirects + 1
      /\ f.redirects \in 0 .. MaxRedirects
  BY DEF Pinned, Fetch
<1>2. /\ g.pc = "request" /\ g.id = f.id /\ g.url = u
      /\ g.visited = f.visited \cup {u} /\ g.redirects = f.redirects + 1
      /\ g.answers = f.answers /\ g.asked = f.asked
  BY <1>1 DEF Fetch
<1>3. g \in Fetch
  <2>1. f.redirects + 1 \in 0 .. MaxRedirects
    BY <1>1, Limits
  <2> QED BY <1>1, <2>1 DEF Fetch
<1>4. Remembers(g)
  BY <1>2 DEF Pinned, Remembers
<1> QED BY <1>1, <1>2, <1>3, <1>4 DEF Pinned

\* What Pinned says of the requests.
LEMMA PinnedIsEnough ==
  ASSUME \A c \in Callers : Pinned(fetch[c])
  PROVE  FetchStaysPinned
<1> SUFFICES ASSUME NEW c \in Callers
             PROVE  LET asked == fetch[c].asked IN
                    /\ Len(asked) <= MaxRedirects + 1
                    /\ \A j \in 1 .. Len(asked) :
                         /\ asked[j].url \in Public
                         /\ asked[j].addresses \subseteq Routable
                         /\ \A k \in 1 .. j - 1 :
                              /\ asked[k].url # asked[j].url
                              /\ asked[k].url \in Secure => asked[j].url \in Secure
                              /\ Destination(asked[k].url) = Destination(asked[j].url)
                                   => asked[k].addresses = asked[j].addresses
  BY DEF FetchStaysPinned
<1> DEFINE f == fetch[c]
<1>1. Pinned(f)
  OBVIOUS
<1> HIDE DEF f
<1>2. f.redirects \in 0 .. MaxRedirects /\ f.asked \in Seq(Asked)
  BY <1>1 DEF Pinned, Fetch, Asked
<1>3. Len(f.asked) <= MaxRedirects + 1 /\ Len(f.asked) \in Nat
  BY <1>1, <1>2, Limits DEF Pinned
<1>4. \A j \in 1 .. Len(f.asked) : \A k \in 1 .. j - 1 : k \in 1 .. Len(f.asked)
  BY <1>3
<1> SUFFICES ASSUME NEW j \in 1 .. Len(f.asked)
             PROVE  /\ f.asked[j].url \in Public
                    /\ f.asked[j].addresses \subseteq Routable
                    /\ \A k \in 1 .. j - 1 :
                         /\ f.asked[k].url # f.asked[j].url
                         /\ f.asked[k].url \in Secure => f.asked[j].url \in Secure
                         /\ Destination(f.asked[k].url) = Destination(f.asked[j].url)
                              => f.asked[k].addresses = f.asked[j].addresses
  BY <1>3 DEF f
<1>5. Remembers(f)
  BY <1>1 DEF Pinned
<1>6. \A k \in 1 .. Len(f.asked) :
        f.answers[Destination(f.asked[k].url)] = f.asked[k].addresses
  BY <1>5 DEF Remembers
<1>7. \A k \in 1 .. j - 1 :
        /\ f.asked[k].url # f.asked[j].url
        /\ f.asked[k].url \in Secure => f.asked[j].url \in Secure
  BY <1>5 DEF Remembers
<1>8. \A k \in 1 .. j - 1 :
        Destination(f.asked[k].url) = Destination(f.asked[j].url)
          => f.asked[k].addresses = f.asked[j].addresses
  BY <1>4, <1>6
<1> QED BY <1>5, <1>7, <1>8 DEF Remembers

(***************************************************************************)
(* The session                                                             *)
(***************************************************************************)

Busy == {c \in Callers : fetch[c].pc # "idle"}

\* One fetch runs at a time, on an id that was issued and taken out.
SInv ==
  /\ issued \in 0 .. MaxIds
  /\ DOMAIN results \subseteq 1 .. issued
  /\ \A i \in DOMAIN results : results[i] \in Public
  /\ closed \in BOOLEAN /\ fetching \in BOOLEAN
  /\ closed => DOMAIN results = {}
  /\ fetch \in [Callers -> Fetch]
  /\ \A c \in Callers : Pinned(fetch[c])
  /\ \A c \in Busy : fetch[c].id \in (1 .. issued) \ DOMAIN results
  /\ fetching <=> Busy # {}
  /\ \A c, d \in Busy : c = d

\* No id comes back, and the worker fetches what was there.
Grows ==
  /\ issued' \in Nat /\ issued <= issued'
  /\ \A i \in 1 .. issued : i \in DOMAIN results' => i \in DOMAIN results
  /\ Worker \in Busy' =>
       \/ Worker \in Busy /\ fetch'[Worker].id = fetch[Worker].id
       \/ fetch'[Worker].id \in DOMAIN results

\* Pinned reads nothing but the locals it is about.
LEMMA PinnedThen ==
  ASSUME \A c \in Callers : Pinned(fetch'[c])
  PROVE  (\A c \in Callers : Pinned(fetch[c]))'
BY DEF Pinned, Remembers

LEMMA StaysKeeps ==
  ASSUME SInv, UNCHANGED sessionVars
  PROVE  SInv' /\ Grows
<1>1. Busy' = Busy
  BY DEF Busy, sessionVars
<1>2. SInv'
  <2>1. UNCHANGED <<issued, results, closed, fetching, fetch>>
    BY DEF sessionVars
  <2>2. (\A c \in Callers : Pinned(fetch[c]))'
    BY <2>1, PinnedThen DEF SInv
  <2> QED BY <1>1, <2>1, <2>2 DEF SInv
<1>3. issued \in Nat
  BY Limits DEF SInv
<1> QED BY <1>1, <1>2, <1>3 DEF Grows, sessionVars

LEMMA RecordKeeps ==
  ASSUME SInv, NEW hits \in SUBSET Public, Record(hits)
  PROVE  /\ SInv' /\ Grows
         /\ Cardinality(hits) \in Nat
         /\ DOMAIN results' = DOMAIN results \cup NewIds(Cardinality(hits))
         /\ NewIds(Cardinality(hits)) \subseteq Ids
<1> DEFINE n == Cardinality(hits)
<1>1. IsFiniteSet(hits)
  <2>1. IsFiniteSet(Urls) /\ hits \subseteq Urls
    BY SessionAssumption, Limits, Zenon
  <2> QED BY <2>1, FS_Subset
<1>2. n \in Nat
  BY <1>1, FS_CardinalityType
<1>3. /\ issued + n <= MaxIds /\ ~closed /\ issued' = issued + n
      /\ UNCHANGED <<closed, fetching, fetch>>
  BY DEF Record, CanRecord
<1>4. PICK url \in Bijection(NewIds(n), hits) :
        results' = [i \in DOMAIN results \cup NewIds(n) |->
                      IF i \in NewIds(n) THEN url[i] ELSE results[i]]
  BY DEF Record
<1> HIDE DEF n
<1>5. \A i \in NewIds(n) : url[i] \in Public
  BY <1>4 DEF Bijection, Injection
<1>6. DOMAIN results' = DOMAIN results \cup NewIds(n)
      /\ \A i \in DOMAIN results' : results'[i] \in Public
  BY <1>4, <1>5 DEF SInv
<1>7. issued \in Nat /\ issued' \in 0 .. MaxIds
  BY <1>2, <1>3, Limits DEF SInv
<1>8. /\ NewIds(n) \subseteq Ids /\ NewIds(n) \cap (1 .. issued) = {}
      /\ 1 .. issued \subseteq 1 .. issued' /\ NewIds(n) \subseteq 1 .. issued'
  BY <1>2, <1>3, <1>7, Limits DEF NewIds, Ids
<1>9. Busy' = Busy
  BY <1>3 DEF Busy
<1>10. SInv'
  <2>1. (\A d \in Callers : Pinned(fetch[d]))'
    BY <1>3, PinnedThen DEF SInv
  <2> QED BY <1>3, <1>6, <1>7, <1>8, <1>9, <2>1 DEF SInv
<1>11. Grows
  BY <1>2, <1>3, <1>6, <1>7, <1>8, <1>9 DEF Grows
<1> QED BY <1>2, <1>6, <1>8, <1>10, <1>11 DEF n

LEMMA BeginFetchKeeps ==
  ASSUME SInv, NEW c \in Callers, NEW i, BeginFetch(c, i)
  PROVE  /\ SInv' /\ Grows
         /\ DOMAIN results' = DOMAIN results \ {i}
         /\ Busy = {} /\ Busy' = {c} /\ fetch'[c].id = i
<1> DEFINE f == [Idle EXCEPT !.pc = "request", !.id = i, !.url = results[i],
                             !.visited = {results[i]}]
<1>1. /\ i \in DOMAIN results /\ ~closed /\ ~fetching
      /\ results' = Restrict(results, DOMAIN results \ {i})
      /\ fetching' = TRUE /\ fetch' = [fetch EXCEPT ![c] = f]
      /\ issued' = issued /\ closed' = closed
  BY DEF BeginFetch, CanFetch, Set
<1>2. i \in 1 .. issued /\ issued \in Nat /\ i \in Ids /\ results[i] \in Public
  BY <1>1, Limits DEF SInv, Ids
<1>3. Pinned(f) /\ f.pc = "request" /\ f.id = i
  BY <1>2, BeginPinned
<1> HIDE DEF f
<1>4. DOMAIN results' = DOMAIN results \ {i}
      /\ \A j \in DOMAIN results' : results'[j] = results[j]
  BY <1>1 DEF Restrict
<1>5. fetch' \in [Callers -> Fetch] /\ fetch'[c] = f
      /\ \A d \in Callers : d # c => fetch'[d] = fetch[d]
  BY <1>1, <1>3 DEF SInv, Pinned
<1>6. Busy = {} /\ Busy' = {c}
  BY <1>1, <1>3, <1>5 DEF SInv, Busy
<1>7. \A d \in Callers : Pinned(fetch'[d])
  BY <1>3, <1>5 DEF SInv
<1>8. SInv'
  <2>1. (\A d \in Callers : Pinned(fetch[d]))'
    BY <1>7, PinnedThen
  <2> QED BY <1>1, <1>2, <1>3, <1>4, <1>5, <1>6, <2>1 DEF SInv
<1>9. Grows
  BY <1>1, <1>2, <1>3, <1>4, <1>5, <1>6 DEF Grows
<1> QED BY <1>3, <1>4, <1>5, <1>6, <1>8, <1>9

LEMMA FetchGoesOn ==
  ASSUME SInv, NEW c \in Callers, SendRequest(c) \/ Redirected(c)
  PROVE  /\ SInv' /\ Grows /\ Busy' = Busy /\ fetch'[c].id = fetch[c].id
         /\ \A d \in Callers : d # c => fetch'[d] = fetch[d]
         /\ UNCHANGED <<issued, results, closed, fetching>>
<1>1. PICK g : /\ Pinned(g) /\ g.pc # "idle" /\ g.id = fetch[c].id
               /\ fetch' = [fetch EXCEPT ![c] = g]
  <2>1. CASE SendRequest(c)
    <3>1. PICK addresses \in Answers :
            /\ Accepts(c, addresses)
            /\ Set(c, [fetch[c] EXCEPT
                         !.pc = "response",
                         !.answers[Destination(fetch[c].url)] = addresses,
                         !.asked = Append(@, [url |-> fetch[c].url,
                                              addresses |-> addresses])])
      BY <2>1 DEF SendRequest
    <3> DEFINE f == fetch[c]
    <3>2. /\ f.pc = "request" /\ Pinned(f)
          /\ addresses # {} /\ addresses \subseteq Routable
          /\ f.answers[Destination(f.url)] \in {{}, addresses}
      BY <2>1, <3>1 DEF SendRequest, SInv, Accepts
    <3>3. PICK g : g = [f EXCEPT
                          !.pc = "response",
                          !.answers[Destination(f.url)] = addresses,
                          !.asked = Append(@, [url |-> f.url,
                                               addresses |-> addresses])]
      OBVIOUS
    <3>4. fetch' = [fetch EXCEPT ![c] = g]
      BY <3>1, <3>3 DEF Set
    <3> HIDE DEF f
    <3>5. Pinned(g) /\ g.pc = "response" /\ g.id = f.id
      BY <3>2, <3>3, SendPinned
    <3> QED BY <3>4, <3>5 DEF f
  <2>2. CASE Redirected(c)
    <3>1. PICK u \in Urls :
            /\ Follows(c, u)
            /\ Set(c, [fetch[c] EXCEPT !.pc = "request", !.url = u,
                                       !.visited = @ \cup {u}, !.redirects = @ + 1])
      BY <2>2 DEF Redirected
    <3> DEFINE f == fetch[c]
    <3>2. /\ f.pc = "response" /\ Pinned(f) /\ f.redirects < MaxRedirects
          /\ u \in Public /\ (f.url \in Secure => u \in Secure) /\ u \notin f.visited
      BY <2>2, <3>1 DEF Redirected, SInv, Follows
    <3>3. PICK g : g = [f EXCEPT !.pc = "request", !.url = u,
                                 !.visited = @ \cup {u}, !.redirects = @ + 1]
      OBVIOUS
    <3>4. fetch' = [fetch EXCEPT ![c] = g]
      BY <3>1, <3>3 DEF Set
    <3> HIDE DEF f
    <3>5. Pinned(g) /\ g.pc = "request" /\ g.id = f.id
      BY <3>2, <3>3, RedirectPinned
    <3> QED BY <3>4, <3>5 DEF f
  <2> QED BY <2>1, <2>2
<1>2. UNCHANGED <<issued, results, closed, fetching>> /\ c \in Busy
  BY DEF SendRequest, Redirected, Busy
<1>3. fetch' \in [Callers -> Fetch] /\ fetch'[c] = g
      /\ \A d \in Callers : d # c => fetch'[d] = fetch[d]
  BY <1>1 DEF SInv, Pinned
<1>4. Busy' = Busy
  BY <1>1, <1>2, <1>3 DEF Busy
<1>5. \A d \in Callers : Pinned(fetch'[d])
  BY <1>1, <1>3 DEF SInv
<1>6. SInv'
  <2>1. (\A d \in Callers : Pinned(fetch[d]))'
    BY <1>5, PinnedThen
  <2>2. \A d \in Callers : fetch'[d].id = fetch[d].id
    BY <1>1, <1>3
  <2> QED BY <1>2, <1>3, <1>4, <2>1, <2>2 DEF SInv
<1>7. issued \in Nat
  BY Limits DEF SInv
<1>8. Grows
  BY <1>1, <1>2, <1>3, <1>4, <1>7 DEF Grows, Busy
<1> QED BY <1>1, <1>2, <1>3, <1>4, <1>6, <1>8

LEMMA EndFetchKeeps ==
  ASSUME SInv, NEW c \in Callers, ReturnPage(c) \/ FetchFails(c)
  PROVE  /\ SInv' /\ Grows /\ Busy = {c} /\ Busy' = {}
         /\ UNCHANGED <<issued, results, closed>>
<1>1. /\ fetch[c].pc # "idle" /\ fetch' = [fetch EXCEPT ![c] = Idle]
      /\ fetching' = FALSE /\ UNCHANGED <<issued, results, closed>>
  BY DEF ReturnPage, FetchFails, EndFetch, Set
<1>2. fetch' \in [Callers -> Fetch] /\ fetch'[c] = Idle
      /\ \A d \in Callers : d # c => fetch'[d] = fetch[d]
  BY <1>1, IdlePinned DEF SInv, Pinned
<1>3. Busy = {c} /\ Busy' = {}
  BY <1>1, <1>2, IdlePinned DEF SInv, Busy
<1>4. \A d \in Callers : Pinned(fetch'[d])
  BY <1>2, IdlePinned DEF SInv
<1>5. SInv'
  <2>1. (\A d \in Callers : Pinned(fetch[d]))'
    BY <1>4, PinnedThen
  <2> QED BY <1>1, <1>2, <1>3, <2>1 DEF SInv
<1>6. issued \in Nat
  BY Limits DEF SInv
<1>7. Grows
  BY <1>1, <1>3, <1>6 DEF Grows
<1> QED BY <1>1, <1>3, <1>5, <1>7

LEMMA CloseKeeps ==
  ASSUME SInv, Close
  PROVE  SInv' /\ Grows /\ DOMAIN results' = {} /\ Busy = {} /\ Busy' = {}
<1>1. ~fetching /\ closed' = TRUE /\ results' = <<>>
      /\ UNCHANGED <<issued, fetching, fetch>>
  BY DEF Close
<1>2. DOMAIN results' = {}
  BY <1>1
<1>3. Busy = {} /\ Busy' = Busy
  BY <1>1 DEF SInv, Busy
<1>4. SInv'
  <2>1. (\A d \in Callers : Pinned(fetch[d]))'
    BY <1>1, PinnedThen DEF SInv
  <2> QED BY <1>1, <1>2, <1>3, <2>1 DEF SInv
<1>5. issued \in Nat
  BY Limits DEF SInv
<1> QED BY <1>1, <1>2, <1>3, <1>4, <1>5 DEF Grows

(***************************************************************************)
(* The worker                                                              *)
(***************************************************************************)

\* Where the loops are.
LoopInv ==
  /\ worker \in [pc : {"query", "search", "result", "fetch"} \cup Ended,
                 query : Nat, pending : SUBSET Ids]
  /\ worker.pc = "fetch" <=> Worker \in Busy

\* A record is about a result that was taken out, not the one in hand.
RecordInv ==
  \A r \in analyzed :
    /\ r.id \in (1 .. issued) \ DOMAIN results
    /\ r.url \in Curated
    /\ Worker \in Busy => r.id # fetch[Worker].id
    /\ \A q \in analyzed : q.id = r.id => q = r

\* Unless a fetch of another task was in the way, a search begins with no
\* open result and the results still open are those the loop will reach.
CapInv ==
  skipped = {} =>
    /\ worker.pc = "query" /\ ~late => DOMAIN results = {}
    /\ worker.pc = "search" => DOMAIN results = {}
    /\ worker.pc \in {"result", "fetch"} => DOMAIN results \subseteq worker.pending
    /\ worker.pc = "refused" => closed

IInv == SInv /\ LoopInv /\ RecordInv /\ CapInv

\* Steps of the worker that leave the session alone.
LEMMA QuietStepKeeps ==
  ASSUME IInv, BeginQuery \/ SearchFails \/ SearchRaises \/ BudgetRunsOut
  PROVE  IInv'
<1>1. UNCHANGED sessionVars /\ UNCHANGED <<analyzed, skipped>>
  BY DEF BeginQuery, SearchFails, SearchRaises, BudgetRunsOut
<1>2. SInv' /\ Busy' = Busy
  BY <1>1, StaysKeeps DEF IInv, Busy, sessionVars
<1>3. UNCHANGED <<issued, results, closed, fetching, fetch>>
  BY <1>1 DEF sessionVars
<1>4. RecordInv'
  BY <1>1, <1>2, <1>3 DEF IInv, RecordInv
<1>5. LoopInv' /\ CapInv'
  <2>1. CASE BeginQuery
    <3>1. worker.pc = "query" /\ UNCHANGED late
          /\ \/ worker' = [worker EXCEPT !.pc = "returned"]
             \/ ~late /\ worker' = [worker EXCEPT !.pc = "search"]
      BY <2>1 DEF BeginQuery, Go
    <3> QED BY <1>1, <1>2, <1>3, <3>1 DEF IInv, LoopInv, CapInv, Ended
  <2>2. CASE SearchFails
    <3>1. /\ worker.pc = "search" /\ UNCHANGED late
          /\ worker' = [pc |-> "query", query |-> worker.query + 1, pending |-> {}]
      BY <2>2 DEF SearchFails, NextQuery
    <3> QED BY <1>1, <1>2, <1>3, <3>1 DEF IInv, LoopInv, CapInv
  <2>3. CASE SearchRaises
    <3>1. /\ worker.pc = "search" /\ UNCHANGED late
          /\ worker' = [worker EXCEPT !.pc = "raised"]
      BY <2>3 DEF SearchRaises, Go
    <3> QED BY <1>1, <1>2, <1>3, <3>1 DEF IInv, LoopInv, CapInv, Ended
  <2>4. CASE BudgetRunsOut
    BY <1>1, <1>2, <1>3, <2>4 DEF BudgetRunsOut, IInv, LoopInv, CapInv
  <2> QED BY <2>1, <2>2, <2>3, <2>4
<1> QED BY <1>2, <1>4, <1>5 DEF IInv

\* Records that stay behind a step of the session stay right.
LEMMA RecordsKeep ==
  ASSUME RecordInv, SInv, SInv', Grows, UNCHANGED analyzed
  PROVE  RecordInv'
<1>1. issued \in Nat /\ issued' \in Nat /\ issued <= issued'
  BY Limits DEF SInv, Grows
<1>2. 1 .. issued \subseteq 1 .. issued'
  BY <1>1
<1> QED BY <1>2 DEF RecordInv, Grows

LEMMA SearchAnswersKeeps ==
  ASSUME IInv, SearchAnswers
  PROVE  IInv'
<1>1. PICK hits \in SUBSET Curated :
        /\ Cardinality(hits) <= MaxHits
        /\ \/ /\ Record(hits)
              /\ worker' = [worker EXCEPT !.pc = "result",
                                          !.pending = NewIds(Cardinality(hits))]
           \/ /\ ~CanRecord(Cardinality(hits))
              /\ Go("refused")
              /\ UNCHANGED sessionVars
  BY DEF SearchAnswers
<1>2. worker.pc = "search" /\ UNCHANGED <<late, analyzed, skipped>>
  BY DEF SearchAnswers
<1>3. hits \in SUBSET Public /\ SInv
  BY Limits DEF IInv
<1>4. CASE /\ Record(hits)
           /\ worker' = [worker EXCEPT !.pc = "result",
                                       !.pending = NewIds(Cardinality(hits))]
  <2>1. /\ SInv' /\ Grows /\ NewIds(Cardinality(hits)) \subseteq Ids
        /\ DOMAIN results' = DOMAIN results \cup NewIds(Cardinality(hits))
    BY <1>3, <1>4, RecordKeeps
  <2>2. Busy' = Busy
    BY <1>4 DEF Record, Busy
  <2>3. worker'.pc = "result" /\ worker'.pending = NewIds(Cardinality(hits))
    BY <1>4 DEF IInv, LoopInv
  <2>4. LoopInv'
    BY <1>2, <1>4, <2>1, <2>2 DEF IInv, LoopInv
  <2>5. CapInv'
    BY <1>2, <2>1, <2>3 DEF IInv, CapInv
  <2> QED BY <1>2, <1>3, <2>1, <2>4, <2>5, RecordsKeep DEF IInv
<1>5. CASE /\ ~CanRecord(Cardinality(hits))
           /\ Go("refused")
           /\ UNCHANGED sessionVars
  <2>1. SInv' /\ Grows
    BY <1>3, <1>5, StaysKeeps
  <2>2. UNCHANGED <<results, closed, fetch>> /\ Busy' = Busy
    BY <1>5 DEF sessionVars, Busy
  <2>3. DOMAIN results = {} => closed
    <3> SUFFICES ASSUME DOMAIN results = {} PROVE closed
      OBVIOUS
    <3>1. Cardinality(DOMAIN results) = 0
      BY FS_EmptySet
    <3>2. IsFiniteSet(Urls) /\ hits \subseteq Urls
      BY <1>3, SessionAssumption, Limits, Zenon
    <3>3. Cardinality(hits) \in Nat
      BY <3>2, FS_Subset, FS_CardinalityType
    <3>4. MaxHits \in Nat /\ MaxHits <= MaxResults
      BY WorkerAssumption, Zenon
    <3>5. 0 + Cardinality(hits) <= MaxResults
      BY <1>1, <3>3, <3>4, Limits
    <3> QED BY <1>5, <3>1, <3>5 DEF CanRecord
  <2>4. worker'.pc = "refused" /\ LoopInv'
    BY <1>2, <1>5, <2>2 DEF IInv, LoopInv, Go, Ended
  <2>5. CapInv'
    BY <1>2, <2>2, <2>3, <2>4 DEF IInv, CapInv
  <2> QED BY <1>2, <1>3, <2>1, <2>4, <2>5, RecordsKeep DEF IInv
<1> QED BY <1>1, <1>4, <1>5

LEMMA BeginResultKeeps ==
  ASSUME IInv, BeginResult
  PROVE  IInv'
<1>1. /\ worker.pc = "result" /\ UNCHANGED <<late, analyzed>>
      /\ worker.pending \subseteq Ids /\ worker.query \in Nat
      /\ Worker \notin Busy /\ SInv
  BY DEF BeginResult, IInv, LoopInv
<1>2. CASE worker.pending = {} \/ late
  <2>1. /\ UNCHANGED sessionVars /\ UNCHANGED skipped
        /\ worker' = [pc |-> "query", query |-> worker.query + 1, pending |-> {}]
    BY <1>2 DEF BeginResult, NextQuery
  <2>2. SInv' /\ Grows
    BY <1>1, <2>1, StaysKeeps
  <2>3. UNCHANGED results /\ Busy' = Busy
    BY <2>1 DEF sessionVars, Busy
  <2>4. worker'.pc = "query" /\ worker'.pending = {} /\ worker'.query \in Nat
    BY <1>1, <2>1
  <2>5. LoopInv'
    BY <1>1, <2>1, <2>3, <2>4 DEF LoopInv
  <2>6. skipped = {} /\ ~late => DOMAIN results = {}
    BY <1>1, <1>2 DEF IInv, CapInv
  <2>7. CapInv'
    BY <1>1, <2>1, <2>3, <2>4, <2>6 DEF CapInv
  <2> QED BY <1>1, <2>2, <2>5, <2>7, RecordsKeep DEF IInv
<1>3. CASE ~(worker.pending = {} \/ late)
  <2> DEFINE i == First(worker.pending)
  <2> HIDE DEF i
  <2>1. /\ worker' = [worker EXCEPT
                        !.pc = IF CanFetch(i) THEN "fetch" ELSE "result",
                        !.pending = @ \ {i}]
        /\ IF CanFetch(i) THEN BeginFetch(Worker, i) ELSE UNCHANGED sessionVars
        /\ skipped' = IF fetching THEN skipped \cup {i} ELSE skipped
    BY <1>3 DEF BeginResult, i
  <2>2. /\ worker'.pc = IF CanFetch(i) THEN "fetch" ELSE "result"
        /\ worker'.pending = worker.pending \ {i}
        /\ worker'.query = worker.query
        /\ worker' \in [pc : {"query", "search", "result", "fetch"} \cup Ended,
                        query : Nat, pending : SUBSET Ids]
    BY <2>1 DEF IInv, LoopInv
  <2>3. CASE CanFetch(i)
    <3>1. BeginFetch(Worker, i) /\ Worker \in Callers
      BY <2>1, <2>3, Limits
    <3>2. SInv' /\ Grows /\ DOMAIN results' = DOMAIN results \ {i} /\ Busy' = {Worker}
      BY <1>1, <3>1, BeginFetchKeeps
    <3>3. skipped' = skipped
      BY <2>1, <2>3 DEF CanFetch
    <3>4. LoopInv' /\ CapInv'
      BY <1>1, <2>2, <2>3, <3>2, <3>3 DEF IInv, LoopInv, CapInv
    <3> QED BY <1>1, <3>2, <3>4, RecordsKeep DEF IInv
  <2>4. CASE ~CanFetch(i)
    <3>1. UNCHANGED sessionVars
      BY <2>1, <2>4
    <3>2. SInv' /\ Grows
      BY <1>1, <3>1, StaysKeeps
    <3>3. UNCHANGED results /\ Busy' = Busy
      BY <3>1 DEF sessionVars, Busy
    <3>4. skipped' = {} => skipped = {} /\ i \notin DOMAIN results
      BY <1>1, <2>1, <2>4 DEF CanFetch, SInv
    <3>5. LoopInv' /\ CapInv'
      BY <1>1, <2>2, <2>4, <3>3, <3>4 DEF IInv, LoopInv, CapInv
    <3> QED BY <1>1, <3>2, <3>5, RecordsKeep DEF IInv
  <2> QED BY <2>3, <2>4
<1> QED BY <1>2, <1>3

LEMMA WorkerFetchesKeeps ==
  ASSUME IInv, WorkerFetches
  PROVE  IInv'
<1>1. /\ SInv' /\ Grows /\ Busy' = Busy /\ UNCHANGED workerVars
      /\ UNCHANGED <<issued, results, closed, fetching>>
  BY FetchGoesOn, Limits DEF WorkerFetches, IInv
<1>2. UNCHANGED <<worker, late, analyzed, skipped>>
  BY <1>1 DEF workerVars
<1>3. LoopInv' /\ CapInv'
  BY <1>1, <1>2 DEF IInv, LoopInv, CapInv
<1> QED BY <1>1, <1>2, <1>3, RecordsKeep DEF IInv

LEMMA FetchEndsKeeps ==
  ASSUME IInv, Analyze \/ SkipResult
  PROVE  IInv'
<1>1. /\ SInv' /\ Grows /\ Busy = {Worker} /\ Busy' = {}
      /\ UNCHANGED <<issued, results, closed>>
  BY EndFetchKeeps, Limits DEF Analyze, SkipResult, IInv
<1>2. /\ worker.pc = "fetch" /\ worker' = [worker EXCEPT !.pc = "result"]
      /\ UNCHANGED <<late, skipped>>
  BY DEF Analyze, SkipResult, Go
<1>3. LoopInv' /\ CapInv'
  BY <1>1, <1>2 DEF IInv, LoopInv, CapInv
<1>4. CASE UNCHANGED analyzed
  BY <1>1, <1>3, <1>4, RecordsKeep DEF IInv
<1>5. CASE Analyze /\ Analyzable(Page) /\ analyzed' = analyzed \cup {Page}
  <2>1. /\ Page.id = fetch[Worker].id /\ Page.url \in Curated
        /\ fetch[Worker].id \in (1 .. issued) \ DOMAIN results
    BY <1>1, <1>5 DEF Page, Analyzable, IInv, SInv
  <2>2. RecordInv'
    BY <1>1, <1>5, <2>1 DEF IInv, RecordInv
  <2> QED BY <1>1, <1>3, <2>2 DEF IInv
<1> QED BY <1>4, <1>5 DEF Analyze, SkipResult

LEMMA OthersKeep ==
  ASSUME IInv, Others
  PROVE  IInv'
<1>1. UNCHANGED <<worker, late, analyzed, skipped>> /\ SInv
  BY DEF Others, workerVars, IInv
<1> DEFINE Harmless ==
             /\ SInv' /\ Grows
             /\ DOMAIN results' \subseteq DOMAIN results
             /\ closed => closed'
             /\ Worker \in Busy' <=> Worker \in Busy
<1>2. Harmless
  <2>1. CASE Close
    <3>1. closed'
      BY <2>1 DEF Close
    <3> QED BY <1>1, <2>1, <3>1, CloseKeeps
  <2>2. ASSUME NEW c \in Callers \ {Worker}, FetchStep(c)
        PROVE  Harmless
    <3>1. CASE SendRequest(c) \/ Redirected(c)
      BY <1>1, <2>2, <3>1, FetchGoesOn
    <3>2. CASE ReturnPage(c) \/ FetchFails(c)
      BY <1>1, <2>2, <3>2, EndFetchKeeps
    <3> QED BY <2>2, <3>1, <3>2 DEF FetchStep
  <2>3. ASSUME NEW c \in Callers \ {Worker}, NEW i \in DOMAIN results,
               BeginFetch(c, i)
        PROVE  Harmless
    <3>1. closed' = closed
      BY <2>3 DEF BeginFetch
    <3> QED BY <1>1, <2>3, <3>1, BeginFetchKeeps
  <2> QED BY <2>1, <2>2, <2>3 DEF Others
<1>3. LoopInv' /\ CapInv'
  BY <1>1, <1>2 DEF IInv, LoopInv, CapInv
<1> QED BY <1>1, <1>2, <1>3, RecordsKeep DEF IInv

LEMMA IInvHolds == WorkerSpec => []IInv
<1>1. WorkerInit => IInv
  <2> SUFFICES ASSUME WorkerInit PROVE IInv
    OBVIOUS
  <2>1. /\ issued = 0 /\ DOMAIN results = {} /\ ~closed /\ closed = FALSE
        /\ fetching = FALSE /\ fetch = [c \in Callers |-> Idle]
        /\ worker = [pc |-> "query", query |-> 0, pending |-> {}]
        /\ analyzed = {} /\ skipped = {}
    BY DEF WorkerInit, SessionInit
  <2>2. Idle \in Fetch
    BY IdlePinned DEF Pinned
  <2>3. Busy = {} /\ \A c \in Callers : Pinned(fetch[c])
    BY <2>1, IdlePinned DEF Busy
  <2>4. issued \in 0 .. MaxIds /\ fetch \in [Callers -> Fetch]
    BY <2>1, <2>2, Limits
  <2>5. SInv
    BY <2>1, <2>3, <2>4 DEF SInv
  <2> QED BY <2>1, <2>3, <2>5, Limits DEF IInv, LoopInv, RecordInv, CapInv
<1>2. IInv /\ [WorkerNext]_vars => IInv'
  <2> SUFFICES ASSUME IInv, [WorkerNext]_vars PROVE IInv'
    OBVIOUS
  <2>1. CASE UNCHANGED vars
    <3>1. UNCHANGED sessionVars /\ UNCHANGED <<worker, late, analyzed, skipped>>
      BY <2>1 DEF vars, workerVars
    <3>2. SInv' /\ Grows /\ Busy' = Busy /\ UNCHANGED <<results, closed>>
      BY <3>1, StaysKeeps DEF IInv, sessionVars, Busy
    <3>3. LoopInv' /\ CapInv'
      BY <3>1, <3>2 DEF IInv, LoopInv, CapInv
    <3> QED BY <3>1, <3>2, <3>3, RecordsKeep DEF IInv
  <2> QED
    BY <2>1, QuietStepKeeps, SearchAnswersKeeps, BeginResultKeeps,
       WorkerFetchesKeeps, FetchEndsKeeps, OthersKeep
       DEF WorkerNext, WorkerStep
<1> QED BY <1>1, <1>2, PTL DEF WorkerSpec

\* The requests of one fetch are bounded, go to distinct public URLs and, for
\* one host and port, to one set of public addresses, however often servers
\* redirect (_fetch_url) and names are resolved again (_PublicResolver).
THEOREM FetchesStayPinned == WorkerSpec => []FetchStaysPinned
<1>1. IInv => FetchStaysPinned
  BY PinnedIsEnough DEF IInv, SInv
<1> QED BY <1>1, IInvHolds, PTL

\* Every record analyze_result returned is the only one of a result this run
\* issued and used up, and its page belongs to a curated source.
THEOREM RecordsNameTheirSources == WorkerSpec => []RecordsHaveSources
<1>1. IInv => RecordsHaveSources
  <2> SUFFICES ASSUME IInv PROVE RecordsHaveSources
    OBVIOUS
  <2>1. issued \in Nat
    BY Limits DEF IInv, SInv
  <2> QED BY <2>1 DEF IInv, RecordInv, RecordsHaveSources
<1> QED BY <1>1, IInvHolds, PTL

\* The cap of record_search_results ends no run whose session was not closed
\* and whose results were all tried, for any number of queries and hits.
THEOREM TheCapEndsNoRun == WorkerSpec => []CapNeverReached
<1>1. IInv => CapNeverReached
  BY DEF IInv, CapInv, CapNeverReached
<1> QED BY <1>1, IInvHolds, PTL

(***************************************************************************)
(* The bounds: the cap of the session, the loop over the queries and the   *)
(* records.                                                                *)
(***************************************************************************)

Open == DOMAIN results

BoundInv ==
  /\ Cardinality(Open) <= MaxResults
  /\ worker.query <= Queries
  /\ worker.pc \in {"search", "result", "fetch"} => worker.query < Queries
  /\ late \in BOOLEAN
  /\ analyzed \subseteq [id : Ids, url : Urls]

LEMMA OpenIsFinite ==
  ASSUME SInv
  PROVE  IsFiniteSet(Open) /\ Cardinality(Open) \in Nat
<1>1. issued \in Nat /\ Open \subseteq 1 .. issued
  BY Limits DEF SInv, Open
<1>2. IsFiniteSet(1 .. issued)
  BY <1>1, FS_Interval
<1> QED BY <1>1, <1>2, FS_Subset, FS_CardinalityType

\* A step that records nothing leaves room.
LEMMA FewerFit ==
  ASSUME SInv, Cardinality(Open) <= MaxResults, Open' \subseteq Open
  PROVE  (Cardinality(Open) <= MaxResults)'
<1>1. Cardinality(Open') <= Cardinality(Open) /\ Cardinality(Open') \in Nat
  BY OpenIsFinite, FS_Subset, FS_CardinalityType
<1> QED BY <1>1, OpenIsFinite, Limits

\* record_search_results adds no more than CanRecord has counted.
LEMMA RecordFits ==
  ASSUME SInv, NEW hits \in SUBSET Public, Record(hits)
  PROVE  (Cardinality(Open) <= MaxResults)'
<1> DEFINE n == Cardinality(hits)
<1>1. n \in Nat /\ Open' = Open \cup NewIds(n)
  BY RecordKeeps DEF Open
<1>2. Cardinality(Open) + n <= MaxResults
  BY DEF Record, CanRecord, Open
<1>3. issued \in Nat
  BY Limits DEF SInv
<1> HIDE DEF n
<1>4. IsFiniteSet(NewIds(n)) /\ Cardinality(NewIds(n)) = n
  BY <1>1, <1>3, FS_Interval DEF NewIds
<1>5. Open \cap NewIds(n) = {}
  BY <1>1, <1>3 DEF SInv, Open, NewIds
<1>6. Cardinality(Open \cup NewIds(n)) = Cardinality(Open) + n - 0
  BY <1>1, <1>4, <1>5, OpenIsFinite, FS_Union, FS_EmptySet
<1> QED BY <1>1, <1>2, <1>6, OpenIsFinite

LEMMA NextBoundInv ==
  ASSUME IInv, BoundInv, [WorkerNext]_vars
  PROVE  BoundInv'
<1>1. Queries \in Nat /\ worker.query \in Nat /\ SInv
  BY WorkerAssumption, Zenon DEF IInv, LoopInv
<1>2. /\ worker \in [pc : {"query", "search", "result", "fetch"} \cup Ended,
                     query : Nat, pending : SUBSET Ids]
      /\ "search" \notin Ended /\ "result" \notin Ended /\ "fetch" \notin Ended
  BY DEF IInv, LoopInv, Ended
<1> DEFINE LoopBound ==
             /\ worker.query <= Queries
             /\ worker.pc \in {"search", "result", "fetch"} => worker.query < Queries
<1>3. ASSUME UNCHANGED <<results, late, analyzed>>, LoopBound'
      PROVE  BoundInv'
  BY <1>3 DEF BoundInv, Open
<1>4. ASSUME Open' \subseteq Open, LoopBound', late' = late,
             analyzed' \subseteq [id : Ids, url : Urls]
      PROVE  BoundInv'
  BY <1>1, <1>4, FewerFit DEF BoundInv
<1>5. CASE BeginQuery
  <2>1. /\ worker.pc = "query" /\ UNCHANGED <<results, late, analyzed>>
        /\ \/ worker' = [worker EXCEPT !.pc = "returned"]
           \/ worker.query # Queries /\ worker' = [worker EXCEPT !.pc = "search"]
    BY <1>5 DEF BeginQuery, Go, sessionVars
  <2> QED BY <1>1, <1>2, <1>3, <2>1 DEF BoundInv
<1>6. CASE SearchFails \/ SearchRaises
  <2>1. /\ worker.pc = "search" /\ UNCHANGED <<results, late, analyzed>>
        /\ \/ worker' = [pc |-> "query", query |-> worker.query + 1, pending |-> {}]
           \/ worker' = [worker EXCEPT !.pc = "raised"]
    BY <1>6 DEF SearchFails, SearchRaises, NextQuery, Go, sessionVars
  <2> QED BY <1>1, <1>2, <1>3, <2>1 DEF BoundInv
<1>7. CASE BudgetRunsOut
  BY <1>7 DEF BudgetRunsOut, sessionVars, BoundInv, Open
<1>8. CASE SearchAnswers
  <2>1. PICK hits \in SUBSET Curated :
          \/ /\ Record(hits)
             /\ worker' = [worker EXCEPT !.pc = "result",
                                         !.pending = NewIds(Cardinality(hits))]
          \/ Go("refused") /\ UNCHANGED sessionVars
    BY <1>8 DEF SearchAnswers
  <2>2. worker.pc = "search" /\ UNCHANGED <<late, analyzed>>
    BY <1>8 DEF SearchAnswers
  <2>3. worker'.query = worker.query
    BY <1>2, <2>1 DEF Go
  <2>4. LoopBound'
    BY <2>2, <2>3 DEF BoundInv
  <2>5. hits \in SUBSET Public
    BY Limits
  <2>6. CASE Record(hits)
    BY <1>1, <2>2, <2>4, <2>5, <2>6, RecordFits DEF BoundInv
  <2>7. CASE UNCHANGED sessionVars
    BY <1>3, <2>2, <2>4, <2>7 DEF sessionVars
  <2> QED BY <2>1, <2>6, <2>7
<1>9. CASE BeginResult
  <2>1. worker.pc = "result" /\ UNCHANGED <<late, analyzed>>
    BY <1>9 DEF BeginResult
  <2>2. CASE NextQuery /\ UNCHANGED sessionVars
    <3>1. worker' = [pc |-> "query", query |-> worker.query + 1, pending |-> {}]
      BY <2>2 DEF NextQuery
    <3> QED BY <1>1, <1>3, <2>1, <2>2, <3>1 DEF BoundInv, sessionVars
  <2>3. ASSUME NEW i, NEW pc,
               worker' = [worker EXCEPT !.pc = pc, !.pending = @ \ {i}],
               BeginFetch(Worker, i) \/ UNCHANGED sessionVars
        PROVE  BoundInv'
    <3>1. worker'.query = worker.query
      BY <1>2, <2>3
    <3>2. LoopBound'
      BY <2>1, <3>1 DEF BoundInv
    <3>3. Open' \subseteq Open
      BY <1>1, <2>3, BeginFetchKeeps, Limits DEF sessionVars, Open
    <3>4. late' = late /\ analyzed' \subseteq [id : Ids, url : Urls]
      BY <2>1 DEF BoundInv
    <3> QED BY <1>4, <3>2, <3>3, <3>4
  <2> QED BY <1>9, <2>2, <2>3 DEF BeginResult
<1>10. CASE WorkerFetches
  <2>1. UNCHANGED <<worker, late, analyzed, results>>
    BY <1>10 DEF WorkerFetches, workerVars, SendRequest, Redirected
  <2> QED BY <1>3, <2>1 DEF BoundInv
<1>11. CASE Analyze \/ SkipResult
  <2>1. UNCHANGED results /\ Busy = {Worker}
    BY <1>1, <1>11, EndFetchKeeps, Limits DEF Analyze, SkipResult
  <2>2. /\ worker.pc = "fetch" /\ worker' = [worker EXCEPT !.pc = "result"]
        /\ late' = late
    BY <1>11 DEF Analyze, SkipResult, Go
  <2>3. LoopBound'
    BY <1>2, <2>2 DEF BoundInv
  <2>4. \/ analyzed' = analyzed
        \/ Page.url \in Curated /\ analyzed' = analyzed \cup {Page}
    BY <1>11 DEF Analyze, SkipResult, Analyzable
  <2>5. Page.id \in Ids
    BY <1>1, <2>1, Limits DEF Page, SInv, Ids
  <2>6. Page.url \in Curated => Page \in [id : Ids, url : Urls]
    BY <2>5, Limits DEF Page
  <2>7. analyzed' \subseteq [id : Ids, url : Urls]
    BY <2>4, <2>6 DEF BoundInv
  <2> QED BY <1>4, <2>1, <2>2, <2>3, <2>7 DEF Open
<1>12. CASE Others
  <2>1. UNCHANGED <<worker, late, analyzed>>
    BY <1>12 DEF Others, workerVars
  <2>2. Open' \subseteq Open
    <3>1. ASSUME NEW c \in Callers, FetchStep(c)
          PROVE  results' = results
      BY <3>1 DEF FetchStep, SendRequest, Redirected, ReturnPage, FetchFails, EndFetch
    <3>2. ASSUME NEW c \in Callers, NEW i, BeginFetch(c, i)
          PROVE  Open' \subseteq Open
      BY <1>1, <3>2, BeginFetchKeeps DEF Open
    <3>3. ASSUME Close PROVE Open' = {}
      BY <1>1, <3>3, CloseKeeps DEF Open
    <3> QED BY <1>12, <3>1, <3>2, <3>3 DEF Others, Open
  <2> QED BY <1>4, <2>1, <2>2 DEF BoundInv
<1>13. CASE UNCHANGED vars
  BY <1>3, <1>13 DEF vars, sessionVars, workerVars, BoundInv
<1> QED
  BY <1>5, <1>6, <1>7, <1>8, <1>9, <1>10, <1>11, <1>12, <1>13
     DEF WorkerNext, WorkerStep

\* However the servers answer and other tasks use the session, it never holds
\* more than MAX_SEARCH_RESULTS open results, the worker asks no query after
\* the last one, and it waits for a page exactly while its fetch is open.
THEOREM WorkerTypesHold == WorkerSpec => []WorkerTypeOK
<1>1. WorkerInit => BoundInv
  <2> SUFFICES ASSUME WorkerInit PROVE BoundInv
    OBVIOUS
  <2>1. Open = {} /\ worker = [pc |-> "query", query |-> 0, pending |-> {}]
        /\ late = FALSE /\ analyzed = {}
    BY DEF WorkerInit, SessionInit, Open
  <2>2. Queries \in Nat
    BY WorkerAssumption, Zenon
  <2>3. Cardinality(Open) <= MaxResults
    <3>1. Cardinality(Open) = 0
      BY <2>1, FS_EmptySet
    <3> QED BY <3>1, Limits
  <2>4. worker.query = 0 /\ worker.pc = "query"
    BY <2>1
  <2>5. worker.query <= Queries
    BY <2>2, <2>4
  <2> QED BY <2>1, <2>3, <2>4, <2>5 DEF BoundInv
<1>2. IInv /\ BoundInv => WorkerTypeOK
  <2> SUFFICES ASSUME IInv, BoundInv PROVE WorkerTypeOK
    OBVIOUS
  <2>1. SInv /\ LoopInv /\ Worker \in Callers
    BY Limits DEF IInv
  <2>2. SessionTypeOK
    BY <2>1, OpenIsFinite DEF SInv, BoundInv, SessionTypeOK, Open
  <2>3. Queries \in Nat
    BY WorkerAssumption, Zenon
  <2>4. worker \in [pc : {"query", "search", "result", "fetch"} \cup Ended,
                    query : 0 .. Queries, pending : SUBSET Ids]
    BY <2>1, <2>3 DEF LoopInv, BoundInv
  <2>5. worker.pc = "fetch" <=> fetch[Worker].pc # "idle"
    BY <2>1 DEF LoopInv, Busy
  <2> QED BY <2>2, <2>4, <2>5 DEF BoundInv, WorkerTypeOK
<1>3. IInv /\ BoundInv /\ [WorkerNext]_vars => BoundInv'
  BY NextBoundInv
<1> QED BY <1>1, <1>2, <1>3, IInvHolds, PTL DEF WorkerSpec

(***************************************************************************)
(* The refinement                                                          *)
(***************************************************************************)

InHand == {fetch[c].id : c \in Busy}

\* StateOf without its quantifier, before and after a step.
LEMMA StateIs ==
  ASSUME NEW i
  PROVE  /\ StateOf(i) = IF i \in InHand THEN "inuse"
                         ELSE IF i \in DOMAIN results THEN "issued"
                         ELSE IF i > issued THEN "unissued" ELSE "spent"
         /\ StateOf(i)' = IF i \in InHand' THEN "inuse"
                          ELSE IF i \in DOMAIN results' THEN "issued"
                          ELSE IF i > issued' THEN "unissued" ELSE "spent"
<1>1. i \in InHand <=> \E c \in Callers : fetch[c].pc # "idle" /\ fetch[c].id = i
  BY DEF InHand, Busy
<1>2. i \in InHand' <=> \E c \in Callers : fetch'[c].pc # "idle" /\ fetch'[c].id = i
  BY DEF InHand, Busy
<1> QED BY <1>1, <1>2 DEF StateOf

\* A step that moves no id and leaves the session as open as it was.
LEMMA NothingMoves ==
  ASSUME InHand' = InHand, UNCHANGED <<issued, results, closed>>
  PROVE  UNCHANGED Capability!capabilityVars
<1>1. \A i \in Ids : StateOf(i)' = StateOf(i)
  BY StateIs
<1> QED BY <1>1 DEF Capability!capabilityVars

LEMMA RecordIssues ==
  ASSUME SInv, NEW hits \in SUBSET Public, Record(hits)
  PROVE  Capability!Issue(NewIds(Cardinality(hits)))
<1> DEFINE new == NewIds(Cardinality(hits))
<1>1. /\ new \subseteq Ids /\ Cardinality(hits) \in Nat
      /\ DOMAIN results' = DOMAIN results \cup new
  BY RecordKeeps
<1>2. /\ ~closed /\ UNCHANGED <<closed, fetch>>
      /\ issued' = issued + Cardinality(hits)
  BY DEF Record, CanRecord
<1>3. issued \in Nat /\ InHand \subseteq 1 .. issued /\ DOMAIN results \subseteq 1 .. issued
  BY Limits DEF SInv, InHand
<1>4. \A i \in Ids : i \in new <=> i > issued /\ ~(i > issued')
  BY <1>1, <1>2, <1>3, Limits DEF NewIds, Ids
<1>5. \A i \in new : i > issued /\ i \notin InHand /\ i \notin DOMAIN results
  BY <1>1, <1>3, <1>4, Limits DEF Ids
<1>6. InHand' = InHand
  BY <1>2 DEF InHand, Busy
<1>7. \A i \in Ids : i \in new => StateOf(i) = "unissued" /\ StateOf(i)' = "issued"
  BY <1>1, <1>5, <1>6, StateIs
<1>8. \A i \in Ids : i \notin new => StateOf(i)' = StateOf(i)
  <2> SUFFICES ASSUME NEW i \in Ids, i \notin new
               PROVE  StateOf(i)' = StateOf(i)
    OBVIOUS
  <2>1. i \in Nat /\ issued' \in Nat /\ issued <= issued'
    BY <1>1, <1>2, <1>3, Limits DEF Ids
  <2>2. i > issued <=> i > issued'
    BY <1>4, <2>1, <1>3
  <2> QED BY <1>1, <1>6, <2>2, StateIs
<1> HIDE DEF new
<1>9. Capability!Issue(new)
  BY <1>1, <1>2, <1>7, <1>8 DEF Capability!Issue, Capability!In
<1> QED BY <1>9 DEF new

LEMMA BeginFetchUses ==
  ASSUME SInv, NEW c \in Callers, NEW i, BeginFetch(c, i)
  PROVE  i \in Ids /\ Capability!Use(i)
<1>1. /\ DOMAIN results' = DOMAIN results \ {i}
      /\ Busy = {} /\ Busy' = {c} /\ fetch'[c].id = i
  BY BeginFetchKeeps
<1>2. i \in DOMAIN results /\ ~closed /\ UNCHANGED <<issued, closed>>
  BY DEF BeginFetch, CanFetch
<1>3. InHand = {} /\ InHand' = {i}
  BY <1>1 DEF InHand
<1>4. i \in Ids
  BY <1>2, Limits DEF SInv, Ids
<1>5. \A j \in Ids : StateOf(j) # "inuse"
  BY <1>3, StateIs
<1>6. StateOf(i) = "issued" /\ StateOf(i)' = "inuse"
  BY <1>2, <1>3, StateIs
<1>7. \A j \in Ids : j # i => StateOf(j)' = StateOf(j)
  BY <1>1, <1>2, <1>3, StateIs
<1> QED
  BY <1>2, <1>4, <1>5, <1>6, <1>7 DEF Capability!Use, Capability!In

LEMMA EndFetchSpends ==
  ASSUME SInv, NEW c \in Callers, ReturnPage(c) \/ FetchFails(c)
  PROVE  \E i \in Ids : Capability!Spend(i)
<1>1. Busy = {c} /\ Busy' = {} /\ UNCHANGED <<issued, results, closed>>
  BY EndFetchKeeps
<1>2. PICK i : i = fetch[c].id
  OBVIOUS
<1>3. InHand = {i} /\ InHand' = {}
  BY <1>1, <1>2 DEF InHand
<1>4. i \in 1 .. issued /\ i \notin DOMAIN results /\ issued \in 0 .. MaxIds
  BY <1>1, <1>2 DEF SInv
<1>5. i \in Ids /\ ~(i > issued)
  BY <1>4, Limits DEF Ids
<1>6. StateOf(i) = "inuse" /\ StateOf(i)' = "spent"
  BY <1>1, <1>3, <1>4, <1>5, StateIs
<1>7. \A j \in Ids : j # i => StateOf(j)' = StateOf(j)
  BY <1>1, <1>3, StateIs
<1>8. Capability!Spend(i)
  BY <1>1, <1>5, <1>6, <1>7 DEF Capability!Spend
<1> QED BY <1>5, <1>8

LEMMA CloseShuts ==
  ASSUME SInv, Close
  PROVE  Capability!Shut
<1>1. DOMAIN results' = {} /\ Busy = {} /\ Busy' = {}
  BY CloseKeeps
<1>2. closed' = TRUE /\ issued' = issued
  BY DEF Close
<1>3. InHand = {} /\ InHand' = {}
  BY <1>1 DEF InHand
<1>4. \A i \in DOMAIN results : ~(i > issued)
  BY Limits DEF SInv
<1>5. \A i \in Ids : /\ StateOf(i) # "inuse"
                     /\ StateOf(i)' = IF StateOf(i) = "issued" THEN "spent"
                                      ELSE StateOf(i)
  <2> SUFFICES ASSUME NEW i \in Ids
               PROVE  /\ StateOf(i) # "inuse"
                      /\ StateOf(i)' = IF StateOf(i) = "issued" THEN "spent"
                                       ELSE StateOf(i)
    OBVIOUS
  <2>1. StateOf(i)' = IF i > issued THEN "unissued" ELSE "spent"
    BY <1>1, <1>2, <1>3, StateIs
  <2>2. CASE i \in DOMAIN results
    <3>1. StateOf(i) = "issued"
      BY <1>3, <2>2, StateIs
    <3> QED BY <1>4, <2>1, <2>2, <3>1
  <2>3. CASE i \notin DOMAIN results
    <3>1. StateOf(i) = IF i > issued THEN "unissued" ELSE "spent"
      BY <1>3, <2>3, StateIs
    <3> QED BY <2>1, <3>1
  <2> QED BY <2>2, <2>3
<1> QED BY <1>2, <1>5 DEF Capability!Shut, Capability!In

\* An id that was issued opens one fetch, one at a time, in no order of calls,
\* failures and cancellations a second one, and none after close: the session
\* under the worker implements ResultCapability.
THEOREM SessionImplementsCapability == WorkerSpec => ImplementsCapability
<1>1. WorkerInit => Capability!CapabilityInit
  <2> SUFFICES ASSUME WorkerInit PROVE Capability!CapabilityInit
    OBVIOUS
  <2>1. /\ issued = 0 /\ DOMAIN results = {} /\ closed = FALSE
        /\ fetch = [c \in Callers |-> Idle]
    BY DEF WorkerInit, SessionInit
  <2>2. InHand = {}
    BY <2>1, IdlePinned DEF InHand, Busy
  <2>3. \A i \in Ids : StateOf(i) = "unissued"
    BY <2>1, <2>2, StateIs, Limits DEF Ids
  <2> QED BY <2>1, <2>3 DEF Capability!CapabilityInit
<1>2. IInv /\ [WorkerNext]_vars
        => [Capability!CapabilityNext]_Capability!capabilityVars
  <2> SUFFICES ASSUME SInv, [WorkerNext]_vars
               PROVE  \/ Capability!CapabilityNext
                      \/ UNCHANGED Capability!capabilityVars
    BY DEF IInv
  <2>1. ASSUME UNCHANGED sessionVars PROVE UNCHANGED Capability!capabilityVars
    <3>1. InHand' = InHand /\ UNCHANGED <<issued, results, closed>>
      BY <2>1 DEF sessionVars, InHand, Busy
    <3> QED BY <3>1, NothingMoves
  <2>2. ASSUME NEW c \in Callers, SendRequest(c) \/ Redirected(c)
        PROVE  UNCHANGED Capability!capabilityVars
    <3>1. /\ Busy' = Busy /\ fetch'[c].id = fetch[c].id
          /\ \A d \in Callers : d # c => fetch'[d] = fetch[d]
          /\ UNCHANGED <<issued, results, closed>>
      BY <2>2, FetchGoesOn
    <3>2. \A d \in Busy : fetch'[d].id = fetch[d].id
      BY <3>1 DEF Busy
    <3>3. InHand' = InHand
      BY <3>1, <3>2 DEF InHand
    <3> QED BY <3>1, <3>3, NothingMoves
  <2>3. ASSUME NEW c \in Callers, ReturnPage(c) \/ FetchFails(c)
        PROVE  Capability!CapabilityNext
    BY <2>3, EndFetchSpends DEF Capability!CapabilityNext
  <2>4. ASSUME NEW c \in Callers, NEW i, BeginFetch(c, i)
        PROVE  Capability!CapabilityNext
    BY <2>4, BeginFetchUses DEF Capability!CapabilityNext
  <2>5. ASSUME NEW hits \in SUBSET Public, Record(hits)
        PROVE  Capability!CapabilityNext
    <3>1. NewIds(Cardinality(hits)) \subseteq Ids
      BY <2>5, RecordKeeps
    <3> QED BY <2>5, <3>1, RecordIssues DEF Capability!CapabilityNext
  <2>6. ASSUME Close PROVE Capability!CapabilityNext
    BY <2>6, CloseShuts DEF Capability!CapabilityNext
  <2>7. CASE BeginQuery \/ SearchFails \/ SearchRaises \/ BudgetRunsOut
    BY <2>1, <2>7 DEF BeginQuery, SearchFails, SearchRaises, BudgetRunsOut
  <2>8. CASE SearchAnswers
    BY <2>1, <2>5, <2>8, Limits DEF SearchAnswers
  <2>9. CASE BeginResult
    BY <2>1, <2>4, <2>9, Limits DEF BeginResult
  <2>10. CASE WorkerFetches
    BY <2>2, <2>10, Limits DEF WorkerFetches
  <2>11. CASE Analyze \/ SkipResult
    BY <2>3, <2>11, Limits DEF Analyze, SkipResult
  <2>12. CASE Others
    <3>1. ASSUME NEW c \in Callers, FetchStep(c)
          PROVE  \/ Capability!CapabilityNext
                 \/ UNCHANGED Capability!capabilityVars
      BY <2>2, <2>3, <3>1 DEF FetchStep
    <3> QED BY <2>4, <2>6, <2>12, <3>1 DEF Others
  <2>13. CASE UNCHANGED vars
    BY <2>1, <2>13 DEF vars
  <2> QED
    BY <2>7, <2>8, <2>9, <2>10, <2>11, <2>12, <2>13 DEF WorkerNext, WorkerStep
<1> QED
  BY <1>1, <1>2, IInvHolds, PTL
     DEF WorkerSpec, ImplementsCapability, Capability!CapabilitySpec
=============================================================================
