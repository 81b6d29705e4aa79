-------------------------- MODULE ExactlyOnceProofs --------------------------
(***************************************************************************)
(* At most one note per Pacific date, for any number of days, keys,        *)
(* messages, crashes and late answers: of any number of ticks that overlap *)
(* as long as no stale one retries an ambiguous delivery, and without that *)
(* premise of ticks that do not overlap.                                   *)
(***************************************************************************)
EXTENDS DailySendProofs, FiniteSetTheorems

\* The documented rule is all that DocumentedSpec adds.
LEMMA RuleMakesDocumented == Spec /\ UnknownNeverRetried => DocumentedSpec
<1>1. [Next]_vars /\ [UnknownStays]_vars => [Next /\ UnknownStays]_vars
  OBVIOUS
<1> QED BY <1>1, PTL DEF Spec, UnknownNeverRetried, DocumentedSpec

LEMMA DocumentedIsSpec == DocumentedSpec => Spec /\ UnknownNeverRetried
<1>1. [Next /\ UnknownStays]_vars => [Next]_vars /\ [UnknownStays]_vars
  OBVIOUS
<1> QED BY <1>1, PTL DEF Spec, UnknownNeverRetried, DocumentedSpec

\* In these states a request of the delivery may leave, now or later, so none
\* that was delivered, or still may be, exists.
OpenStates == {"none", "reserved", "audio_ready", "failed"}

WireOnce ==
  /\ \A s \in Slots : delivery[s] \in OpenStates => Live(s) = {}
  /\ \A s \in Slots : \A i, j \in Live(s) : i = j
  /\ \A i \in 1 .. Len(wire) : wire[i].slot[1] = EnrolledKey

\* The tick that put the delivery in SENDING, until it knows the outcome is
\* ambiguous.  A tick that recovers the row beside it never owns it.
Owns(w) ==
  \/ job[w].pc \in {"nonce", "post", "await", "block"}
  \/ job[w].pc = "record" /\ job[w].outcome \in {"sent", "failed"}

\* A delivery has one owner, and beside it can at most become ambiguous.
OwnInv ==
  \A w \in Workers : Owns(w) =>
    /\ delivery[Slot(w)] \in {"sending", "delivery_unknown"}
    /\ \A v \in Workers : Owns(v) /\ Slot(v) = Slot(w) => v = w

\* What a tick knows about the requests of the delivery it works on.
TickOnce(w) ==
  /\ job[w].pc \in {"begin", "nonce", "post"} => job[w].key = EnrolledKey
  /\ job[w].pc \in {"nonce", "post", "block"} => Live(Slot(w)) = {}
  /\ job[w].pc = "await" =>
       /\ job[w].request \in 1 .. Len(wire)
       /\ wire[job[w].request].slot = Slot(w)
       /\ Live(Slot(w)) \subseteq {job[w].request}
  /\ (job[w].pc = "record" /\ job[w].outcome = "failed") => Live(Slot(w)) = {}

OnceInv == WireOnce /\ OwnInv /\ \A w \in Workers : TickOnce(w)

(***************************************************************************)
(* What the steps do to the requests that count                            *)
(***************************************************************************)

LEMMA LiveAfterPost ==
  ASSUME SendTypeOK, NEW w \in Workers, NEW s \in Slots, Post(w)
  PROVE  /\ Len(wire') = Len(wire) + 1
         /\ wire'[Len(wire) + 1].slot = Slot(w)
         /\ \A i \in 1 .. Len(wire) : wire'[i] = wire[i]
         /\ s # Slot(w) => Live(s)' = Live(s)
         /\ s = Slot(w) => Live(s)' = Live(s) \cup {Len(wire) + 1}
<1> DEFINE r == [slot |-> Slot(w), stamp |-> job[w].now, status |-> "pending"]
<1>1. wire' = Append(wire, r) /\ wire \in Seq(Request) /\ r \in Request
  BY JobTyped DEF Post, SendTypeOK, Request, RequestStatus
<1>2. /\ Len(wire') = Len(wire) + 1
      /\ wire'[Len(wire) + 1] = r
      /\ \A i \in 1 .. Len(wire) : wire'[i] = wire[i]
      /\ Len(wire) \in Nat
  BY <1>1
<1>3. r.slot = Slot(w) /\ r.status = "pending"
  OBVIOUS
<1> HIDE DEF r
<1>4. s # Slot(w) => Live(s)' = Live(s)
  BY <1>2, <1>3 DEF Live
<1>5. s = Slot(w) => Live(s)' = Live(s) \cup {Len(wire) + 1}
  BY <1>2, <1>3 DEF Live
<1>6. QED
  BY <1>2, <1>3, <1>4, <1>5

\* Only a POST for the slot adds a request that counts: an answer takes one
\* away or leaves it.
LEMMA LiveShrinks ==
  ASSUME TypeInv, [Next]_vars, NEW s \in Slots,
         \A w \in Workers : Post(w) => Slot(w) # s
  PROVE  Live(s)' \subseteq Live(s)
<1>1. ASSUME NEW w \in Workers, Post(w)
      PROVE  Live(s)' \subseteq Live(s)
  BY <1>1, LiveAfterPost DEF TypeInv
<1>2. CASE Len(wire') = Len(wire)
  BY <1>2, WireIsKept DEF Live
<1>3. QED
  BY <1>1, <1>2, WireIsKept

\* A request whose answer is a refusal leaves nothing behind.
LEMMA RefusedLeavesNothing ==
  ASSUME NEW w \in Workers, TickOnce(w), job[w].pc = "await",
         Answer(w) \in {"refused", "blocked"}
  PROVE  Live(Slot(w)) = {}
BY DEF TickOnce, Answer, Live

(***************************************************************************)
(* The owner of a delivery                                                 *)
(***************************************************************************)

\* A tick becomes an owner by its SENDING transition and by nothing else.
LEMMA OwnerBegan ==
  ASSUME TypeInv, [Next]_vars, NEW v \in Workers, Owns(v)'
  PROVE  /\ Slot(v)' = Slot(v)
         /\ \/ Owns(v)
            \/ /\ Begin(v) /\ job[v].pc = "begin" /\ job'[v].pc = "nonce"
               /\ delivery[Slot(v)] = "audio_ready"
               /\ delivery' = [delivery EXCEPT ![Slot(v)] = "sending"]
<1> USE LocalsAfter DEF TypeInv
<1>1. CASE job'[v] = job[v]
  BY <1>1 DEF Slot, Owns
<1>2. ASSUME NEW k \in Keys, StartTick(v, k)
      PROVE  FALSE
  <2>1. job'[v].pc = "poll"
    BY <1>2 DEF StartTick, SendTypeOK, Ticking
  <2>2. QED
    BY <2>1 DEF Owns
<1>3. CASE Crash(v)
  BY <1>3 DEF Crash, Owns
<1>4. CASE TickStep(v) /\ job'[v] # job[v]
  <2>1. ~Poll(v)
    BY <1>4 DEF Poll, sendVars
  <2>2. ~ReadControl(v)
    <3>1. ReadControl(v) => job'[v].pc \in {"reserve", "lookup"}
      BY DEF ReadControl, SendTypeOK, Job
    <3>2. QED
      BY <3>1 DEF Owns
  <2>3. ~Lookup(v)
    <3>1. Lookup(v) => job'[v].pc \in {"idle", "recover", "retry", "produce", "load"}
      BY ContinuationTyped DEF Lookup
    <3>2. QED
      BY <3>1 DEF Owns
  <2>4. ~(\/ Reserve(v) \/ Recover(v) \/ Retry(v) \/ Produce(v) \/ Load(v)
          \/ AnswerLost(v) \/ AnswerUndecodable(v) \/ RecordOutcome(v))
    BY DEF Reserve, Recover, Retry, Produce, Load, AnswerLost,
           AnswerUndecodable, RecordOutcome, Owns
  <2>5. CASE Begin(v)
    <3>1. Goto(v, "nonce") /\ TransitionDelivery(Slot(v), "sending", job[v].now)
      BY <2>5 DEF Begin, Owns
    <3>2. /\ delivery[Slot(v)] = "audio_ready"
          /\ delivery' = [delivery EXCEPT ![Slot(v)] = "sending"]
      BY <3>1 DEF TransitionDelivery, CanTransition, DeliveryTransitions, MoveBoth
    <3>3. QED
      BY <2>5, <3>1, <3>2 DEF Begin
  <2>6. CASE Post(v)
    <3>1. job'[v] = [job[v] EXCEPT !.pc = "await", !.request = Len(wire) + 1]
      BY <2>6 DEF Post, SendTypeOK
    <3>2. job'[v].key = job[v].key /\ job'[v].now = job[v].now
      BY <3>1, JobTyped DEF Job
    <3>3. QED
      BY <2>6, <3>2 DEF Post, Owns, Slot
  <2>7. CASE RecordNonce(v) \/ PostFails(v) \/ Answered(v) \/ Blocked(v)
    <3>1. Slot(v)' = Slot(v)
      BY <2>7 DEF RecordNonce, PostFails, Answered, Blocked
    <3>2. Owns(v)
      BY <2>7 DEF RecordNonce, PostFails, Answered, Blocked, Owns
    <3>3. QED
      BY <3>1, <3>2
  <2>8. QED
    BY <1>4, <2>1, <2>2, <2>3, <2>4, <2>5, <2>6, <2>7 DEF TickStep
<1>5. QED
  BY <1>1, <1>2, <1>3, <1>4, LocalsAreLocal

\* The row of an owner leaves SENDING by a recovery or by the owner itself.
LEMMA OwnedRowWaits ==
  ASSUME TypeInv, OwnInv, [Next]_vars, UnknownStays,
         NEW v \in Workers, Owns(v), Owns(v)', Slot(v)' = Slot(v)
  PROVE  delivery'[Slot(v)] \in {"sending", "delivery_unknown"}
<1>1. PICK s \in Slots : s = Slot(v)
  BY JobTyped DEF TypeInv
<1>2. delivery[s] \in {"sending", "delivery_unknown"}
  BY <1>1 DEF OwnInv
<1>3. RowStep(s)
  BY NextMovesRows
<1>4. ASSUME NEW w \in Workers, RecordsOn(w, s)
      PROVE  delivery'[s] = "delivery_unknown"
  <2>1. /\ job[w].pc = "record" /\ Slot(w) = s /\ Return(w)
        /\ delivery'[s] = job[w].outcome
        /\ job[w].outcome \in AttemptOutcomes
    BY <1>4, JobTyped DEF RecordsOn, TypeInv
  <2>2. CASE Owns(w)
    <3>1. w = v
      BY <1>1, <2>1, <2>2 DEF OwnInv
    <3>2. job'[v].pc = "idle"
      BY <2>1, <3>1, LocalsAfter DEF TypeInv
    <3>3. QED
      BY <3>2 DEF Owns
  <2>3. CASE ~Owns(w)
    BY <2>1, <2>3 DEF Owns, AttemptOutcomes
  <2>4. QED
    BY <2>2, <2>3
<1>5. delivery'[s] \in {"sending", "delivery_unknown", "audio_ready"}
  BY <1>2, <1>3, <1>4 DEF RowStep
<1>6. delivery'[s] # "audio_ready"
  <2>1. delivery[s] = "delivery_unknown" => delivery'[s] # "audio_ready"
    BY DEF UnknownStays
  <2>2. delivery[s] = "sending" => delivery'[s] # "audio_ready"
    BY <1>3, <1>4 DEF RowStep
  <2>3. QED
    BY <1>2, <2>1, <2>2
<1>7. QED
  BY <1>1, <1>5, <1>6

LEMMA OwnersKeep ==
  ASSUME TypeInv, OwnInv, [Next]_vars, UnknownStays
  PROVE  OwnInv'
<1> SUFFICES ASSUME NEW w \in Workers, Owns(w)'
             PROVE  /\ delivery'[Slot(w)'] \in {"sending", "delivery_unknown"}
                    /\ \A v \in Workers :
                         Owns(v)' /\ Slot(v)' = Slot(w)' => v = w
  BY DEF OwnInv
<1>1. delivery \in [Slots -> {"none"} \cup DeliveryStates]
  BY DEF TypeInv, StoreInv, StoreTypeOK
<1>2. \A v \in Workers : Slot(v) \in Slots
  BY JobTyped DEF TypeInv
<1>3. delivery'[Slot(w)'] \in {"sending", "delivery_unknown"}
  BY <1>1, <1>2, OwnerBegan, OwnedRowWaits
<1>4. ASSUME NEW v \in Workers, Owns(v)', Slot(v)' = Slot(w)', v # w
      PROVE  FALSE
  <2>1. Slot(v) = Slot(w)
    BY <1>4, OwnerBegan
  <2>2. CASE Owns(v) /\ Owns(w)
    BY <1>4, <2>1, <2>2 DEF OwnInv
  <2>3. CASE ~Owns(v) /\ ~Owns(w)
    <3>1. Begin(v) /\ job[w].pc = "begin" /\ job'[w].pc = "nonce"
      BY <1>4, <2>3, OwnerBegan
    <3>2. job'[w] = job[w]
      BY <1>4, <3>1 DEF Begin, Goto, Return, TypeInv, SendTypeOK
    <3>3. QED
      BY <3>1, <3>2
  <2>4. CASE Owns(v) <=> ~Owns(w)
    <3>1. delivery[Slot(w)] \in {"sending", "delivery_unknown"}
      BY <2>1, <2>4 DEF OwnInv
    <3>2. delivery[Slot(w)] = "audio_ready"
      BY <1>4, <2>1, <2>4, OwnerBegan
    <3>3. QED
      BY <3>1, <3>2
  <2>5. QED
    BY <2>2, <2>3, <2>4
<1>5. QED
  BY <1>3, <1>4

\* A request leaves for a delivery nothing else is under way for.
LEMMA PosterOwns ==
  ASSUME TypeInv, OnceInv, NEW w \in Workers, Post(w)
  PROVE  /\ Owns(w) /\ Slot(w) \in Slots /\ Slot(w)[1] = EnrolledKey
         /\ delivery[Slot(w)] \in {"sending", "delivery_unknown"}
         /\ Live(Slot(w)) = {}
         /\ \A v \in Workers : Owns(v) /\ Slot(v) = Slot(w) => v = w
<1>1. Owns(w) /\ job[w].pc = "post"
  BY DEF Post, Owns
<1>2. Slot(w) \in Slots /\ Slot(w)[1] = job[w].key
  BY JobTyped DEF TypeInv
<1>3. QED
  BY <1>1, <1>2 DEF OnceInv, OwnInv, TickOnce

(***************************************************************************)
(* The wire                                                                *)
(***************************************************************************)

LEMMA WireKeepsOnce ==
  ASSUME TypeInv, OnceInv, [Next]_vars, UnknownStays
  PROVE  WireOnce'
<1> USE DEF OnceInv
<1>1. ASSUME NEW s \in Slots, delivery'[s] \in OpenStates
      PROVE  Live(s)' = {}
  <2>1. /\ Live(s) = {}
        /\ \A w \in Workers : Post(w) => Slot(w) # s
    <3>1. CASE delivery[s] \in OpenStates
      BY <3>1, PosterOwns DEF WireOnce, OpenStates
    <3>2. CASE delivery[s] \notin OpenStates
      <4>1. PICK w \in Workers :
              /\ RecordsOn(w, s)
              /\ job[w].pc = "record" /\ job[w].outcome = "failed"
        <5>1. RowStep(s)
          BY NextMovesRows
        <5>2. delivery[s] # "delivery_unknown"
          BY <1>1 DEF UnknownStays, OpenStates
        <5>3. PICK w \in Workers : RecordsOn(w, s)
          BY <1>1, <3>2, <5>1, <5>2 DEF RowStep, OpenStates
        <5>4. job[w].outcome \in AttemptOutcomes
          BY <5>3, JobTyped DEF TypeInv
        <5>5. QED
          BY <1>1, <5>3, <5>4 DEF RecordsOn, AttemptOutcomes, OpenStates
      <4>2. Owns(w) /\ Slot(w) = s /\ Live(s) = {}
        BY <4>1 DEF Owns, RecordsOn, TickOnce
      <4>3. ASSUME NEW v \in Workers, Post(v), Slot(v) = s
            PROVE  FALSE
        <5>1. w = v
          BY <4>2, <4>3, PosterOwns
        <5>2. QED
          BY <4>1, <4>3, <5>1 DEF Post
      <4>4. QED
        BY <4>2, <4>3
    <3>3. QED
      BY <3>1, <3>2
  <2>2. QED
    BY <2>1, LiveShrinks
<1>2. ASSUME NEW s \in Slots, NEW i \in Live(s)', NEW j \in Live(s)'
      PROVE  i = j
  <2>1. CASE \A w \in Workers : Post(w) => Slot(w) # s
    BY <1>2, <2>1, LiveShrinks DEF WireOnce
  <2>2. ASSUME NEW w \in Workers, Post(w), Slot(w) = s
        PROVE  i = j
    <3>1. Live(s)' = {Len(wire) + 1}
      BY <2>2, LiveAfterPost, PosterOwns DEF TypeInv
    <3>2. QED
      BY <1>2, <3>1
  <2>3. QED
    BY <2>1, <2>2
<1>3. ASSUME NEW i \in 1 .. Len(wire')
      PROVE  wire'[i].slot[1] = EnrolledKey
  <2>1. CASE i \in 1 .. Len(wire)
    BY <2>1, WireIsKept DEF WireOnce
  <2>2. CASE i \notin 1 .. Len(wire)
    <3>1. PICK w \in Workers : Post(w)
      BY <1>3, <2>2, WireIsKept
    <3>2. /\ Len(wire) \in Nat /\ Len(wire') = Len(wire) + 1
          /\ wire'[Len(wire) + 1].slot = Slot(w)
      BY <3>1, LiveAfterPost, PosterOwns, WireIsKept DEF TypeInv
    <3>3. i = Len(wire) + 1
      BY <1>3, <2>2, <3>2
    <3>4. QED
      BY <3>1, <3>2, <3>3, PosterOwns
  <2>3. QED
    BY <2>1, <2>2
<1>4. QED
  BY <1>1, <1>2, <1>3 DEF WireOnce

(***************************************************************************)
(* What the ticks know                                                     *)
(***************************************************************************)

\* Beside the steps of others: a request leaves for another delivery, or for
\* this one while the tick knows nothing about it.
LEMMA OthersKeepTick ==
  ASSUME TypeInv, OnceInv, [Next]_vars, NEW v \in Workers,
         job'[v] = job[v], Slot(v)' = Slot(v)
  PROVE  TickOnce(v)'
<1>1. Slot(v) \in Slots /\ TickOnce(v)
  BY JobTyped DEF TypeInv, OnceInv
<1>2. ~Owns(v) => TickOnce(v)'
  BY <1>1 DEF TickOnce, Owns
<1>3. Owns(v) => Live(Slot(v))' \subseteq Live(Slot(v))
  <2>1. ASSUME NEW w \in Workers, Post(w), Owns(v), Slot(w) = Slot(v)
        PROVE  FALSE
    <3>1. v = w
      BY <2>1, PosterOwns
    <3>2. job[v].pc = "post" /\ job'[v].pc = "await"
      <4>1. job'[w] = [job[w] EXCEPT !.pc = "await", !.request = Len(wire) + 1]
        BY <2>1 DEF Post, TypeInv, SendTypeOK
      <4>2. job'[w].pc = "await"
        BY <4>1, JobTyped DEF Job, TypeInv
      <4>3. QED
        BY <2>1, <3>1, <4>2 DEF Post
    <3>3. QED
      BY <3>2
  <2>2. QED
    BY <1>1, <2>1, LiveShrinks
<1>4. ASSUME job[v].pc = "await"
      PROVE  /\ job[v].request \in 1 .. Len(wire')
             /\ wire'[job[v].request].slot = Slot(v)
  BY <1>1, <1>4, WireIsKept DEF TickOnce
<1>5. Owns(v) => TickOnce(v)'
  <2> SUFFICES ASSUME Owns(v) PROVE TickOnce(v)'
    OBVIOUS
  <2>1. PICK here : here = Slot(v) /\ here = Slot(v)'
    OBVIOUS
  <2>2. Live(here)' \subseteq Live(here)
    BY <1>3, <2>1
  <2>3. Live(Slot(v))' = Live(here)' /\ Live(Slot(v)) = Live(here)
    BY <2>1
  <2>4. QED
    BY <1>1, <1>4, <2>2, <2>3 DEF TickOnce
<1>6. QED
  BY <1>2, <1>5

LEMMA StepKeepsTick ==
  ASSUME TypeInv, OnceInv, [Next]_vars, NEW v \in Workers, TickStep(v),
         job'[v] # job[v]
  PROVE  TickOnce(v)'
<1> USE LocalsAfter, JobTyped DEF TypeInv, OnceInv
<1>1. ASSUME job'[v].pc \notin {"begin", "nonce", "post", "await", "block", "record"}
      PROVE  TickOnce(v)'
  BY <1>1 DEF TickOnce
<1>2. ASSUME job'[v].pc = "record", job'[v].outcome # "failed"
      PROVE  TickOnce(v)'
  BY <1>2 DEF TickOnce
<1>3. Slot(v) \in Slots /\ TickOnce(v)
  OBVIOUS
<1>4. ASSUME ~Post(v), Slot(v)' = Slot(v)
      PROVE  Live(Slot(v)) = {} => Live(Slot(v))' = {}
  <2>1. \A w \in Workers : ~Post(w)
    <3>1. ASSUME NEW w \in Workers, Post(w), w # v
          PROVE  FALSE
      BY <3>1 DEF Post, SendTypeOK
    <3>2. QED
      BY <1>4, <3>1
  <2>2. PICK here \in Slots : here = Slot(v) /\ here = Slot(v)'
    BY <1>3, <1>4
  <2>3. Live(here)' \subseteq Live(here)
    BY <2>1, LiveShrinks
  <2>4. Live(Slot(v))' = Live(here)' /\ Live(Slot(v)) = Live(here)
    BY <2>2
  <2>5. QED
    BY <2>3, <2>4
<1>5. CASE \/ Reserve(v) \/ Retry(v) \/ Produce(v) \/ AnswerUndecodable(v)
           \/ RecordOutcome(v)
  BY <1>1, <1>5 DEF Reserve, Retry, Produce, AnswerUndecodable, RecordOutcome
<1>6. CASE Recover(v) \/ AnswerLost(v)
  BY <1>2, <1>6 DEF Recover, AnswerLost
<1>7. CASE ReadControl(v)
  <2>1. job'[v].pc \in {"reserve", "lookup"}
    BY <1>7 DEF ReadControl, SendTypeOK, Job
  <2>2. QED
    BY <1>1, <2>1
<1>8. CASE Lookup(v)
  <2>1. job'[v].pc \in {"idle", "recover", "retry", "produce", "load"}
    BY <1>8, ContinuationTyped DEF Lookup
  <2>2. QED
    BY <1>1, <2>1
<1>9. CASE Load(v)
  BY <1>9 DEF Load, MayLoad, TickOnce
<1>10. CASE Begin(v)
  <2>1. CASE TransitionDelivery(Slot(v), "sending", job[v].now)
               /\ Goto(v, "nonce")
    <3>1. delivery[Slot(v)] = "audio_ready"
      BY <2>1 DEF TransitionDelivery, CanTransition, DeliveryTransitions
    <3>2. Live(Slot(v)) = {}
      BY <1>3, <3>1 DEF WireOnce, OpenStates
    <3>3. ~Post(v) /\ job[v].key = EnrolledKey
      BY <1>3, <1>10 DEF Post, Begin, TickOnce
    <3>4. QED
      BY <1>4, <2>1, <3>2, <3>3 DEF TickOnce
  <2>2. CASE Return(v)
    BY <1>1, <2>2
  <2>3. QED
    BY <1>10, <2>1, <2>2 DEF Begin
<1>11. CASE RecordNonce(v)
  <2>1. /\ ~Post(v) /\ Slot(v)' = Slot(v) /\ Live(Slot(v)) = {}
        /\ job[v].key = EnrolledKey
    BY <1>3, <1>11 DEF RecordNonce, Post, TickOnce
  <2>2. \/ Goto(v, "post") \/ GoRecord(v, "failed", job[v].now)
    BY <1>11 DEF RecordNonce
  <2>3. QED
    BY <1>4, <2>1, <2>2 DEF TickOnce
<1>12. CASE Post(v)
  <2>1. job'[v] = [job[v] EXCEPT !.pc = "await", !.request = Len(wire) + 1]
    BY <1>12 DEF Post, SendTypeOK
  <2>2. /\ job'[v].pc = "await" /\ job'[v].request = Len(wire) + 1
        /\ job'[v].key = job[v].key /\ job'[v].now = job[v].now
    BY <2>1 DEF Job
  <2>3. PICK here \in Slots : here = Slot(v) /\ here = Slot(v)'
    BY <1>3, <2>2 DEF Slot
  <2>4. /\ Len(wire') = Len(wire) + 1 /\ Len(wire) \in Nat
        /\ wire'[Len(wire) + 1].slot = here
        /\ Live(here)' = {Len(wire) + 1}
    <3>1. /\ Len(wire') = Len(wire) + 1
          /\ wire'[Len(wire) + 1].slot = Slot(v)
          /\ here = Slot(v) => Live(here)' = Live(here) \cup {Len(wire) + 1}
      BY <1>12, LiveAfterPost
    <3>2. Live(here) = {}
      BY <1>3, <1>12, <2>3 DEF Post, TickOnce
    <3>3. QED
      BY <2>3, <3>1, <3>2, WireIsKept
  <2>5. QED
    BY <2>2, <2>3, <2>4 DEF TickOnce
<1>13. CASE PostFails(v)
  <2>1. Slot(v)' = Slot(v) /\ job'[v].pc = "record"
    BY <1>13 DEF PostFails
  <2>2. ~Post(v)
    <3>1. Post(v) =>
            job'[v] = [job[v] EXCEPT !.pc = "await", !.request = Len(wire) + 1]
      BY DEF Post, SendTypeOK
    <3>2. Post(v) => job'[v].pc = "await"
      BY <3>1 DEF Job
    <3>3. QED
      BY <2>1, <3>2
  <2>3. Live(Slot(v)) = {}
    BY <1>3, <1>13 DEF PostFails, TickOnce
  <2>4. QED
    BY <1>4, <2>1, <2>2, <2>3 DEF TickOnce
<1>14. CASE Answered(v)
  <2>1. /\ ~Post(v) /\ Slot(v)' = Slot(v)
        /\ \/ job'[v].pc = "record" /\ job'[v].outcome = "sent"
           \/ Live(Slot(v)) = {} /\ job'[v].pc \in {"record", "block"}
    BY <1>3, <1>14, RefusedLeavesNothing DEF Answered, Post
  <2>2. QED
    BY <1>2, <1>4, <2>1 DEF TickOnce
<1>15. CASE Blocked(v)
  <2>1. /\ ~Post(v) /\ Slot(v)' = Slot(v) /\ Live(Slot(v)) = {}
        /\ job'[v].pc = "record"
    BY <1>3, <1>15 DEF Blocked, Post, TickOnce
  <2>2. QED
    BY <1>4, <2>1 DEF TickOnce
<1>16. ~Poll(v)
  BY DEF Poll, sendVars
<1>17. QED
  BY <1>5, <1>6, <1>7, <1>8, <1>9, <1>10, <1>11, <1>12, <1>13, <1>14, <1>15,
     <1>16 DEF TickStep

LEMMA NextKeepsOnce ==
  ASSUME TypeInv, OnceInv, [Next]_vars, UnknownStays
  PROVE  OnceInv'
<1>1. ASSUME NEW v \in Workers
      PROVE  TickOnce(v)'
  <2>1. CASE job'[v] = job[v]
    BY <2>1, OthersKeepTick DEF Slot
  <2>2. CASE TickStep(v) /\ job'[v] # job[v]
    BY <2>2, StepKeepsTick
  <2>3. CASE (\E k \in Keys : StartTick(v, k)) \/ Crash(v)
    <3>1. job'[v].pc \in {"poll", "idle"}
      BY <2>3, LocalsAfter
         DEF StartTick, Crash, TypeInv, SendTypeOK, Ticking
    <3>2. QED
      BY <3>1 DEF TickOnce
  <2>4. QED
    BY <2>1, <2>2, <2>3, LocalsAreLocal
<1>2. WireOnce' /\ OwnInv'
  BY WireKeepsOnce, OwnersKeep DEF OnceInv
<1>3. QED
  BY <1>1, <1>2 DEF OnceInv

LEMMA InitOnce == Init => OnceInv
<1> SUFFICES ASSUME Init
             PROVE  OnceInv
  OBVIOUS
<1>1. \A s \in Slots : Live(s) = {}
  BY DEF Init, Live
<1>2. \A w \in Workers : job[w].pc = "idle"
  BY DEF Init, Resting, Ticking
<1>3. QED
  BY <1>1, <1>2 DEF Init, OnceInv, WireOnce, OwnInv, Owns, TickOnce

LEMMA StutterKeepsOnce == OnceInv /\ UNCHANGED vars => OnceInv'
<1> SUFFICES ASSUME OnceInv, UNCHANGED vars
             PROVE  OnceInv'
  OBVIOUS
<1>1. UNCHANGED <<delivery, wire, job>>
  BY DEF vars, storeVars, sendVars
<1>2. \A s : Live(s)' = Live(s)
  BY <1>1 DEF Live
<1>3. \A w \in Workers : Slot(w)' = Slot(w) /\ (Owns(w)' <=> Owns(w))
  BY <1>1 DEF Slot, Owns
<1>4. WireOnce' /\ OwnInv'
  BY <1>1, <1>2, <1>3 DEF OnceInv, WireOnce, OwnInv
<1>5. \A w \in Workers : Live(Slot(w))' = Live(Slot(w))
  BY <1>1 DEF Live, Slot
<1>6. \A w \in Workers : TickOnce(w)'
  BY <1>1, <1>3, <1>5 DEF OnceInv, TickOnce
<1>7. QED
  BY <1>4, <1>6 DEF OnceInv

LEMMA OnceHolds == DocumentedSpec => []OnceInv
<1>1. TypeInv /\ OnceInv /\ [Next /\ UnknownStays]_vars => OnceInv'
  BY NextKeepsOnce, StutterKeepsOnce
<1>2. QED
  BY <1>1, InitOnce, TypeInvHolds, DocumentedIsSpec, PTL DEF DocumentedSpec

\* However many ticks overlap, die and get late answers, and whatever recipient
\* keys their callers pass, at most one voice note reaches the recipient per
\* Pacific date, unless a stale tick retries an ambiguous delivery: the retry
\* that the documents rule out and DELIVERY_TRANSITIONS allows is the only way
\* to a second note.
THEOREM OnceUnderTheRule == DocumentedSpec => []AtMostOneNote
<1>1. TypeInv /\ OnceInv => AtMostOneNote
  <2> SUFFICES ASSUME TypeInv, OnceInv,
                      NEW i \in 1 .. Len(wire), NEW j \in 1 .. Len(wire),
                      wire[i].status = "accepted", wire[j].status = "accepted",
                      wire[i].slot[2] = wire[j].slot[2]
               PROVE  i = j
    BY DEF AtMostOneNote
  <2>1. wire[i] \in Request /\ wire[j] \in Request
    BY DEF TypeInv, SendTypeOK
  <2>2. wire[i].slot \in Slots /\ wire[j].slot \in Slots
    BY <2>1 DEF Request
  <2>3. wire[i].slot[1] = wire[j].slot[1]
    BY DEF OnceInv, WireOnce
  <2>4. wire[i].slot = wire[j].slot
    BY <2>2, <2>3 DEF Slots
  <2>5. i \in Live(wire[i].slot) /\ j \in Live(wire[i].slot)
    BY <2>4 DEF Live
  <2>6. QED
    BY <2>2, <2>5 DEF OnceInv, WireOnce
<1>2. QED
  BY <1>1, OnceHolds, TypeInvHolds, DocumentedIsSpec, PTL

\* And of overlapping ticks too, none sends before every earlier request of the
\* delivery is known to be refused.
THEOREM CertainUnderTheRule == DocumentedSpec => RetryOnlyWhenRefused
<1>1. ASSUME TypeInv, OnceInv, [Next]_vars, Sends
      PROVE  Live(wire'[Len(wire')].slot) = {}
  <2>1. PICK w \in Workers : Post(w)
    BY <1>1, WireIsKept DEF Sends
  <2>2. wire'[Len(wire')].slot = Slot(w)
    BY <1>1, <2>1, LiveAfterPost, PosterOwns DEF TypeInv
  <2>3. QED
    BY <1>1, <2>1, <2>2, PosterOwns
<1>2. TypeInv /\ OnceInv /\ [Next]_vars
        => [Sends => Live(wire'[Len(wire')].slot) = {}]_vars
  BY <1>1
<1>3. QED
  BY <1>2, OnceHolds, TypeInvHolds, DocumentedIsSpec, PTL
     DEF Spec, RetryOnlyWhenRefused

(***************************************************************************)
(* The audit log under one tick at a time                                  *)
(***************************************************************************)

\* At most one tick runs at a time: all workers are the same one.
OneTickAtATime == \A v, w \in Workers : v = w

Audited(i) ==
  \E k \in 1 .. Len(attempts[wire[i].slot]) :
    attempts[wire[i].slot][k].at = wire[i].stamp

\* The row still says when the request left: recovery can stamp it.
Underway(i) ==
  delivery[wire[i].slot] = "sending" /\ updatedAt[wire[i].slot] = wire[i].stamp

WireAudit == \A i \in 1 .. Len(wire) : Audited(i) \/ Underway(i)

\* The row is still what the tick read, and from SENDING on they agree on when
\* the attempt began.
TickAudit(w) ==
  /\ job[w].pc \in {"nonce", "post", "await", "block"} =>
       delivery[Slot(w)] = "sending" /\ updatedAt[Slot(w)] = job[w].now
  /\ job[w].pc = "recover" => delivery[Slot(w)] = "sending"
  /\ job[w].pc = "retry" => delivery[Slot(w)] = "failed"
  /\ job[w].pc = "record" =>
       delivery[Slot(w)] = "sending" /\ updatedAt[Slot(w)] = job[w].stamp

AuditInv == WireAudit /\ \A w \in Workers : TickAudit(w)

\* Neither a row nor the log changes, and the requests stay what they were.
LEMMA WireAuditFrame ==
  ASSUME WireAudit, UNCHANGED <<delivery, updatedAt, attempts>>,
         Len(wire') = Len(wire),
         \A i \in 1 .. Len(wire) :
           wire'[i].slot = wire[i].slot /\ wire'[i].stamp = wire[i].stamp
  PROVE  WireAudit'
BY DEF WireAudit, Audited, Underway

\* A row that was not SENDING moves: every request of it is in the log.
LEMMA MoveKeepsWireAudit ==
  ASSUME TypeInv, WireAudit, NEW s \in Slots, NEW target, NEW t,
         delivery[s] # "sending",
         delivery' = [delivery EXCEPT ![s] = target],
         updatedAt' = [updatedAt EXCEPT ![s] = t],
         UNCHANGED <<attempts, wire>>
  PROVE  WireAudit'
<1>1. \A r \in Slots :
        r # s => delivery'[r] = delivery[r] /\ updatedAt'[r] = updatedAt[r]
  BY DEF TypeInv, StoreInv, StoreTypeOK
<1>2. ASSUME NEW i \in 1 .. Len(wire)
      PROVE  Audited(i)' \/ Underway(i)'
  <2>1. wire[i].slot \in Slots
    <3>1. wire[i] \in Request
      BY DEF TypeInv, SendTypeOK
    <3>2. QED
      BY <3>1 DEF Request
  <2>2. CASE Audited(i)
    BY <2>2 DEF Audited
  <2>3. CASE Underway(i)
    BY <1>1, <2>1, <2>3 DEF Underway
  <2>4. QED
    BY <2>2, <2>3 DEF WireAudit
<1>3. QED
  BY <1>2 DEF WireAudit

LEMMA RecordKeepsWireAudit ==
  ASSUME TypeInv, WireAudit, NEW s \in Slots, NEW outcome \in AttemptOutcomes,
         NEW id \in Nat, UNCHANGED wire,
         RecordDeliveryAttempt(s, outcome, updatedAt[s], id)
  PROVE  WireAudit'
<1>1. /\ delivery \in [Slots -> {"none"} \cup DeliveryStates]
      /\ updatedAt \in [Slots -> Nat] /\ attempts \in [Slots -> Seq(Attempt)]
  BY DEF TypeInv, StoreInv, StoreTypeOK
<1> DEFINE a == [outcome |-> outcome, at |-> updatedAt[s], provider |-> id]
<1>2. a \in Attempt /\ a.at = updatedAt[s]
  BY <1>1 DEF Attempt
<1>3. /\ attempts' = [attempts EXCEPT ![s] = Append(attempts[s], a)]
      /\ delivery' = [delivery EXCEPT ![s] = outcome]
      /\ updatedAt' = [updatedAt EXCEPT ![s] = updatedAt[s]]
  BY DEF RecordDeliveryAttempt, MoveBoth
<1> HIDE DEF a
<1>4. /\ Len(attempts[s]) \in Nat
      /\ Len(attempts'[s]) = Len(attempts[s]) + 1
      /\ attempts'[s][Len(attempts[s]) + 1] = a
      /\ \A k \in 1 .. Len(attempts[s]) : attempts'[s][k] = attempts[s][k]
  BY <1>1, <1>2, <1>3
<1>5. \A r \in Slots : r # s => /\ attempts'[r] = attempts[r]
                                /\ delivery'[r] = delivery[r]
                                /\ updatedAt'[r] = updatedAt[r]
  BY <1>1, <1>3
<1>6. ASSUME NEW i \in 1 .. Len(wire)
      PROVE  Audited(i)' \/ Underway(i)'
  <2>1. wire[i].slot \in Slots /\ (Audited(i) \/ Underway(i))
    <3>1. wire[i] \in Request
      BY DEF TypeInv, SendTypeOK
    <3>2. QED
      BY <3>1 DEF Request, WireAudit
  <2>2. CASE wire[i].slot # s
    <3> DEFINE r == wire[i].slot
    <3>1. /\ attempts'[r] = attempts[r] /\ delivery'[r] = delivery[r]
          /\ updatedAt'[r] = updatedAt[r]
      BY <1>5, <2>1, <2>2
    <3>2. wire' = wire
      BY DEF RecordDeliveryAttempt
    <3>3. QED
      BY <2>1, <3>1, <3>2 DEF Audited, Underway
  <2>3. CASE wire[i].slot = s /\ Audited(i)
    <3>1. PICK k \in 1 .. Len(attempts[s]) : attempts[s][k].at = wire[i].stamp
      BY <2>3 DEF Audited
    <3>2. k \in 1 .. Len(attempts'[s]) /\ attempts'[s][k].at = wire[i].stamp
      BY <1>4, <3>1
    <3>3. QED
      BY <2>3, <3>2 DEF Audited
  <2>4. CASE wire[i].slot = s /\ Underway(i)
    <3>1. attempts'[s][Len(attempts'[s])].at = wire[i].stamp
      BY <1>2, <1>4, <2>4 DEF Underway
    <3>2. Len(attempts'[s]) \in 1 .. Len(attempts'[s])
      BY <1>4
    <3>3. QED
      BY <2>4, <3>1, <3>2 DEF Audited
  <2>5. QED
    BY <2>1, <2>2, <2>3, <2>4
<1>7. QED
  BY <1>6 DEF WireAudit

\* The steps that write neither the tables nor the wire.
LEMMA QuietStepKeepsAudit ==
  ASSUME TypeInv, AuditInv, NEW w \in Workers, UNCHANGED <<storeVars, wire>>,
         \/ Poll(w) \/ ReadControl(w) \/ Lookup(w) \/ Recover(w) \/ Load(w)
         \/ RecordNonce(w) \/ PostFails(w) \/ Answered(w) \/ AnswerLost(w)
         \/ AnswerUndecodable(w) \/ Blocked(w)
  PROVE  WireAudit' /\ TickAudit(w)'
<1> USE LocalsAfter, JobTyped DEF TypeInv, AuditInv
<1>1. UNCHANGED <<delivery, updatedAt, attempts>>
  BY DEF storeVars
<1>2. WireAudit'
  BY <1>1, WireAuditFrame
<1>3. CASE Poll(w)
  <2>1. UNCHANGED job /\ Slot(w)' = Slot(w)
    BY <1>3 DEF Poll, sendVars, Slot
  <2>2. QED
    BY <1>1, <1>2, <2>1 DEF TickAudit
<1>4. CASE ReadControl(w)
  <2>1. job'[w].pc \in {"reserve", "lookup"}
    BY <1>4 DEF ReadControl, SendTypeOK, Job
  <2>2. QED
    BY <1>2, <2>1 DEF TickAudit
<1>5. CASE Lookup(w)
  BY <1>1, <1>2, <1>5, ContinuationTyped DEF Lookup, TickAudit, Continuation
<1>6. CASE Recover(w)
  BY <1>1, <1>2, <1>6 DEF Recover, TickAudit
<1>7. CASE Load(w) \/ AnswerUndecodable(w)
  BY <1>2, <1>7 DEF Load, AnswerUndecodable, TickAudit
<1>8. CASE RecordNonce(w)
  BY <1>1, <1>2, <1>8 DEF RecordNonce, TickAudit
<1>9. CASE PostFails(w) \/ Answered(w) \/ AnswerLost(w) \/ Blocked(w)
  BY <1>1, <1>2, <1>9 DEF PostFails, Answered, AnswerLost, Blocked, TickAudit
<1>10. QED
  BY <1>3, <1>4, <1>5, <1>6, <1>7, <1>8, <1>9

LEMMA StoreStepKeepsAudit ==
  ASSUME TypeInv, AuditInv, NEW w \in Workers,
         Reserve(w) \/ Retry(w) \/ Produce(w) \/ Begin(w) \/ RecordOutcome(w)
  PROVE  WireAudit' /\ TickAudit(w)'
<1> USE LocalsAfter, JobTyped DEF TypeInv, AuditInv
<1>1. /\ UNCHANGED wire
      /\ delivery \in [Slots -> {"none"} \cup DeliveryStates]
      /\ updatedAt \in [Slots -> Nat]
  BY DEF Reserve, Retry, Produce, Begin, RecordOutcome, StoreInv, StoreTypeOK
<1>2. ASSUME UNCHANGED storeVars
      PROVE  WireAudit'
  BY <1>1, <1>2, WireAuditFrame DEF storeVars
<1>3. CASE Reserve(w)
  <2>1. TickAudit(w)'
    BY <1>3 DEF Reserve, TickAudit
  <2>2. CASE ReserveNextMessage(Slot(w), job[w].now)
    BY <1>1, <2>1, <2>2, MoveKeepsWireAudit DEF ReserveNextMessage
  <2>3. QED
    BY <1>2, <1>3, <2>1, <2>2 DEF Reserve
<1>4. CASE Retry(w)
  <2>1. TickAudit(w)' /\ delivery[Slot(w)] = "failed"
    BY <1>4 DEF Retry, TickAudit
  <2>2. CASE TransitionDelivery(Slot(w), "audio_ready", job[w].now)
    BY <1>1, <2>1, <2>2, MoveKeepsWireAudit DEF TransitionDelivery, MoveBoth
  <2>3. QED
    BY <1>2, <1>4, <2>1, <2>2 DEF Retry
<1>5. CASE Produce(w)
  <2>1. TickAudit(w)'
    BY <1>5 DEF Produce, TickAudit
  <2>2. CASE MarkAudioReady(Slot(w), job[w].now)
    BY <1>1, <2>1, <2>2, MoveKeepsWireAudit
       DEF MarkAudioReady, CanMarkAudioReady, MoveBoth
  <2>3. QED
    BY <1>2, <1>5, <2>1, <2>2 DEF Produce
<1>6. CASE Begin(w)
  <2>1. CASE TransitionDelivery(Slot(w), "sending", job[w].now)
               /\ Goto(w, "nonce")
    <3>1. /\ delivery' = [delivery EXCEPT ![Slot(w)] = "sending"]
          /\ updatedAt' = [updatedAt EXCEPT ![Slot(w)] = job[w].now]
          /\ UNCHANGED attempts
          /\ delivery[Slot(w)] # "sending"
      BY <2>1
         DEF TransitionDelivery, CanTransition, DeliveryTransitions, MoveBoth
    <3>2. WireAudit'
      BY <1>1, <3>1, MoveKeepsWireAudit
    <3>3. TickAudit(w)'
      BY <1>1, <2>1, <3>1 DEF TickAudit
    <3>4. QED
      BY <3>2, <3>3
  <2>2. CASE Return(w) /\ UNCHANGED storeVars
    BY <1>2, <2>2 DEF TickAudit
  <2>3. QED
    BY <1>6, <2>1, <2>2 DEF Begin
<1>7. CASE RecordOutcome(w)
  <2>1. TickAudit(w)'
    BY <1>7 DEF RecordOutcome, TickAudit
  <2>2. job[w].stamp = updatedAt[Slot(w)]
    BY <1>7 DEF RecordOutcome, TickAudit
  <2>3. (IF job[w].outcome = "sent" THEN job[w].request ELSE 0) \in Nat
    OBVIOUS
  <2>4. QED
    BY <1>1, <1>2, <1>7, <2>1, <2>2, <2>3, RecordKeepsWireAudit
       DEF RecordOutcome
<1>8. QED
  BY <1>3, <1>4, <1>5, <1>6, <1>7

LEMMA PostKeepsAudit ==
  ASSUME TypeInv, AuditInv, NEW w \in Workers, Post(w)
  PROVE  WireAudit' /\ TickAudit(w)'
<1> DEFINE r == [slot |-> Slot(w), stamp |-> job[w].now, status |-> "pending"]
<1>1. /\ r \in Request /\ wire' = Append(wire, r) /\ wire \in Seq(Request)
      /\ r.slot = Slot(w) /\ r.stamp = job[w].now
      /\ UNCHANGED <<delivery, updatedAt, attempts>>
  BY JobTyped DEF Post, TypeInv, SendTypeOK, Request, RequestStatus, storeVars
<1> HIDE DEF r
<1>2. /\ Len(wire) \in Nat /\ Len(wire') = Len(wire) + 1
      /\ wire'[Len(wire) + 1] = r
      /\ \A i \in 1 .. Len(wire) : wire'[i] = wire[i]
  BY <1>1
<1>3. delivery[Slot(w)] = "sending" /\ updatedAt[Slot(w)] = job[w].now
  BY DEF Post, AuditInv, TickAudit
<1>4. WireAudit'
  <2>1. ASSUME NEW i \in 1 .. Len(wire'), i = Len(wire) + 1
        PROVE  Underway(i)'
    BY <1>1, <1>2, <1>3, <2>1 DEF Underway
  <2>2. ASSUME NEW i \in 1 .. Len(wire)
        PROVE  Audited(i)' \/ Underway(i)'
    BY <1>1, <1>2 DEF AuditInv, WireAudit, Audited, Underway
  <2>3. \A i \in 1 .. Len(wire') : i \in 1 .. Len(wire) \/ i = Len(wire) + 1
    BY <1>2
  <2>4. QED
    BY <2>1, <2>2, <2>3 DEF WireAudit
<1>5. TickAudit(w)'
  <2>1. job'[w] = [job[w] EXCEPT !.pc = "await", !.request = Len(wire) + 1]
    BY DEF Post, TypeInv, SendTypeOK
  <2>2. /\ job'[w].pc = "await" /\ job'[w].now = job[w].now
        /\ job'[w].key = job[w].key
    BY <2>1, JobTyped DEF TypeInv, Job
  <2>3. Slot(w)' = Slot(w)
    BY <2>2 DEF Slot
  <2>4. QED
    BY <1>1, <1>3, <2>2, <2>3 DEF TickAudit
<1>6. QED
  BY <1>4, <1>5

LEMMA NextKeepsAudit ==
  ASSUME OneTickAtATime, TypeInv, AuditInv, [Next]_vars
  PROVE  AuditInv'
<1> USE DEF TypeInv, OneTickAtATime
<1>1. ASSUME NEW w \in Workers, WireAudit', TickAudit(w)'
      PROVE  AuditInv'
  BY <1>1 DEF AuditInv
<1>2. ASSUME NEW w \in Workers, TickStep(w)
      PROVE  AuditInv'
  <2>1. CASE Reserve(w) \/ Retry(w) \/ Produce(w) \/ Begin(w)
               \/ RecordOutcome(w)
    BY <1>1, <2>1, StoreStepKeepsAudit
  <2>2. CASE Post(w)
    BY <1>1, <2>2, PostKeepsAudit
  <2>3. CASE \/ Poll(w) \/ ReadControl(w) \/ Lookup(w) \/ Recover(w)
             \/ Load(w) \/ RecordNonce(w) \/ PostFails(w) \/ Answered(w)
             \/ AnswerLost(w) \/ AnswerUndecodable(w) \/ Blocked(w)
    <3>1. UNCHANGED <<storeVars, wire>>
      BY <2>3
         DEF Poll, ReadControl, Lookup, Recover, Load, RecordNonce, PostFails,
             Answered, AnswerLost, AnswerUndecodable, Blocked, sendVars
    <3>2. QED
      BY <1>1, <2>3, <3>1, QuietStepKeepsAudit
  <2>4. QED
    BY <1>2, <2>1, <2>2, <2>3 DEF TickStep
<1>3. ASSUME NEW w \in Workers, (\E k \in Keys : StartTick(w, k)) \/ Crash(w)
      PROVE  AuditInv'
  <2>1. /\ UNCHANGED <<delivery, updatedAt, attempts, wire>>
        /\ job'[w].pc \in {"poll", "idle"}
    BY <1>3, LocalsAfter DEF StartTick, Crash, storeVars, SendTypeOK, Ticking
  <2>2. WireAudit' /\ TickAudit(w)'
    BY <2>1, WireAuditFrame DEF AuditInv, TickAudit
  <2>3. QED
    BY <1>1, <2>2
<1>4. ASSUME \/ \E i \in 1 .. Len(wire) : TelegramHandles(i)
             \/ \E m \in Messages : Approve(m)
             \/ Outside \/ Advance \/ UNCHANGED vars
      PROVE  AuditInv'
  <2>1. UNCHANGED <<delivery, updatedAt, attempts, job>>
    BY <1>4
       DEF TelegramHandles, Approve, ApproveMessage, Outside, Advance, vars,
           sendVars, storeVars
  <2>2. Len(wire') = Len(wire)
    BY <1>4 DEF TelegramHandles, Approve, Outside, Advance, vars, sendVars
  <2>3. WireAudit'
    BY <2>1, <2>2, WireIsKept, WireAuditFrame DEF AuditInv
  <2>4. \A w \in Workers : TickAudit(w)'
    BY <2>1 DEF AuditInv, TickAudit, Slot
  <2>5. QED
    BY <2>3, <2>4 DEF AuditInv
<1>5. QED
  BY <1>2, <1>3, <1>4 DEF Next

LEMMA AuditHolds ==
  ASSUME OneTickAtATime
  PROVE  Spec => []AuditInv
<1>1. Init => AuditInv
  BY DEF Init, AuditInv, WireAudit, TickAudit, Resting, Ticking
<1>2. TypeInv /\ AuditInv /\ [Next]_vars => AuditInv'
  BY NextKeepsAudit
<1>3. QED
  BY <1>1, <1>2, TypeInvHolds, PTL DEF Spec

\* Ticks that do not overlap leave no request out of the audit log: once the
\* delivery is concluded, an attempt bears the timestamp the request was sent
\* with, an interrupted one included (record_delivery_attempt).
THEOREM EveryRequestIsLogged ==
  ASSUME OneTickAtATime
  PROVE  Spec => []EveryRequestAudited
<1>1. AuditInv => EveryRequestAudited
  BY DEF AuditInv, WireAudit, Audited, Underway, EveryRequestAudited,
         AttemptOutcomes
<1>2. QED
  BY <1>1, AuditHolds, PTL

\* A tick that runs alone retries the FAILED delivery it read, so it keeps what
\* run_daily_send says of an ambiguous outcome: never retried.
THEOREM SequentialTicksKeepTheRule ==
  ASSUME OneTickAtATime
  PROVE  Spec => UnknownNeverRetried
<1>1. ASSUME TypeInv, AuditInv, [Next]_vars
      PROVE  UnknownStays
  <2> SUFFICES ASSUME NEW s \in Slots, delivery[s] = "delivery_unknown"
               PROVE  delivery'[s] \in {"delivery_unknown", "sent"}
    BY DEF UnknownStays
  <2>1. RowStep(s)
    BY <1>1, NextMovesRows
  <2>2. ~\E w \in Workers : job[w].pc = "retry" /\ Slot(w) = s
    BY <1>1 DEF AuditInv, TickAudit
  <2>3. ASSUME NEW w \in Workers, RecordsOn(w, s)
        PROVE  FALSE
    BY <1>1, <2>3 DEF RecordsOn, AuditInv, TickAudit
  <2>4. QED
    BY <2>1, <2>2, <2>3 DEF RowStep
<1>2. TypeInv /\ AuditInv /\ [Next]_vars => [UnknownStays]_vars
  BY <1>1
<1>3. QED
  BY <1>2, AuditHolds, TypeInvHolds, PTL DEF Spec, UnknownNeverRetried

LEMMA SequentialIsDocumented ==
  ASSUME OneTickAtATime
  PROVE  Spec => DocumentedSpec
BY SequentialTicksKeepTheRule, RuleMakesDocumented, PTL

\* Ticks that do not overlap deliver at most one voice note per Pacific date,
\* whatever recipient keys their callers pass, whenever processes die and
\* however late Telegram answers (run_daily_send and send_voice_note).
THEOREM ExactlyOnce ==
  ASSUME OneTickAtATime
  PROVE  Spec => []AtMostOneNote
BY SequentialIsDocumented, OnceUnderTheRule, PTL

\* And a request leaves only when every earlier one of its delivery is known
\* to be refused (the FAILED retry of run_daily_send).
THEOREM RetryIsCertain ==
  ASSUME OneTickAtATime
  PROVE  Spec => RetryOnlyWhenRefused
BY SequentialIsDocumented, CertainUnderTheRule, PTL

(***************************************************************************)
(* The promise of DailyNote                                                *)
(***************************************************************************)

Accepted(d) ==
  {i \in 1 .. Len(wire) : wire[i].slot[2] = d /\ wire[i].status = "accepted"}

\* The row a date's verdict is read from.
RowOf(d) == <<EnrolledKey, d>>

VerdictFor(state) ==
  CASE state = "sent" -> "sent"
    [] state = "failed" -> "failed"
    [] state = "delivery_unknown" -> "unknown"
    [] OTHER -> "open"

DayInv == TypeInv /\ OnceInv /\ NoteInv

LEMMA NotesAre ==
  ASSUME DayInv, NEW d \in Days
  PROVE  /\ Accepted(d) = {} => NotesOf(d) = 0
         /\ \A i \in Accepted(d) : NotesOf(d) = 1 /\ i \in Live(RowOf(d))
<1> USE DEF DayInv
<1>1. NotesOf(d) = Cardinality(Accepted(d))
  BY DEF NotesOf, Accepted
<1>2. Accepted(d) = {} => NotesOf(d) = 0
  BY <1>1, FS_EmptySet
<1>3. ASSUME NEW i \in Accepted(d)
      PROVE  i \in Live(RowOf(d))
  <2>1. wire[i] \in Request /\ i \in 1 .. Len(wire)
    BY DEF Accepted, TypeInv, SendTypeOK
  <2>2. wire[i].slot \in Slots /\ wire[i].slot[1] = EnrolledKey
    BY <2>1 DEF Request, OnceInv, WireOnce
  <2>3. wire[i].slot = RowOf(d)
    BY <2>2 DEF Accepted, Slots, RowOf
  <2>4. QED
    BY <2>3 DEF Accepted, Live
<1>4. ASSUME NEW i \in Accepted(d)
      PROVE  NotesOf(d) = 1
  <2>1. RowOf(d) \in Slots
    BY SendAssumption DEF RowOf, Slots
  <2>2. Accepted(d) = {i}
    BY <1>3, <2>1 DEF OnceInv, WireOnce
  <2>3. QED
    BY <1>1, <2>2, FS_Singleton
<1>5. QED
  BY <1>2, <1>3, <1>4

\* Verdicts and copies are functions of the rows and the accepted requests.
LEMMA NoteFrame ==
  ASSUME \A d \in Days : Accepted(d)' = Accepted(d),
         \A d \in Days : VerdictFor(delivery'[RowOf(d)])
                           = VerdictFor(delivery[RowOf(d)])
  PROVE  UNCHANGED Note!noteVars
<1>1. \A d \in Days : NotesOf(d)' = NotesOf(d)
  BY DEF NotesOf, Accepted
<1>2. \A d \in Days : VerdictOn(d)' = VerdictOn(d)
  BY DEF VerdictOn, VerdictFor, RowOf
<1>3. [d \in Days |-> NotesOf(d)]' = [d \in Days |-> NotesOf(d)]
  BY <1>1
<1>4. [d \in Days |-> VerdictOn(d)]' = [d \in Days |-> VerdictOn(d)]
  BY <1>2
<1>5. QED
  BY <1>3, <1>4 DEF Note!noteVars

\* One row moves: one verdict may, and no copy arrives.
LEMMA NoteMove ==
  ASSUME DayInv, NEW s \in Slots, NEW target, UNCHANGED wire,
         delivery' = [delivery EXCEPT ![s] = target]
  PROVE  /\ s[1] # EnrolledKey => UNCHANGED Note!noteVars
         /\ VerdictFor(target) = VerdictFor(delivery[s])
              => UNCHANGED Note!noteVars
         /\ s[1] = EnrolledKey =>
              /\ s[2] \in Days /\ s = RowOf(s[2])
              /\ VerdictOn(s[2]) = VerdictFor(delivery[s])
              /\ [d \in Days |-> NotesOf(d)]' = [d \in Days |-> NotesOf(d)]
              /\ [d \in Days |-> VerdictOn(d)]' =
                   [[d \in Days |-> VerdictOn(d)]
                      EXCEPT ![s[2]] = VerdictFor(target)]
<1>1. \A r \in Slots : delivery'[r] = IF r = s THEN target ELSE delivery[r]
  BY DEF DayInv, TypeInv, StoreInv, StoreTypeOK
<1>2. \A d \in Days : RowOf(d) \in Slots /\ (RowOf(d) = s <=> s = <<EnrolledKey, d>>)
  BY SendAssumption DEF RowOf, Slots
<1>3. \A d \in Days : Accepted(d)' = Accepted(d)
  BY DEF Accepted
<1>4. ASSUME s[1] # EnrolledKey
      PROVE  UNCHANGED Note!noteVars
  <2>1. \A d \in Days : RowOf(d) # s
    BY <1>4 DEF RowOf
  <2>2. QED
    BY <1>1, <1>2, <1>3, <2>1, NoteFrame
<1>5. ASSUME VerdictFor(target) = VerdictFor(delivery[s])
      PROVE  UNCHANGED Note!noteVars
  BY <1>1, <1>2, <1>3, <1>5, NoteFrame
<1>6. ASSUME s[1] = EnrolledKey
      PROVE  /\ s[2] \in Days /\ s = RowOf(s[2])
             /\ VerdictOn(s[2]) = VerdictFor(delivery[s])
             /\ [d \in Days |-> NotesOf(d)]' = [d \in Days |-> NotesOf(d)]
             /\ [d \in Days |-> VerdictOn(d)]' =
                  [[d \in Days |-> VerdictOn(d)]
                     EXCEPT ![s[2]] = VerdictFor(target)]
  <2>1. s[2] \in Days /\ s = RowOf(s[2])
    BY <1>6 DEF Slots, RowOf
  <2>2. \A d \in Days : VerdictOn(d) = VerdictFor(delivery[RowOf(d)])
    BY DEF VerdictOn, VerdictFor, RowOf
  <2>3. \A d \in Days : VerdictOn(d)' = VerdictFor(delivery'[RowOf(d)])
    BY DEF VerdictOn, VerdictFor, RowOf
  <2>4. \A d \in Days : d # s[2] => RowOf(d) # s
    BY DEF RowOf
  <2>5. \A d \in Days : VerdictOn(d)' = IF d = s[2] THEN VerdictFor(target)
                                        ELSE VerdictOn(d)
    BY <1>1, <1>2, <2>1, <2>2, <2>3, <2>4
  <2>6. [d \in Days |-> VerdictOn(d)]' =
          [[d \in Days |-> VerdictOn(d)] EXCEPT ![s[2]] = VerdictFor(target)]
    BY <2>1, <2>5
  <2>7. \A d \in Days : NotesOf(d)' = NotesOf(d)
    BY DEF NotesOf
  <2>8. [d \in Days |-> NotesOf(d)]' = [d \in Days |-> NotesOf(d)]
    BY <2>7
  <2>9. QED
    BY <2>1, <2>2, <2>6, <2>8
<1>7. QED
  BY <1>4, <1>5, <1>6

\* A request that is still open belongs to a date whose verdict is open or
\* unknown: neither FAILED nor, since SENT names the one live request, SENT.
LEMMA PendingIsOpen ==
  ASSUME DayInv, NEW i \in 1 .. Len(wire), wire[i].status = "pending"
  PROVE  /\ wire[i].slot[2] \in Days
         /\ wire[i].slot = RowOf(wire[i].slot[2])
         /\ VerdictOn(wire[i].slot[2]) \in {"open", "unknown"}
         /\ Accepted(wire[i].slot[2]) = {}
<1> USE DEF DayInv
<1> DEFINE s == wire[i].slot
<1>1. wire[i] \in Request
  BY DEF TypeInv, SendTypeOK
<1>2. s \in Slots /\ s[1] = EnrolledKey
  BY <1>1 DEF Request, OnceInv, WireOnce
<1>3. s[2] \in Days /\ s = RowOf(s[2])
  BY <1>2 DEF Slots, RowOf
<1>4. i \in Live(s)
  BY DEF Live
<1>5. delivery[s] # "failed"
  BY <1>2, <1>4 DEF OnceInv, WireOnce, OpenStates
<1>6. delivery[s] # "sent"
  <2> SUFFICES ASSUME delivery[s] = "sent"
               PROVE  FALSE
    OBVIOUS
  <2>1. /\ provider[s] \in Live(s)
        /\ wire[provider[s]].status = "accepted"
    BY <1>2 DEF NoteInv, SentNamesANote, Live
  <2>2. provider[s] = i
    BY <1>2, <1>4, <2>1 DEF OnceInv, WireOnce
  <2>3. QED
    BY <2>1, <2>2
<1>7. VerdictOn(s[2]) \in {"open", "unknown"}
  BY <1>3, <1>5, <1>6 DEF VerdictOn, RowOf
<1>8. Accepted(s[2]) = {}
  <2> SUFFICES ASSUME NEW j \in Accepted(s[2])
               PROVE  FALSE
    OBVIOUS
  <2>1. j \in Live(s) /\ wire[j].status = "accepted"
    BY <1>3, NotesAre DEF Accepted
  <2>2. j = i
    BY <1>2, <1>4, <2>1 DEF OnceInv, WireOnce
  <2>3. QED
    BY <2>1, <2>2
<1>9. QED
  BY <1>3, <1>7, <1>8

LEMMA HandlingArrives ==
  ASSUME DayInv, NEW i \in 1 .. Len(wire), TelegramHandles(i)
  PROVE  Note!NoteNext \/ UNCHANGED Note!noteVars
<1> DEFINE day == wire[i].slot[2]
<1>1. PICK status \in RequestStatus :
        wire' = [wire EXCEPT ![i] = [wire[i] EXCEPT !.status = status]]
  BY DEF TelegramHandles
<1>2. wire[i] \in Request /\ wire \in Seq(Request) /\ wire[i].status = "pending"
  BY DEF DayInv, TypeInv, SendTypeOK, TelegramHandles
<1>3. /\ [wire[i] EXCEPT !.status = status].slot = wire[i].slot
      /\ [wire[i] EXCEPT !.status = status].status = status
  BY <1>2 DEF Request
<1>4. /\ Len(wire') = Len(wire)
      /\ wire'[i].slot = wire[i].slot /\ wire'[i].status = status
      /\ \A k \in 1 .. Len(wire) : k # i => wire'[k] = wire[k]
  BY <1>1, <1>2, <1>3
<1>5. \A d \in Days : delivery'[RowOf(d)] = delivery[RowOf(d)]
  BY DEF TelegramHandles, storeVars, RowOf
<1>6. \A d \in Days : d # day => Accepted(d)' = Accepted(d)
  BY <1>4 DEF Accepted
<1>7. CASE status # "accepted"
  <2>1. \A d \in Days : Accepted(d)' = Accepted(d)
    BY <1>2, <1>4, <1>7 DEF Accepted
  <2>2. QED
    BY <1>5, <2>1, NoteFrame
<1>8. CASE status = "accepted"
  <2>1. /\ day \in Days /\ VerdictOn(day) \in {"open", "unknown"}
        /\ Accepted(day) = {}
    BY <1>2, PendingIsOpen
  <2>2. PICK e \in Days : e = day
    BY <2>1
  <2> HIDE DEF day
  <2>3. NotesOf(e) = 0
    BY <2>1, <2>2, NotesAre
  <2>4. Accepted(e)' = {i}
    BY <1>4, <1>8, <2>1, <2>2 DEF Accepted, day
  <2>5. NotesOf(e)' = 1
    <3>1. NotesOf(e)' = Cardinality(Accepted(e)')
      BY DEF NotesOf, Accepted
    <3>2. QED
      BY <2>4, <3>1, FS_Singleton
  <2>6. \A d \in Days : NotesOf(d)' = IF d = e THEN 1 ELSE NotesOf(d)
    BY <1>6, <2>2, <2>5 DEF NotesOf, Accepted
  <2>7. [d \in Days |-> NotesOf(d)]' = [[d \in Days |-> NotesOf(d)] EXCEPT ![e] = 1]
    BY <2>6
  <2>8. [d \in Days |-> VerdictOn(d)]' = [d \in Days |-> VerdictOn(d)]
    BY <1>5 DEF VerdictOn, RowOf
  <2>9. Note!Arrive(e)
    BY <2>1, <2>2, <2>3, <2>7, <2>8 DEF Note!Arrive
  <2>10. QED
    BY <2>2, <2>9 DEF Note!NoteNext
<1>9. QED
  BY <1>7, <1>8

\* An ambiguous delivery may still turn into SENT while a tick that sent a note
\* for it is about to record its outcome.
AnswerOverdue ==
  \E w \in Workers :
    job[w].pc = "record" /\ delivery[Slot(w)] = "delivery_unknown"

\* What a step of the daily send is to DailyNote.
Keeps ==
  \/ Note!NoteNext \/ UNCHANGED Note!noteVars
  \/ AnswerOverdue /\ \E d \in Days : Note!Learn(d)

\* The row whose outcome is recorded was SENDING, or had become ambiguous and is
\* settled now; the verdict is true.
LEMMA RecordingConcludes ==
  ASSUME DayInv, NEW w \in Workers, RecordOutcome(w), ~UNCHANGED storeVars
  PROVE  Keeps
<1> DEFINE s == Slot(w)
<1> USE JobTyped DEF DayInv, TypeInv
<1>1. /\ s \in Slots /\ job[w].outcome \in AttemptOutcomes
      /\ <<delivery[s], job[w].outcome>> \in DeliveryTransitions
      /\ delivery' = [delivery EXCEPT ![s] = job[w].outcome]
      /\ UNCHANGED wire
  BY DEF RecordOutcome, RecordDeliveryAttempt, CanTransition, MoveBoth
<1>2. \/ delivery[s] = "sending"
      \/ delivery[s] = "delivery_unknown" /\ job[w].outcome = "sent"
  BY <1>1 DEF DeliveryTransitions, AttemptOutcomes
<1>3. PICK v \in Note!Verdicts \ {"open"} :
        /\ v = VerdictFor(job[w].outcome)
        /\ v = "sent" <=> job[w].outcome = "sent"
        /\ v = "failed" => job[w].outcome = "failed"
  BY <1>1 DEF VerdictFor, AttemptOutcomes, Note!Verdicts
<1>4. CASE s[1] # EnrolledKey
  BY <1>1, <1>4, NoteMove DEF Keeps
<1>5. CASE s[1] = EnrolledKey
  <2>1. PICK d \in Days : d = s[2]
    BY <1>1, <1>5, NoteMove
  <2>2. s = RowOf(d) /\ VerdictOn(d) = VerdictFor(delivery[s])
    BY <1>1, <1>5, <2>1, NoteMove
  <2>3. /\ [e \in Days |-> NotesOf(e)]' = [e \in Days |-> NotesOf(e)]
        /\ [e \in Days |-> VerdictOn(e)]' =
             [[e \in Days |-> VerdictOn(e)] EXCEPT ![d] = v]
    BY <1>1, <1>3, <1>5, <2>1, NoteMove
  <2>4. ASSUME v = "sent"
        PROVE  NotesOf(d) = 1
    <3>1. /\ job[w].request \in 1 .. Len(wire)
          /\ wire[job[w].request].slot = s
          /\ wire[job[w].request].status = "accepted"
      BY <1>3, <2>4 DEF RecordOutcome, NoteInv, Requested, Answer
    <3>2. job[w].request \in Accepted(d)
      BY <2>1, <3>1 DEF Accepted
    <3>3. QED
      BY <3>2, NotesAre
  <2>5. ASSUME v = "failed"
        PROVE  NotesOf(d) = 0
    <3>1. Live(s) = {}
      BY <1>3, <2>5 DEF RecordOutcome, OnceInv, TickOnce
    <3>2. Accepted(d) = {}
      BY <2>2, <3>1, NotesAre
    <3>3. QED
      BY <3>2, NotesAre
  <2>6. CASE delivery[s] = "sending"
    <3>1. VerdictOn(d) = "open"
      BY <2>2, <2>6 DEF VerdictFor
    <3>2. Note!Conclude(d, v)
      BY <2>3, <2>4, <2>5, <3>1 DEF Note!Conclude
    <3>3. QED
      BY <3>2 DEF Keeps, Note!NoteNext
  <2>7. CASE delivery[s] = "delivery_unknown" /\ job[w].outcome = "sent"
    <3>1. VerdictOn(d) = "unknown" /\ v = "sent"
      BY <1>3, <2>2, <2>7 DEF VerdictFor
    <3>2. Note!Learn(d)
      BY <2>3, <2>4, <3>1 DEF Note!Learn
    <3>3. AnswerOverdue
      BY <2>7 DEF RecordOutcome, AnswerOverdue
    <3>4. QED
      BY <3>2, <3>3 DEF Keeps
  <2>8. QED
    BY <1>2, <2>6, <2>7
<1>6. QED
  BY <1>4, <1>5

\* A retry reopens a date that is certainly without a note.
LEMMA RetryReopens ==
  ASSUME DayInv, UnknownStays, NEW w \in Workers, Retry(w),
         ~UNCHANGED storeVars
  PROVE  Note!NoteNext \/ UNCHANGED Note!noteVars
<1> DEFINE s == Slot(w)
<1> USE JobTyped DEF DayInv, TypeInv
<1>1. /\ s \in Slots
      /\ delivery' = [delivery EXCEPT ![s] = "audio_ready"]
      /\ delivery \in [Slots -> {"none"} \cup DeliveryStates]
      /\ delivery[s] \in {"reserved", "failed", "delivery_unknown"}
      /\ UNCHANGED wire
  BY DEF Retry, TransitionDelivery, CanTransition, DeliveryTransitions, MoveBoth,
         StoreInv, StoreTypeOK
<1>2. delivery[s] \in {"reserved", "failed"}
  BY <1>1 DEF UnknownStays
<1>3. /\ VerdictFor("failed") = "failed"
      /\ VerdictFor("reserved") = "open" /\ VerdictFor("audio_ready") = "open"
  BY DEF VerdictFor
<1>4. CASE s[1] # EnrolledKey \/ delivery[s] = "reserved"
  <2>1. s[1] # EnrolledKey \/ VerdictFor("audio_ready") = VerdictFor(delivery[s])
    BY <1>3, <1>4
  <2>2. QED
    BY <1>1, <2>1, NoteMove
<1>5. CASE s[1] = EnrolledKey /\ delivery[s] = "failed"
  <2>1. PICK d \in Days : d = s[2]
    BY <1>1, <1>5, NoteMove
  <2>2. VerdictOn(d) = "failed"
    BY <1>1, <1>3, <1>5, <2>1, NoteMove
  <2>3. /\ [e \in Days |-> NotesOf(e)]' = [e \in Days |-> NotesOf(e)]
        /\ [e \in Days |-> VerdictOn(e)]' =
             [[e \in Days |-> VerdictOn(e)] EXCEPT ![d] = "open"]
    <3>1. /\ [e \in Days |-> NotesOf(e)]' = [e \in Days |-> NotesOf(e)]
          /\ [e \in Days |-> VerdictOn(e)]' =
               [[e \in Days |-> VerdictOn(e)]
                  EXCEPT ![s[2]] = VerdictFor("audio_ready")]
      BY <1>1, <1>5, NoteMove
    <3>2. QED
      BY <1>3, <2>1, <3>1
  <2>4. Note!Reopen(d)
    BY <2>2, <2>3 DEF Note!Reopen
  <2>5. QED
    BY <2>4 DEF Note!NoteNext
<1>6. QED
  BY <1>2, <1>4, <1>5

\* The other moves of a row leave the date open.
LEMMA OpenStaysOpen ==
  ASSUME DayInv, NEW w \in Workers, Reserve(w) \/ Produce(w) \/ Begin(w),
         ~UNCHANGED storeVars
  PROVE  UNCHANGED Note!noteVars
<1> USE JobTyped DEF DayInv, TypeInv
<1>1. PICK s \in Slots, target \in {"reserved", "audio_ready", "sending"} :
        /\ delivery' = [delivery EXCEPT ![s] = target]
        /\ delivery[s] \in {"none", "reserved", "audio_ready"}
        /\ UNCHANGED wire
  <2>1. CASE Reserve(w)
    BY <2>1 DEF Reserve, ReserveNextMessage
  <2>2. CASE Produce(w)
    BY <2>2 DEF Produce, MarkAudioReady, CanMarkAudioReady, MoveBoth
  <2>3. CASE Begin(w)
    BY <2>3 DEF Begin, TransitionDelivery, CanTransition, DeliveryTransitions,
                MoveBoth
  <2>4. QED
    BY <2>1, <2>2, <2>3
<1>2. VerdictFor(target) = VerdictFor(delivery[s])
  BY <1>1 DEF VerdictFor
<1>3. QED
  BY <1>1, <1>2, NoteMove

\* A request that has just left is not accepted yet.
LEMMA PostIsNoNote ==
  ASSUME DayInv, NEW w \in Workers, Post(w)
  PROVE  UNCHANGED Note!noteVars
<1> DEFINE r == [slot |-> Slot(w), stamp |-> job[w].now, status |-> "pending"]
<1>1. /\ r \in Request /\ wire' = Append(wire, r) /\ wire \in Seq(Request)
      /\ r.status = "pending" /\ UNCHANGED delivery
  BY JobTyped
     DEF DayInv, Post, TypeInv, SendTypeOK, Request, RequestStatus, storeVars
<1> HIDE DEF r
<1>2. /\ Len(wire) \in Nat /\ Len(wire') = Len(wire) + 1
      /\ wire'[Len(wire) + 1] = r
      /\ \A i \in 1 .. Len(wire) : wire'[i] = wire[i]
  BY <1>1
<1>3. \A d \in Days : Accepted(d)' = Accepted(d)
  BY <1>1, <1>2 DEF Accepted
<1>4. QED
  BY <1>1, <1>3, NoteFrame

LEMMA NextImplementsNote ==
  ASSUME DayInv, [Next]_vars, UnknownStays
  PROVE  Keeps
<1>1. ASSUME UNCHANGED <<delivery, wire>>
      PROVE  UNCHANGED Note!noteVars
  <2>1. \A d \in Days : Accepted(d)' = Accepted(d)
    BY <1>1 DEF Accepted
  <2>2. QED
    BY <1>1, <2>1, NoteFrame
<1>2. ASSUME NEW w \in Workers, TickStep(w)
      PROVE  Keeps
  <2>1. CASE Post(w)
    BY <2>1, PostIsNoNote DEF Keeps
  <2>2. CASE ~Post(w) /\ UNCHANGED storeVars
    <3>1. UNCHANGED wire
      BY <1>2, <2>2
         DEF TickStep, Poll, ReadControl, Reserve, Lookup, Recover, Retry,
             Produce, Load, Begin, RecordNonce, PostFails, Answered, AnswerLost,
             AnswerUndecodable, Blocked, RecordOutcome, sendVars
    <3>2. QED
      BY <1>1, <2>2, <3>1 DEF storeVars, Keeps
  <2>3. CASE ~UNCHANGED storeVars
    <3>1. \/ Reserve(w) \/ Produce(w) \/ Begin(w) \/ Retry(w)
          \/ RecordOutcome(w)
      BY <1>2, <2>3
         DEF TickStep, Poll, ReadControl, Lookup, Recover, Load, RecordNonce,
             Post, PostFails, Answered, AnswerLost, AnswerUndecodable, Blocked
    <3>2. QED
      BY <2>3, <3>1, OpenStaysOpen, RetryReopens, RecordingConcludes DEF Keeps
  <2>4. QED
    BY <2>1, <2>2, <2>3
<1>3. ASSUME \/ \E w \in Workers : (\E k \in Keys : StartTick(w, k)) \/ Crash(w)
             \/ \E m \in Messages : Approve(m)
             \/ Outside \/ Advance \/ UNCHANGED vars
      PROVE  UNCHANGED Note!noteVars
  <2>1. UNCHANGED <<delivery, wire>>
    BY <1>3
       DEF StartTick, Crash, Approve, ApproveMessage, Outside, Advance, vars,
           sendVars, storeVars
  <2>2. QED
    BY <1>1, <2>1
<1>4. QED
  BY <1>2, <1>3, HandlingArrives DEF Next, Keeps

LEMMA InitIsNote == Init => Note!NoteInit
<1> SUFFICES ASSUME Init
             PROVE  Note!NoteInit
  OBVIOUS
<1>1. \A d \in Days : Accepted(d) = {}
  BY DEF Init, Accepted
<1>2. \A d \in Days : NotesOf(d) = 0
  BY <1>1, FS_EmptySet DEF NotesOf, Accepted
<1>3. \A d \in Days : VerdictOn(d) = "open"
  BY SendAssumption DEF Init, NoDeliveries, VerdictOn, Slots
<1>4. QED
  BY <1>2, <1>3 DEF Note!NoteInit

LEMMA StaysWhenIdle == UNCHANGED vars => UnknownStays
BY DEF vars, storeVars, UnknownStays

\* However many ticks overlap, as long as no stale one retries an ambiguous
\* delivery, each date gets at most one copy, FAILED is only recorded when none
\* arrived and none still can, SENT only when one did, and an ambiguous date is
\* never reopened: all that overlapping adds to DailyNote is that the sender may
\* settle a delivery that a tick beside it has already recovered as ambiguous.
THEOREM OverlapOnlyLearns == DocumentedSpec => LearnsDailyNote
<1>1. DayInv /\ [Next /\ UnknownStays]_vars
        => [Note!LearningNext]_Note!noteVars
  BY NextImplementsNote, StaysWhenIdle DEF Keeps, Note!LearningNext
<1>2. QED
  BY <1>1, InitIsNote, NotesHold, OnceHolds, TypeInvHolds, DocumentedIsSpec, PTL
     DEF DocumentedSpec, DayInv, LearnsDailyNote, Note!LearningSpec

\* Ticks that do not overlap implement DailyNote: one copy per date at most, and
\* a verdict that is true of what arrived and of what still may.
THEOREM DailySendKeepsItsPromise ==
  ASSUME OneTickAtATime
  PROVE  Spec => ImplementsDailyNote
<1>1. AuditInv => ~AnswerOverdue
  BY DEF AuditInv, TickAudit, AnswerOverdue
<1>2. DayInv /\ AuditInv /\ [Next /\ UnknownStays]_vars
        => [Note!NoteNext]_Note!noteVars
  BY <1>1, NextImplementsNote, StaysWhenIdle DEF Keeps
<1>3. QED
  BY <1>2, InitIsNote, NotesHold, OnceHolds, AuditHolds, TypeInvHolds,
     SequentialIsDocumented, PTL
     DEF DocumentedSpec, DayInv, ImplementsDailyNote, Note!NoteSpec

(***************************************************************************)
(* The STOP under one tick at a time                                       *)
(***************************************************************************)

\* Every STOP that was consumed or took effect was overruled since.
Heeded == \A i \in Stops(Consumed) \cup DOMAIN obeyed : Overruled(i)

\* A tick goes on to send only after it read, behind its own poll, that sending
\* was enabled; no STOP is consumed or takes effect until the next tick polls.
HeedInv ==
  \A w \in Workers :
    /\ job[w].pc \in {"reserve", "retry", "produce", "load", "begin", "nonce",
                      "post"} => job[w].enabled
    /\ job[w].pc = "poll" => ~job[w].enabled
    /\ job[w].enabled => Heeded

\* Nothing but a poll consumes updates or obeys a STOP, and a re-enable stays
\* in the trail.
LEMMA HeededStays ==
  ASSUME StopInv, ControlStep, UNCHANGED <<forgotten, offset, historyVars>>,
         Heeded,
         \/ inbox' = inbox
         \/ \E kind \in UpdateKinds : inbox' = Append(inbox, kind)
  PROVE  Heeded'
<1>1. /\ inbox \in Seq(UpdateKinds) /\ events \in Seq(ControlValues)
      /\ Len(inbox) \in Nat /\ offset \in Nat /\ offset <= Len(inbox) + 1
      /\ forgotten \in 0 .. Len(inbox) /\ obeyed' = obeyed
  BY DEF StopInv, InboundTypeOK, SafeOffset, historyVars
<1>2. ASSUME NEW i, Overruled(i)
      PROVE  Overruled(i)'
  <2>1. PICK j \in 1 .. Len(events) : j > obeyed[i] /\ events[j] = "enabled"
    BY <1>2 DEF Overruled
  <2>2. j \in 1 .. Len(events') /\ events'[j] = "enabled"
    BY <1>1, <2>1, EventsGrow
  <2>3. QED
    BY <1>1, <1>2, <2>1, <2>2 DEF Overruled
<1>3. Stops(Consumed)' = Stops(Consumed)
  <2>1. CASE inbox' = inbox
    BY <2>1 DEF Consumed, Stops
  <2>2. ASSUME NEW kind \in UpdateKinds, inbox' = Append(inbox, kind)
        PROVE  Stops(Consumed)' = Stops(Consumed)
    <3>1. /\ Len(inbox') = Len(inbox) + 1
          /\ \A i \in 1 .. Len(inbox) : inbox'[i] = inbox[i]
      BY <1>1, <2>2
    <3>2. Consumed' = Consumed /\ Consumed \subseteq 1 .. Len(inbox)
      BY <1>1, <3>1 DEF Consumed
    <3>3. QED
      BY <3>1, <3>2 DEF Stops
  <2>3. QED
    BY <2>1, <2>2
<1>4. QED
  BY <1>1, <1>2, <1>3 DEF Heeded

LEMMA InitHeed == Init => HeedInv
BY DEF Init, HeedInv, Resting, Ticking

LEMMA NextKeepsHeed ==
  ASSUME OneTickAtATime, TypeInv, HeedInv, [Next]_vars
  PROVE  HeedInv'
<1> USE LocalsAfter DEF TypeInv
<1>1. ASSUME StopInv, ControlStep, UNCHANGED <<forgotten, offset, historyVars>>,
             \/ inbox' = inbox
             \/ \E kind \in UpdateKinds : inbox' = Append(inbox, kind)
      PROVE  Heeded => Heeded'
  BY <1>1, HeededStays
<1>2. ASSUME UNCHANGED <<controlVars, forgotten, offset, inbox, historyVars>>
      PROVE  Heeded => Heeded'
  BY <1>1, <1>2 DEF ControlStep
<1>3. ASSUME NEW w \in Workers, TickStep(w)
      PROVE  HeedInv'
  <2>1. CASE Poll(w)
    <3>1. UNCHANGED job /\ job[w].pc = "poll"
      BY <2>1 DEF Poll, sendVars
    <3>2. ~job[w].enabled
      BY <3>1 DEF HeedInv
    <3>3. \A v \in Workers : v = w
      BY DEF OneTickAtATime
    <3>4. QED
      BY <3>1, <3>2, <3>3 DEF HeedInv
  <2>2. CASE ReadControl(w)
    <3>1. /\ job'[w].enabled = SendingEnabled
          /\ job'[w].pc \in {"reserve", "lookup"}
          /\ job'[w].pc = "reserve" => job'[w].enabled
      BY <2>2 DEF ReadControl, SendTypeOK, Job
    <3>2. SendingEnabled => Heeded
      BY ConsumedIsObeyed, EnabledOverrules DEF Heeded
    <3>3. Heeded => Heeded'
      BY <1>2, <2>2 DEF ReadControl, stopVars, inboundVars
    <3>4. QED
      BY <3>1, <3>2, <3>3 DEF HeedInv, OneTickAtATime
  <2>3. CASE ~Poll(w) /\ ~ReadControl(w)
    <3>1. Heeded => Heeded'
      <4>1. CASE Blocked(w)
        BY <1>1, <4>1, DisableIsControlStep
           DEF Blocked, inboundVars, DisableReason
      <4>2. CASE ~Blocked(w)
        <5>1. UNCHANGED stopVars
          BY <1>3, <2>3, <4>2
             DEF TickStep, Reserve, Lookup, Recover, Retry, Produce, Load, Begin,
                 RecordNonce, Post, PostFails, Answered, AnswerLost,
                 AnswerUndecodable, RecordOutcome
        <5>2. QED
          BY <1>2, <5>1 DEF stopVars, inboundVars
      <4>3. QED
        BY <4>1, <4>2
    <3>2. /\ job'[w].enabled => job[w].enabled
          /\ job'[w].pc # "poll"
          /\ job'[w].pc \in {"reserve", "retry", "produce", "load", "begin",
                             "nonce", "post"} => job'[w].enabled
      <4>1. CASE Lookup(w)
        BY <4>1, ContinuationTyped DEF Lookup, Continuation
      <4>2. CASE Post(w)
        <5>1. job'[w] = [job[w] EXCEPT !.pc = "await", !.request = Len(wire) + 1]
          BY <4>2 DEF Post, SendTypeOK
        <5>2. job'[w].pc = "await" /\ job'[w].enabled = job[w].enabled
          BY <5>1, JobTyped DEF Job
        <5>3. QED
          BY <5>2
      <4>3. CASE \/ Retry(w) \/ Produce(w) \/ Load(w) \/ Begin(w)
                 \/ RecordNonce(w) \/ Reserve(w)
        BY <4>3
           DEF Reserve, Retry, Produce, Load, Begin, RecordNonce, HeedInv
      <4>4. CASE \/ Recover(w) \/ PostFails(w) \/ Answered(w) \/ AnswerLost(w)
                 \/ AnswerUndecodable(w) \/ Blocked(w) \/ RecordOutcome(w)
        BY <4>4
           DEF Recover, PostFails, Answered, AnswerLost, AnswerUndecodable,
               Blocked, RecordOutcome
      <4>5. QED
        BY <1>3, <2>3, <4>1, <4>2, <4>3, <4>4 DEF TickStep
    <3>3. QED
      BY <3>1, <3>2 DEF HeedInv, OneTickAtATime
  <2>4. QED
    BY <2>1, <2>2, <2>3
<1>4. ASSUME NEW w \in Workers, (\E k \in Keys : StartTick(w, k)) \/ Crash(w)
      PROVE  HeedInv'
  <2>1. job'[w].pc \in {"poll", "idle"} /\ ~job'[w].enabled
    BY <1>4 DEF StartTick, Crash, SendTypeOK, Ticking
  <2>2. QED
    BY <2>1 DEF HeedInv, OneTickAtATime
<1>5. ASSUME \/ \E i \in 1 .. Len(wire) : TelegramHandles(i)
             \/ \E m \in Messages : Approve(m)
             \/ Outside \/ Advance \/ UNCHANGED vars
      PROVE  HeedInv'
  <2>1. UNCHANGED job
    BY <1>5 DEF TelegramHandles, Approve, Outside, Advance, vars, sendVars
  <2>2. Heeded => Heeded'
    <3>1. CASE Outside
      BY <1>1, <3>1, DisableIsControlStep
         DEF Outside, People, UpdateArrives, AdminDisables, OwnerEnables,
             EnableSending, inboundVars, ControlStep, DisableReason
    <3>2. CASE ~Outside
      BY <1>2, <1>5, <3>2
         DEF TelegramHandles, Approve, Advance, vars, stopVars, inboundVars
    <3>3. QED
      BY <3>1, <3>2
  <2>3. QED
    BY <2>1, <2>2 DEF HeedInv
<1>6. QED
  BY <1>3, <1>4, <1>5 DEF Next

LEMMA HeedHolds ==
  ASSUME OneTickAtATime
  PROVE  Spec => []HeedInv
<1>1. TypeInv /\ HeedInv /\ [Next]_vars => HeedInv'
  BY NextKeepsHeed
<1>2. QED
  BY <1>1, InitHeed, TypeInvHolds, PTL DEF Spec

\* With ticks that do not overlap no request leaves once a STOP was consumed or
\* disabled sending, until the owner re-enables sending after that STOP took
\* effect (the order poll, then is_sending_enabled, of run_daily_entrypoint).
THEOREM StopIsHeeded ==
  ASSUME OneTickAtATime
  PROVE  Spec => NoSendAfterStop
<1>1. ASSUME TypeInv, HeedInv, [Next]_vars, Sends
      PROVE  Heeded
  <2>1. Len(wire) \in Nat
    BY <1>1 DEF TypeInv, SendTypeOK
  <2>2. PICK w \in Workers : Post(w)
    BY <1>1, <2>1, WireIsKept DEF Sends
  <2>3. QED
    BY <1>1, <2>2 DEF Post, HeedInv
<1>2. TypeInv /\ HeedInv /\ [Next]_vars
        => [Sends => \A i \in Stops(Consumed) \cup DOMAIN obeyed : Overruled(i)]_vars
  BY <1>1 DEF Heeded
<1>3. QED
  BY <1>2, HeedHolds, TypeInvHolds, PTL DEF Spec, NoSendAfterStop
=============================================================================
