--------------------------- MODULE DailySendProofs ---------------------------
(***************************************************************************)
(* Proofs about the daily send: what holds however many ticks overlap, and *)
(* then the exactly-once core under ticks that do not overlap.             *)
(***************************************************************************)
EXTENDS DailySend, DeliveryStoreProofs, InboundStopProofs

SendTypeOK ==
  /\ clock \in Instants
  /\ ticked \subseteq Workers
  /\ job \in [Workers -> Job]
  /\ nonces \subseteq Slots \X Instants
  /\ wire \in Seq(Request)
  /\ crashes \in 0 .. MaxCrashes

TypeInv == StoreInv /\ StopInv /\ SendTypeOK

\* The locals of a running tick are usable as arguments of the store.
LEMMA JobTyped ==
  ASSUME SendTypeOK, NEW w \in Workers
  PROVE  /\ job[w] \in Job
         /\ Slot(w) \in Slots
         /\ Slot(w)[1] = job[w].key /\ Slot(w)[2] = PacificDate[job[w].now]
         /\ job[w].now \in Instants /\ job[w].now \in Nat
         /\ job[w].stamp \in Nat /\ job[w].request \in Nat
         /\ job[w].outcome \in AttemptOutcomes
         /\ job[w].key \in Keys
<1>1. /\ job[w] \in Job /\ job[w].now \in Instants /\ job[w].key \in Keys
      /\ job[w].stamp \in Nat /\ job[w].request \in Nat
      /\ job[w].outcome \in AttemptOutcomes
  BY DEF SendTypeOK, Job
<1>2. PacificDate[job[w].now] \in Days /\ job[w].now \in Nat
  BY <1>1, SendAssumption, StoreAssumption
<1>3. QED
  BY <1>1, <1>2 DEF Slot, Slots

(***************************************************************************)
(* The tables keep their invariant: every step is a store operation with   *)
(* typed arguments, or leaves the tables alone.                            *)
(***************************************************************************)

LEMMA TickStepKeepsStore ==
  ASSUME TypeInv, NEW w \in Workers, TickStep(w)
  PROVE  StoreInv'
<1> USE JobTyped DEF TypeInv
<1>1. CASE Reserve(w)
  BY <1>1, ReserveKeepsInv, StoreUnchanged DEF Reserve
<1>2. CASE Retry(w)
  BY <1>2, TransitionKeepsInv, StoreUnchanged DEF Retry
<1>3. CASE Produce(w)
  BY <1>3, MarkAudioReadyKeepsInv, StoreUnchanged DEF Produce
<1>4. CASE Begin(w)
  BY <1>4, TransitionKeepsInv, StoreUnchanged DEF Begin
<1>5. CASE RecordOutcome(w)
  <2>1. (IF job[w].outcome = "sent" THEN job[w].request ELSE 0) \in Nat
    OBVIOUS
  <2>2. QED
    BY <1>5, <2>1, RecordAttemptKeepsInv, StoreUnchanged DEF RecordOutcome
<1>6. CASE \/ Poll(w) \/ ReadControl(w) \/ Lookup(w) \/ Recover(w) \/ Load(w)
           \/ RecordNonce(w) \/ Post(w) \/ PostFails(w)
           \/ Answered(w) \/ AnswerLost(w) \/ AnswerUndecodable(w)
           \/ Blocked(w)
  BY <1>6, StoreUnchanged
     DEF Poll, ReadControl, Lookup, Recover, Load, RecordNonce, Post, PostFails,
         Answered, AnswerLost, AnswerUndecodable, Blocked
<1>7. QED
  BY <1>1, <1>2, <1>3, <1>4, <1>5, <1>6 DEF TickStep

LEMMA NextKeepsStore ==
  ASSUME TypeInv, [Next]_vars
  PROVE  StoreInv'
<1> USE DEF TypeInv
<1>1. ASSUME NEW w \in Workers, TickStep(w)
      PROVE  StoreInv'
  BY <1>1, TickStepKeepsStore
<1>2. ASSUME NEW m \in Messages, Approve(m)
      PROVE  StoreInv'
  BY <1>2, ApproveKeepsInv DEF Approve
<1>3. CASE \/ \E w \in Workers : (\E k \in Keys : StartTick(w, k)) \/ Crash(w)
           \/ \E i \in 1 .. Len(wire) : TelegramHandles(i)
           \/ Outside \/ Advance \/ UNCHANGED vars
  BY <1>3, StoreUnchanged
     DEF StartTick, Crash, TelegramHandles, Outside, Advance, vars
<1>4. QED
  BY <1>1, <1>2, <1>3 DEF Next

(***************************************************************************)
(* So do the inbox and the sending control.                                *)
(***************************************************************************)

\* The 403 of a blocked bot is one more reason to disable sending.
LEMMA BlockedKeepsStop ==
  ASSUME StopInv, NEW w \in Workers, Blocked(w)
  PROVE  StopInv'
BY QuietStep, DisableIsControlStep DEF Blocked, inboundVars, DisableReason

LEMMA NextKeepsStop ==
  ASSUME TypeInv, [Next]_vars
  PROVE  StopInv'
<1> USE DEF TypeInv
<1>1. ASSUME NEW w \in Workers, NEW k \in Keys, StartTick(w, k)
      PROVE  StopInv'
  BY <1>1, BeginPollKeepsInv DEF StartTick
<1>2. ASSUME NEW w \in Workers, Poll(w) \/ Blocked(w)
      PROVE  StopInv'
  BY <1>2, PollStepKeepsInv, BlockedKeepsStop DEF Poll
<1>3. ASSUME NEW w \in Workers, Crash(w)
      PROVE  StopInv'
  BY <1>3, CrashPollKeepsInv DEF Crash
<1>4. CASE Outside
  BY <1>4, PeopleKeepInv DEF Outside
<1>5. ASSUME NEW w \in Workers,
             \/ ReadControl(w) \/ Reserve(w) \/ Lookup(w) \/ Recover(w)
             \/ Retry(w) \/ Produce(w) \/ Load(w) \/ Begin(w)
             \/ RecordNonce(w) \/ Post(w) \/ PostFails(w)
             \/ Answered(w) \/ AnswerLost(w) \/ AnswerUndecodable(w)
             \/ RecordOutcome(w)
      PROVE  StopInv'
  BY <1>5, InboundUnchanged
     DEF ReadControl, Reserve, Lookup, Recover, Retry, Produce, Load, Begin,
         RecordNonce, Post, PostFails, Answered, AnswerLost, AnswerUndecodable,
         RecordOutcome
<1>6. CASE \/ \E m \in Messages : Approve(m)
           \/ \E i \in 1 .. Len(wire) : TelegramHandles(i)
           \/ Advance \/ UNCHANGED vars
  BY <1>6, InboundUnchanged DEF Approve, TelegramHandles, Advance, vars
<1>7. QED
  BY <1>1, <1>2, <1>3, <1>4, <1>5, <1>6 DEF Next, TickStep

(***************************************************************************)
(* And the locals of the ticks, the nonces and the wire are well typed.    *)
(***************************************************************************)

LEMMA TickingTyped ==
  ASSUME NEW step \in TickSteps, NEW now \in Instants, NEW key \in Keys
  PROVE  Ticking(step, now, key) \in Job
BY StoreAssumption DEF Ticking, Job, AttemptOutcomes

LEMMA RestingTyped == Resting \in Job
BY TickingTyped, SendAssumption DEF Resting, TickSteps

LEMMA ReturnTyped ==
  ASSUME job \in [Workers -> Job], NEW w \in Workers, Return(w)
  PROVE  job' \in [Workers -> Job]
BY RestingTyped DEF Return

LEMMA GotoTyped ==
  ASSUME job \in [Workers -> Job], NEW w \in Workers, NEW step \in TickSteps,
         Goto(w, step)
  PROVE  job' \in [Workers -> Job]
BY DEF Goto, Job

LEMMA GoRecordTyped ==
  ASSUME job \in [Workers -> Job], NEW w \in Workers,
         NEW outcome \in AttemptOutcomes, NEW at \in Nat,
         GoRecord(w, outcome, at)
  PROVE  job' \in [Workers -> Job]
<1>1. [job[w] EXCEPT !.pc = "record", !.outcome = outcome, !.stamp = at] \in Job
  <2>1. job[w] \in Job
    OBVIOUS
  <2>2. QED
    BY <2>1 DEF Job, TickSteps
<1>2. QED
  BY <1>1 DEF GoRecord

LEMMA ContinuationTyped ==
  ASSUME NEW state, NEW enabled
  PROVE  Continuation(state, enabled) \in
           {"recover", "retry", "produce", "load", "idle"}
BY DEF Continuation

LEMMA TickStepTyped ==
  ASSUME TypeInv, NEW w \in Workers, TickStep(w)
  PROVE  job' \in [Workers -> Job]
<1>1. job \in [Workers -> Job] /\ job[w].now \in Nat
  BY JobTyped DEF TypeInv, SendTypeOK
<1> USE DEF TickSteps, AttemptOutcomes
<1>2. CASE Poll(w)
  BY <1>1, <1>2 DEF Poll, sendVars
<1>3. CASE ReadControl(w)
  BY <1>1, <1>3 DEF ReadControl, Job, SendingEnabled
<1>4. CASE Reserve(w) \/ Retry(w) \/ Produce(w) \/ Load(w) \/ Begin(w)
  BY <1>1, <1>4, GotoTyped, ReturnTyped
     DEF Reserve, Retry, Produce, Load, Begin
<1>5. CASE Lookup(w)
  BY <1>1, <1>5, ContinuationTyped, GotoTyped, ReturnTyped DEF Lookup
<1>6. CASE Recover(w)
  BY <1>1, <1>6, JobTyped, GoRecordTyped
     DEF Recover, TypeInv, StoreInv, StoreTypeOK
<1>7. CASE RecordNonce(w) \/ PostFails(w) \/ Answered(w) \/ AnswerLost(w)
        \/ Blocked(w)
  BY <1>1, <1>7, GotoTyped, GoRecordTyped
     DEF RecordNonce, PostFails, Answered, AnswerLost, Blocked
<1>8. CASE Post(w)
  <2>1. Len(wire) + 1 \in Nat
    BY DEF TypeInv, SendTypeOK
  <2>2. job[w] \in Job
    BY <1>1
  <2>3. [job[w] EXCEPT !.pc = "await", !.request = Len(wire) + 1] \in Job
    BY <2>1, <2>2 DEF Job
  <2>4. QED
    BY <1>1, <1>8, <2>3 DEF Post
<1>9. CASE AnswerUndecodable(w) \/ RecordOutcome(w)
  BY <1>1, <1>9, ReturnTyped DEF AnswerUndecodable, RecordOutcome
<1>10. QED
  BY <1>2, <1>3, <1>4, <1>5, <1>6, <1>7, <1>8, <1>9 DEF TickStep

LEMMA NextKeepsTypes ==
  ASSUME TypeInv, [Next]_vars
  PROVE  SendTypeOK'
<1> USE DEF TypeInv, SendTypeOK
<1>1. ASSUME NEW w \in Workers, TickStep(w)
      PROVE  SendTypeOK'
  <2>1. job' \in [Workers -> Job]
    BY <1>1, TickStepTyped
  <2>2. /\ UNCHANGED <<clock, ticked, crashes>>
        /\ nonces' \subseteq Slots \X Instants
        /\ wire' \in Seq(Request)
    <3>1. CASE Post(w)
      <4>1. [slot |-> Slot(w), stamp |-> job[w].now, status |-> "pending"]
              \in Request
        BY JobTyped DEF Request, RequestStatus
      <4>2. QED
        BY <3>1, <4>1 DEF Post
    <3>2. CASE RecordNonce(w)
      <4>1. <<Slot(w), job[w].now>> \in Slots \X Instants
        BY JobTyped
      <4>2. QED
        BY <3>2, <4>1 DEF RecordNonce
    <3>3. CASE \/ Poll(w) \/ ReadControl(w) \/ Reserve(w) \/ Lookup(w)
               \/ Recover(w) \/ Retry(w) \/ Produce(w) \/ Load(w) \/ Begin(w)
               \/ PostFails(w) \/ Answered(w) \/ AnswerLost(w)
               \/ AnswerUndecodable(w) \/ Blocked(w) \/ RecordOutcome(w)
      BY <3>3 DEF Poll, ReadControl, Reserve, Lookup, Recover, Retry, Produce,
                  Load, Begin, PostFails, Answered, AnswerLost,
                  AnswerUndecodable, Blocked, RecordOutcome, sendVars
    <3>4. QED
      BY <1>1, <3>1, <3>2, <3>3 DEF TickStep
  <2>3. QED
    BY <2>1, <2>2
<1>2. ASSUME NEW w \in Workers, NEW k \in Keys, StartTick(w, k)
      PROVE  SendTypeOK'
  BY <1>2, TickingTyped DEF StartTick, TickSteps
<1>3. ASSUME NEW w \in Workers, Crash(w)
      PROVE  SendTypeOK'
  BY <1>3, ReturnTyped, SendAssumption DEF Crash
<1>4. ASSUME NEW i \in 1 .. Len(wire), TelegramHandles(i)
      PROVE  SendTypeOK'
  <2>1. wire' \in Seq(Request)
    <3>1. PICK status \in RequestStatus :
            wire' = [wire EXCEPT ![i] = [wire[i] EXCEPT !.status = status]]
      BY <1>4 DEF TelegramHandles
    <3>2. wire[i] \in Request
      OBVIOUS
    <3>3. [wire[i] EXCEPT !.status = status] \in Request
      BY <3>2 DEF Request
    <3>4. QED
      BY <3>1, <3>3
  <2>2. QED
    BY <1>4, <2>1 DEF TelegramHandles
<1>5. CASE Advance
  BY <1>5 DEF Advance
<1>6. CASE (\E m \in Messages : Approve(m)) \/ Outside \/ UNCHANGED vars
  BY <1>6 DEF Approve, Outside, sendVars, vars
<1>7. QED
  BY <1>1, <1>2, <1>3, <1>4, <1>5, <1>6 DEF Next

LEMMA TypeInvHolds == Spec => []TypeInv
<1>1. Init => TypeInv
  <2>1. Init => StoreInv
    BY StoreInitInv DEF Init, ContentStates
  <2>2. Init => StopInv
    BY InboundInitInv DEF Init
  <2>3. Init => SendTypeOK
    BY RestingTyped, SendAssumption DEF Init, SendTypeOK
  <2>4. QED
    BY <2>1, <2>2, <2>3 DEF TypeInv
<1>2. TypeInv /\ [Next]_vars => TypeInv'
  BY NextKeepsStore, NextKeepsStop, NextKeepsTypes DEF TypeInv
<1>3. QED
  BY <1>1, <1>2, PTL DEF Spec

\* With any number of overlapping ticks, crashes and interventions, every
\* variable keeps its type.
THEOREM TypesHold == Spec => []TypeOK
<1>1. TypeInv => TypeOK
  BY DEF TypeInv, StoreInv, StopInv, SendTypeOK, TypeOK
<1>2. QED
  BY <1>1, TypeInvHolds, PTL

\* And the two rows of a delivery agree, each message is spent once, no STOP
\* is lost and the audit trail is true, composed as they are in a tick.
THEOREM TablesHold ==
  Spec => [](RowsInStep /\ MessageSpentOnce /\ StopNeverLost /\ AuditTrail)
<1>1. TypeInv => RowsInStep /\ MessageSpentOnce /\ StopNeverLost /\ AuditTrail
  BY StopInvImplies DEF TypeInv, StoreInv, StopInv
<1>2. QED
  BY <1>1, TypeInvHolds, PTL

(***************************************************************************)
(* What one step does to a row, to the locals of a tick and to the wire,   *)
(* however many ticks overlap                                              *)
(***************************************************************************)

\* What the locals become, with the function update unfolded.
LEMMA LocalsAfter ==
  ASSUME SendTypeOK, NEW w \in Workers
  PROVE  /\ \A step : Goto(w, step) =>
              /\ job'[w].pc = step /\ job'[w].key = job[w].key
              /\ job'[w].now = job[w].now /\ job'[w].request = job[w].request
              /\ job'[w].enabled = job[w].enabled
              /\ Slot(w)' = Slot(w)
         /\ Return(w) => job'[w].pc = "idle" /\ ~job'[w].enabled
         /\ \A outcome, at : GoRecord(w, outcome, at) =>
              /\ job'[w].pc = "record" /\ job'[w].outcome = outcome
              /\ job'[w].request = job[w].request /\ job'[w].stamp = at
              /\ job'[w].enabled = job[w].enabled
              /\ Slot(w)' = Slot(w)
<1>1. job \in [Workers -> Job] /\ job[w] \in Job
  BY DEF SendTypeOK
<1>2. ASSUME NEW step, Goto(w, step)
      PROVE  /\ job'[w].pc = step /\ job'[w].key = job[w].key
             /\ job'[w].now = job[w].now /\ job'[w].request = job[w].request
             /\ job'[w].enabled = job[w].enabled
             /\ Slot(w)' = Slot(w)
  <2>1. job'[w] = [job[w] EXCEPT !.pc = step]
    BY <1>1, <1>2 DEF Goto
  <2>2. /\ job'[w].pc = step /\ job'[w].key = job[w].key
        /\ job'[w].now = job[w].now /\ job'[w].request = job[w].request
        /\ job'[w].enabled = job[w].enabled
    BY <1>1, <2>1 DEF Job
  <2>3. QED
    BY <2>2 DEF Slot
<1>3. ASSUME Return(w)
      PROVE  job'[w].pc = "idle" /\ ~job'[w].enabled
  BY <1>1, <1>3 DEF Return, Resting, Ticking
<1>4. ASSUME NEW outcome, NEW at, GoRecord(w, outcome, at)
      PROVE  /\ job'[w].pc = "record" /\ job'[w].outcome = outcome
             /\ job'[w].request = job[w].request /\ job'[w].stamp = at
             /\ job'[w].enabled = job[w].enabled
             /\ Slot(w)' = Slot(w)
  <2>1. job'[w] =
          [job[w] EXCEPT !.pc = "record", !.outcome = outcome, !.stamp = at]
    BY <1>1, <1>4 DEF GoRecord
  <2>2. /\ job'[w].pc = "record" /\ job'[w].outcome = outcome
        /\ job'[w].key = job[w].key /\ job'[w].now = job[w].now
        /\ job'[w].request = job[w].request /\ job'[w].stamp = at
        /\ job'[w].enabled = job[w].enabled
    BY <1>1, <2>1 DEF Job
  <2>3. QED
    BY <2>2 DEF Slot
<1>5. QED
  BY <1>2, <1>3, <1>4

\* The tick w records its outcome on the row s.
RecordsOn(w, s) ==
  /\ job[w].pc = "record" /\ Slot(w) = s /\ Return(w)
  /\ <<delivery[s], job[w].outcome>> \in DeliveryTransitions
  /\ delivery'[s] = job[w].outcome
  /\ audio'[s] = audio[s]
  /\ provider'[s] =
       IF job[w].outcome = "sent" THEN job[w].request ELSE provider[s]

RowStep(s) ==
  \/ delivery'[s] = delivery[s] /\ audio'[s] = audio[s]
       /\ provider'[s] = provider[s]
  \/ delivery[s] = "none" /\ delivery'[s] = "reserved"
  \/ delivery[s] = "reserved" /\ delivery'[s] = "audio_ready" /\ audio'[s]
  \/ /\ \E w \in Workers : job[w].pc = "retry" /\ Slot(w) = s
     /\ delivery[s] \in {"reserved", "failed", "delivery_unknown"}
     /\ delivery'[s] = "audio_ready" /\ audio'[s] = audio[s]
  \/ delivery[s] = "audio_ready" /\ delivery'[s] = "sending"
       /\ audio'[s] = audio[s]
  \/ \E w \in Workers : RecordsOn(w, s)

LEMMA NextMovesRows ==
  ASSUME TypeInv, [Next]_vars, NEW s \in Slots
  PROVE  RowStep(s)
<1>1. /\ delivery \in [Slots -> {"none"} \cup DeliveryStates]
      /\ audio \in [Slots -> BOOLEAN] /\ provider \in [Slots -> Nat]
  BY DEF TypeInv, StoreInv, StoreTypeOK
<1>2. ASSUME UNCHANGED <<delivery, audio, provider>>
      PROVE  RowStep(s)
  BY <1>2 DEF RowStep
<1>3. ASSUME NEW w \in Workers, TickStep(w)
      PROVE  RowStep(s)
  <2>1. CASE UNCHANGED storeVars
    BY <1>2, <2>1 DEF storeVars, rowVars
  <2>2. CASE ReserveNextMessage(Slot(w), job[w].now)
    BY <1>1, <2>2 DEF ReserveNextMessage, RowStep
  <2>3. CASE Retry(w) /\ TransitionDelivery(Slot(w), "audio_ready", job[w].now)
    <3>1. delivery[Slot(w)] \in {"reserved", "failed", "delivery_unknown"}
      BY <2>3 DEF TransitionDelivery, CanTransition, DeliveryTransitions
    <3>2. QED
      BY <1>1, <2>3, <3>1
         DEF Retry, TransitionDelivery, MoveBoth, rowVars, RowStep
  <2>4. CASE MarkAudioReady(Slot(w), job[w].now)
    BY <1>1, <2>4 DEF MarkAudioReady, CanMarkAudioReady, MoveBoth, RowStep
  <2>5. CASE TransitionDelivery(Slot(w), "sending", job[w].now)
    BY <1>1, <2>5
       DEF TransitionDelivery, CanTransition, DeliveryTransitions, MoveBoth,
           rowVars, RowStep
  <2>6. CASE RecordOutcome(w) /\ ~UNCHANGED storeVars
    <3>1. RecordDeliveryAttempt(Slot(w), job[w].outcome, job[w].stamp,
            IF job[w].outcome = "sent" THEN job[w].request ELSE 0)
      BY <2>6 DEF RecordOutcome
    <3>2. CASE s = Slot(w)
      <4>1. RecordsOn(w, s)
        BY <1>1, <2>6, <3>1, <3>2
           DEF RecordOutcome, RecordDeliveryAttempt, CanTransition, MoveBoth,
               RecordsOn
      <4>2. QED
        BY <4>1 DEF RowStep
    <3>3. CASE s # Slot(w)
      BY <1>1, <3>1, <3>3 DEF RecordDeliveryAttempt, MoveBoth, RowStep
    <3>4. QED
      BY <3>2, <3>3
  <2>7. QED
    BY <1>3, <2>1, <2>2, <2>3, <2>4, <2>5, <2>6
       DEF TickStep, Poll, ReadControl, Reserve, Lookup, Recover, Retry,
           Produce, Load, Begin, RecordNonce, Post, PostFails, Answered,
           AnswerLost, AnswerUndecodable, Blocked
<1>4. ASSUME \/ \E w \in Workers : (\E k \in Keys : StartTick(w, k)) \/ Crash(w)
             \/ \E i \in 1 .. Len(wire) : TelegramHandles(i)
             \/ \E m \in Messages : Approve(m)
             \/ Outside \/ Advance \/ UNCHANGED vars
      PROVE  RowStep(s)
  <2>1. UNCHANGED <<delivery, audio, provider>>
    BY <1>4
       DEF StartTick, Crash, TelegramHandles, Approve, ApproveMessage, Outside,
           Advance, vars, storeVars, rowVars
  <2>2. QED
    BY <1>2, <2>1
<1>5. QED
  BY <1>3, <1>4 DEF Next

\* A process changes its own locals only.
LEMMA LocalsAreLocal ==
  ASSUME TypeInv, [Next]_vars, NEW v \in Workers
  PROVE  \/ job'[v] = job[v] /\ Slot(v)' = Slot(v)
         \/ TickStep(v)
         \/ \E k \in Keys : StartTick(v, k)
         \/ Crash(v)
<1>1. job'[v] = job[v] => Slot(v)' = Slot(v)
  BY DEF Slot
<1>2. job \in [Workers -> Job]
  BY DEF TypeInv, SendTypeOK
<1>3. ASSUME NEW w \in Workers, w # v,
             TickStep(w) \/ (\E k \in Keys : StartTick(w, k)) \/ Crash(w)
      PROVE  job'[v] = job[v]
  BY <1>2, <1>3
     DEF TickStep, StartTick, Crash, Poll, ReadControl, Reserve, Lookup,
         Recover, Retry, Produce, Load, Begin, RecordNonce, Post, PostFails,
         Answered, AnswerLost, AnswerUndecodable, Blocked, RecordOutcome,
         Goto, Return, GoRecord, sendVars
<1>4. ASSUME \/ \E i \in 1 .. Len(wire) : TelegramHandles(i)
             \/ \E m \in Messages : Approve(m)
             \/ Outside \/ Advance \/ UNCHANGED vars
      PROVE  job'[v] = job[v]
  BY <1>4 DEF TelegramHandles, Approve, Outside, Advance, vars, sendVars
<1>5. QED
  BY <1>1, <1>3, <1>4 DEF Next

(***************************************************************************)
(* The audio of a note, however many ticks overlap                         *)
(***************************************************************************)

\* A tick that is about to retry read FAILED, and no step takes a row back to
\* RESERVED, whatever the other ticks have made of it since.
AudioInv ==
  /\ AudioNeverMissing
  /\ \A w \in Workers :
       job[w].pc = "retry" => delivery[Slot(w)] \notin {"none", "reserved"}

\* Only a look at a FAILED row starts a retry.
LEMMA RetryReadFailed ==
  ASSUME TypeInv, [Next]_vars, NEW v \in Workers, job'[v].pc = "retry"
  PROVE  /\ Slot(v)' = Slot(v)
         /\ job[v].pc = "retry" \/ delivery[Slot(v)] = "failed"
<1> USE LocalsAfter DEF TypeInv
<1>1. CASE job'[v] = job[v]
  BY <1>1 DEF Slot
<1>2. ASSUME NEW k \in Keys, StartTick(v, k)
      PROVE  FALSE
  BY <1>2 DEF StartTick, SendTypeOK, Ticking
<1>3. CASE Crash(v)
  BY <1>3 DEF Crash
<1>4. CASE TickStep(v) /\ job'[v] # job[v]
  <2>1. ~ReadControl(v)
    BY DEF ReadControl, SendTypeOK, Job
  <2>2. ~Post(v)
    <3>1. Post(v) =>
            job'[v] = [job[v] EXCEPT !.pc = "await", !.request = Len(wire) + 1]
      BY DEF Post, SendTypeOK
    <3>2. Post(v) => job'[v].pc = "await"
      BY <3>1, JobTyped DEF Job
    <3>3. QED
      BY <3>2
  <2>3. ~Poll(v)
    BY <1>4 DEF Poll, sendVars
  <2>4. ~(\/ Reserve(v) \/ Recover(v) \/ Retry(v) \/ Produce(v) \/ Load(v)
          \/ Begin(v) \/ RecordNonce(v) \/ PostFails(v) \/ Answered(v)
          \/ AnswerLost(v) \/ AnswerUndecodable(v) \/ Blocked(v)
          \/ RecordOutcome(v))
    BY DEF Reserve, Recover, Retry, Produce, Load, Begin, RecordNonce, PostFails,
           Answered, AnswerLost, AnswerUndecodable, Blocked, RecordOutcome
  <2>5. Lookup(v)
    BY <1>4, <2>1, <2>2, <2>3, <2>4 DEF TickStep
  <2>6. Continuation(delivery[Slot(v)], job[v].enabled) = "retry"
    BY <2>5 DEF Lookup
  <2>7. delivery[Slot(v)] = "failed"
    BY <2>6 DEF Continuation
  <2>8. QED
    BY <2>5, <2>7 DEF Lookup
<1>5. QED
  BY <1>1, <1>2, <1>3, <1>4, LocalsAreLocal

LEMMA NextKeepsAudio ==
  ASSUME TypeInv, AudioInv, [Next]_vars
  PROVE  AudioInv'
<1>1. ASSUME NEW s \in Slots
      PROVE  /\ delivery'[s] \notin {"none", "reserved"} => audio'[s]
             /\ delivery[s] \notin {"none", "reserved"}
                  => delivery'[s] \notin {"none", "reserved"}
  <2>1. RowStep(s) /\ (delivery[s] \notin {"none", "reserved"} => audio[s])
    BY NextMovesRows DEF AudioInv, AudioNeverMissing
  <2>2. CASE \E w \in Workers : RecordsOn(w, s)
    <3>1. PICK w \in Workers : RecordsOn(w, s) /\ job[w].outcome \in AttemptOutcomes
      BY <2>2, JobTyped DEF TypeInv
    <3>2. /\ delivery'[s] \notin {"none", "reserved"}
          /\ delivery[s] \in {"sending", "delivery_unknown"}
      BY <3>1 DEF RecordsOn, DeliveryTransitions, AttemptOutcomes
    <3>3. QED
      BY <2>1, <3>1, <3>2 DEF RecordsOn
  <2>3. CASE /\ \E w \in Workers : job[w].pc = "retry" /\ Slot(w) = s
             /\ delivery'[s] = "audio_ready" /\ audio'[s] = audio[s]
    BY <2>1, <2>3 DEF AudioInv
  <2>4. QED
    BY <2>1, <2>2, <2>3 DEF RowStep
<1>2. ASSUME NEW v \in Workers, job'[v].pc = "retry"
      PROVE  delivery'[Slot(v)'] \notin {"none", "reserved"}
  BY <1>1, <1>2, RetryReadFailed, JobTyped DEF AudioInv, TypeInv
<1>3. QED
  BY <1>1, <1>2 DEF AudioInv, AudioNeverMissing

\* A delivery past RESERVED has its audio until it is sent, whatever retries,
\* crashes and ticks beside it do (produce_voice_note, get_audio_data).
THEOREM AudioSurvives == Spec => []AudioNeverMissing
<1>1. Init => AudioInv
  BY DEF Init, NoDeliveries, AudioInv, AudioNeverMissing, Resting, Ticking
<1>2. TypeInv /\ AudioInv /\ [Next]_vars => AudioInv'
  BY NextKeepsAudio
<1>3. AudioInv => AudioNeverMissing
  BY DEF AudioInv
<1>4. QED
  BY <1>1, <1>2, <1>3, TypeInvHolds, PTL DEF Spec

(***************************************************************************)
(* The requests on the wire                                                *)
(***************************************************************************)

\* Requests stay on the wire as they were sent, and an answer is final.
LEMMA WireIsKept ==
  ASSUME TypeInv, [Next]_vars
  PROVE  /\ Len(wire) \in Nat /\ Len(wire') \in Nat /\ Len(wire) <= Len(wire')
         /\ Len(wire') = Len(wire) \/ \E w \in Workers : Post(w)
         /\ \A i \in 1 .. Len(wire) :
              /\ wire'[i].slot = wire[i].slot /\ wire'[i].stamp = wire[i].stamp
              /\ wire[i].status # "pending" => wire'[i].status = wire[i].status
<1>1. wire \in Seq(Request) /\ Len(wire) \in Nat
  BY DEF TypeInv, SendTypeOK
<1>2. ASSUME UNCHANGED wire
      PROVE  /\ Len(wire') = Len(wire)
             /\ \A i \in 1 .. Len(wire) : wire'[i] = wire[i]
  BY <1>1, <1>2
<1>3. ASSUME NEW w \in Workers, Post(w)
      PROVE  /\ Len(wire') \in Nat /\ Len(wire) <= Len(wire')
             /\ \A i \in 1 .. Len(wire) : wire'[i] = wire[i]
  BY <1>1, <1>3 DEF Post
<1>4. ASSUME NEW i \in 1 .. Len(wire), TelegramHandles(i)
      PROVE  /\ Len(wire') = Len(wire)
             /\ wire[i].status = "pending"
             /\ wire'[i].slot = wire[i].slot /\ wire'[i].stamp = wire[i].stamp
             /\ \A k \in 1 .. Len(wire) : k # i => wire'[k] = wire[k]
  <2>1. PICK status \in RequestStatus :
          wire' = [wire EXCEPT ![i] = [wire[i] EXCEPT !.status = status]]
    BY <1>4 DEF TelegramHandles
  <2>2. wire[i] \in Request
    BY <1>1
  <2>3. /\ [wire[i] EXCEPT !.status = status].slot = wire[i].slot
        /\ [wire[i] EXCEPT !.status = status].stamp = wire[i].stamp
    BY <2>2 DEF Request
  <2>4. QED
    BY <1>1, <1>4, <2>1, <2>3 DEF TelegramHandles
<1>5. ASSUME NEW w \in Workers, TickStep(w), ~Post(w)
      PROVE  UNCHANGED wire
  BY <1>5
     DEF TickStep, Poll, ReadControl, Reserve, Lookup, Recover, Retry,
         Produce, Load, Begin, RecordNonce, PostFails, Answered, AnswerLost,
         AnswerUndecodable, Blocked, RecordOutcome, sendVars
<1>6. ASSUME \/ \E w \in Workers : (\E k \in Keys : StartTick(w, k)) \/ Crash(w)
             \/ \E m \in Messages : Approve(m)
             \/ Outside \/ Advance \/ UNCHANGED vars
      PROVE  UNCHANGED wire
  BY <1>6 DEF StartTick, Crash, Approve, Outside, Advance, vars, sendVars
<1>7. QED
  BY <1>1, <1>2, <1>3, <1>4, <1>5, <1>6 DEF Next

(***************************************************************************)
(* What a SENT row says, however many ticks overlap                        *)
(***************************************************************************)

\* The request the tick awaits is one of its delivery.
Requested(w) ==
  job[w].request \in 1 .. Len(wire) /\ wire[job[w].request].slot = Slot(w)

\* The locals of a tick that is about to record a success are as good as the
\* row will be.
NoteInv ==
  /\ SentNamesANote
  /\ \A w \in Workers :
       /\ job[w].pc = "await" => Requested(w)
       /\ (job[w].pc = "record" /\ job[w].outcome = "sent") =>
            Requested(w) /\ Answer(w) = "accepted"

\* What a tick knows of its request outlives every step that leaves its locals.
LEMMA RequestIsKept ==
  ASSUME TypeInv, [Next]_vars, NEW v \in Workers,
         job'[v].request = job[v].request, Slot(v)' = Slot(v), Requested(v)
  PROVE  /\ Requested(v)'
         /\ Answer(v) = "accepted" => Answer(v)' = "accepted"
BY WireIsKept, JobTyped DEF TypeInv, Requested, Answer

LEMMA StepKeepsRequest ==
  ASSUME TypeInv, NoteInv, [Next]_vars, NEW v \in Workers
  PROVE  /\ job'[v].pc = "await" => Requested(v)'
         /\ (job'[v].pc = "record" /\ job'[v].outcome = "sent") =>
              Requested(v)' /\ Answer(v)' = "accepted"
<1> USE LocalsAfter DEF TypeInv
<1>1. CASE job'[v] = job[v]
  <2>1. Slot(v)' = Slot(v)
    BY <1>1 DEF Slot
  <2>2. QED
    BY <1>1, <2>1, RequestIsKept DEF NoteInv
<1>2. ASSUME NEW k \in Keys, StartTick(v, k)
      PROVE  job'[v].pc = "poll"
  BY <1>2 DEF StartTick, SendTypeOK, Ticking
<1>3. CASE Crash(v)
  BY <1>3 DEF Crash
<1>4. CASE TickStep(v) /\ job'[v] # job[v]
  <2>1. CASE Post(v)
    <3>1. job'[v] = [job[v] EXCEPT !.pc = "await", !.request = Len(wire) + 1]
      BY <2>1 DEF Post, SendTypeOK
    <3>2. /\ job'[v].pc = "await" /\ job'[v].request = Len(wire) + 1
          /\ job'[v].key = job[v].key /\ job'[v].now = job[v].now
      BY <3>1, JobTyped DEF Job
    <3>3. PICK r \in Request :
            r.slot = Slot(v) /\ wire' = Append(wire, r)
      <4>1. [slot |-> Slot(v), stamp |-> job[v].now, status |-> "pending"]
              \in Request
        BY JobTyped DEF Request, RequestStatus
      <4>2. QED
        BY <2>1, <4>1 DEF Post
    <3>4. /\ Len(wire) \in Nat /\ Len(wire') = Len(wire) + 1
          /\ wire'[Len(wire) + 1] = r
      BY <3>3 DEF SendTypeOK
    <3>5. Slot(v)' = Slot(v)
      BY <3>2 DEF Slot
    <3>6. QED
      BY <3>2, <3>3, <3>4, <3>5 DEF Requested
  <2>2. CASE Answered(v)
    <3>1. Requested(v)
      BY <2>2 DEF Answered, NoteInv
    <3>2. /\ job'[v].pc \in {"record", "block"}
          /\ (job'[v].pc = "record" /\ job'[v].outcome = "sent")
               => Answer(v) = "accepted"
          /\ job'[v].request = job[v].request /\ Slot(v)' = Slot(v)
      BY <2>2 DEF Answered
    <3>3. QED
      BY <3>1, <3>2, RequestIsKept
  <2>3. CASE ReadControl(v)
    <3>1. job'[v].pc \in {"reserve", "lookup"}
      BY <2>3 DEF ReadControl, SendTypeOK, Job
    <3>2. QED
      BY <3>1
  <2>4. CASE Lookup(v)
    BY <2>4, ContinuationTyped DEF Lookup
  <2>5. CASE \/ Recover(v) \/ RecordNonce(v) \/ PostFails(v) \/ AnswerLost(v)
             \/ Blocked(v)
    <3>1. \/ job'[v].pc = "post"
          \/ job'[v].pc = "record" /\ job'[v].outcome # "sent"
      BY <2>5 DEF Recover, RecordNonce, PostFails, AnswerLost, Blocked
    <3>2. QED
      BY <3>1
  <2>6. CASE \/ Reserve(v) \/ Retry(v) \/ Produce(v) \/ Load(v) \/ Begin(v)
             \/ AnswerUndecodable(v) \/ RecordOutcome(v)
    BY <2>6 DEF Reserve, Retry, Produce, Load, Begin, AnswerUndecodable,
                RecordOutcome
  <2>7. ~Poll(v)
    BY <1>4 DEF Poll, sendVars
  <2>8. QED
    BY <1>4, <2>1, <2>2, <2>3, <2>4, <2>5, <2>6, <2>7 DEF TickStep
<1>5. QED
  BY <1>1, <1>2, <1>3, <1>4, LocalsAreLocal

LEMMA NextKeepsNotes ==
  ASSUME TypeInv, NoteInv, [Next]_vars
  PROVE  NoteInv'
<1>1. ASSUME NEW s \in Slots, delivery'[s] = "sent"
      PROVE  /\ provider'[s] \in 1 .. Len(wire')
             /\ wire'[provider'[s]].slot = s
             /\ wire'[provider'[s]].status = "accepted"
  <2>1. RowStep(s)
    BY NextMovesRows
  <2>2. /\ provider'[s] \in 1 .. Len(wire)
        /\ wire[provider'[s]].slot = s
        /\ wire[provider'[s]].status = "accepted"
    <3>1. CASE delivery[s] = "sent" /\ provider'[s] = provider[s]
      BY <3>1 DEF NoteInv, SentNamesANote
    <3>2. ASSUME NEW w \in Workers, RecordsOn(w, s)
          PROVE  /\ job[w].pc = "record" /\ job[w].outcome = "sent"
                 /\ Slot(w) = s /\ provider'[s] = job[w].request
      BY <1>1, <3>2 DEF RecordsOn
    <3>3. QED
      BY <1>1, <2>1, <3>1, <3>2 DEF RowStep, NoteInv, Requested, Answer
  <2>3. QED
    BY <2>2, WireIsKept
<1>2. QED
  BY <1>1, StepKeepsRequest DEF NoteInv, SentNamesANote

LEMMA NotesHold == Spec => []NoteInv
<1>1. Init => NoteInv
  BY DEF Init, NoDeliveries, NoteInv, SentNamesANote, Resting, Ticking
<1>2. TypeInv /\ NoteInv /\ [Next]_vars => NoteInv'
  BY NextKeepsNotes
<1>3. QED
  BY <1>1, <1>2, TypeInvHolds, PTL DEF Spec

\* A row that is SENT names, as its provider id, a note that Telegram accepted
\* for this delivery, however many ticks overlap (record_delivery_attempt after
\* send_voice_note).
THEOREM SentIsTrue == Spec => []SentNamesANote
<1>1. NoteInv => SentNamesANote
  BY DEF NoteInv
<1>2. QED
  BY <1>1, NotesHold, PTL

(***************************************************************************)
(* The replay guard, however many ticks overlap                            *)
(***************************************************************************)

Pair(w) == <<Slot(w), job[w].now>>

\* A tick that may post holds a pair that was recorded, that is on no request
\* and that no other tick holds.
Cleared(w) ==
  /\ Pair(w) \in nonces
  /\ \A i \in 1 .. Len(wire) : <<wire[i].slot, wire[i].stamp>> # Pair(w)
  /\ \A v \in Workers : (job[v].pc = "post" /\ Pair(v) = Pair(w)) => v = w

ReplayInv ==
  /\ NoReplay
  /\ \A i \in 1 .. Len(wire) : <<wire[i].slot, wire[i].stamp>> \in nonces
  /\ \A w \in Workers : job[w].pc = "post" => Cleared(w)

\* Only record_sender_nonce leads to the POST.
LEMMA PostHasNonce ==
  ASSUME TypeInv, [Next]_vars, NEW v \in Workers, job'[v].pc = "post"
  PROVE  Pair(v)' = Pair(v) /\ (job[v].pc = "post" \/ RecordNonce(v))
<1> USE LocalsAfter DEF TypeInv
<1>1. CASE job'[v] = job[v]
  BY <1>1 DEF Slot, Pair
<1>2. ASSUME NEW k \in Keys, StartTick(v, k)
      PROVE  FALSE
  BY <1>2 DEF StartTick, SendTypeOK, Ticking
<1>3. CASE Crash(v)
  BY <1>3 DEF Crash
<1>4. CASE TickStep(v) /\ job'[v] # job[v]
  <2>1. ~ReadControl(v)
    BY DEF ReadControl, SendTypeOK, Job
  <2>2. ~Post(v)
    <3>1. Post(v) =>
            job'[v] = [job[v] EXCEPT !.pc = "await", !.request = Len(wire) + 1]
      BY DEF Post, SendTypeOK
    <3>2. Post(v) => job'[v].pc = "await"
      BY <3>1, JobTyped DEF Job
    <3>3. QED
      BY <3>2
  <2>3. ~Poll(v)
    BY <1>4 DEF Poll, sendVars
  <2>4. ~Lookup(v)
    BY ContinuationTyped DEF Lookup
  <2>5. ~(\/ Reserve(v) \/ Recover(v) \/ Retry(v) \/ Produce(v) \/ Load(v)
          \/ Begin(v) \/ PostFails(v) \/ Answered(v) \/ AnswerLost(v)
          \/ AnswerUndecodable(v) \/ Blocked(v) \/ RecordOutcome(v))
    BY DEF Reserve, Recover, Retry, Produce, Load, Begin, PostFails,
           Answered, AnswerLost, AnswerUndecodable, Blocked, RecordOutcome
  <2>6. RecordNonce(v)
    BY <1>4, <2>1, <2>2, <2>3, <2>4, <2>5 DEF TickStep
  <2>7. Goto(v, "post")
    BY <2>6 DEF RecordNonce
  <2>8. QED
    BY <2>6, <2>7 DEF Pair
<1>5. QED
  BY <1>1, <1>2, <1>3, <1>4, LocalsAreLocal

LEMMA PostKeepsReplay ==
  ASSUME TypeInv, ReplayInv, NEW w \in Workers, Post(w)
  PROVE  ReplayInv'
<1> DEFINE r == [slot |-> Slot(w), stamp |-> job[w].now, status |-> "pending"]
<1>1. /\ r \in Request /\ wire' = Append(wire, r) /\ wire \in Seq(Request)
      /\ r.slot = Slot(w) /\ r.stamp = job[w].now
      /\ UNCHANGED nonces
  BY JobTyped DEF Post, TypeInv, SendTypeOK, Request, RequestStatus
<1> HIDE DEF r
<1>2. /\ Len(wire) \in Nat /\ Len(wire') = Len(wire) + 1
      /\ wire'[Len(wire) + 1] = r
      /\ \A i \in 1 .. Len(wire) : wire'[i] = wire[i]
  BY <1>1
<1>3. Cleared(w)
  BY DEF Post, ReplayInv
<1>4. \A i \in 1 .. Len(wire) : wire[i].slot # r.slot \/ wire[i].stamp # r.stamp
  <2>1. Pair(w) = <<r.slot, r.stamp>>
    BY <1>1 DEF Pair
  <2>2. \A i \in 1 .. Len(wire) : <<wire[i].slot, wire[i].stamp>> # Pair(w)
    BY <1>3 DEF Cleared
  <2>3. QED
    BY <2>1, <2>2
<1>5. NoReplay'
  <2>1. ASSUME NEW i \in 1 .. Len(wire'), NEW j \in 1 .. Len(wire'), i # j
        PROVE  wire'[i].slot # wire'[j].slot \/ wire'[i].stamp # wire'[j].stamp
    <3>1. CASE i \in 1 .. Len(wire) /\ j \in 1 .. Len(wire)
      BY <1>2, <2>1, <3>1 DEF ReplayInv, NoReplay
    <3>2. CASE i = Len(wire) + 1 \/ j = Len(wire) + 1
      BY <1>2, <1>4, <2>1, <3>2
    <3>3. QED
      BY <1>2, <3>1, <3>2
  <2>2. QED
    BY <2>1 DEF NoReplay
<1>6. \A i \in 1 .. Len(wire') : <<wire'[i].slot, wire'[i].stamp>> \in nonces'
  <2>1. <<r.slot, r.stamp>> \in nonces
    BY <1>1, <1>3 DEF Cleared, Pair
  <2>2. \A i \in 1 .. Len(wire) : <<wire[i].slot, wire[i].stamp>> \in nonces
    BY DEF ReplayInv
  <2>3. QED
    BY <1>1, <1>2, <2>1, <2>2
<1>7. ASSUME NEW v \in Workers, job'[v].pc = "post"
      PROVE  job[v].pc = "post" /\ v # w /\ Pair(v)' = Pair(v)
  <2>1. job'[w] = [job[w] EXCEPT !.pc = "await", !.request = Len(wire) + 1]
    BY DEF Post, TypeInv, SendTypeOK
  <2>2. job'[w].pc = "await"
    BY <2>1, JobTyped DEF TypeInv, Job
  <2>3. job'[v] = job[v]
    BY <1>7, <2>2 DEF Post, TypeInv, SendTypeOK
  <2>4. QED
    BY <1>7, <2>2, <2>3 DEF Pair, Slot
<1>8. ASSUME NEW v \in Workers, job'[v].pc = "post"
      PROVE  Cleared(v)'
  <2>1. /\ Cleared(v) /\ v # w /\ Pair(v)' = Pair(v)
        /\ job[w].pc = "post"
    BY <1>7, <1>8 DEF ReplayInv, Post
  <2>2. Pair(w) # Pair(v) /\ Pair(w) = <<r.slot, r.stamp>>
    BY <1>1, <2>1 DEF Cleared, Pair
  <2>3. \A i \in 1 .. Len(wire') :
          <<wire'[i].slot, wire'[i].stamp>> # Pair(v)'
    BY <1>2, <2>1, <2>2 DEF Cleared
  <2>4. \A u \in Workers : (job'[u].pc = "post" /\ Pair(u)' = Pair(v)') => u = v
    BY <1>7, <2>1 DEF Cleared
  <2>5. QED
    BY <1>1, <2>1, <2>3, <2>4 DEF Cleared
<1>9. QED
  BY <1>5, <1>6, <1>8 DEF ReplayInv

\* The insert of the pair fails when it is there already, so what the tick then
\* holds is on no request and with no other tick.
LEMMA NonceKeepsReplay ==
  ASSUME TypeInv, ReplayInv, NEW w \in Workers, RecordNonce(w)
  PROVE  ReplayInv'
<1>1. UNCHANGED wire /\ nonces' = nonces \cup {Pair(w)}
  BY DEF RecordNonce, Pair
<1>2. \A v \in Workers : v # w => job'[v] = job[v] /\ Pair(v)' = Pair(v)
  BY DEF RecordNonce, Goto, GoRecord, TypeInv, SendTypeOK, Pair, Slot
<1>3. ASSUME job'[w].pc = "post"
      PROVE  Pair(w) \notin nonces /\ Pair(w)' = Pair(w)
  BY <1>3, LocalsAfter DEF RecordNonce, Pair, TypeInv
<1>4. NoReplay' /\ \A i \in 1 .. Len(wire') :
                      <<wire'[i].slot, wire'[i].stamp>> \in nonces'
  BY <1>1 DEF ReplayInv, NoReplay
<1>5. \A v \in Workers : (v # w /\ job'[v].pc = "post") => Cleared(v)
  BY <1>2 DEF ReplayInv
<1>6. ASSUME NEW v \in Workers, job'[v].pc = "post"
      PROVE  Cleared(v)'
  <2>1. CASE v = w
    <3>1. \A u \in Workers :
            (job'[u].pc = "post" /\ u # w) => Pair(u)' # Pair(w)'
      BY <1>2, <1>3, <1>5, <1>6, <2>1 DEF Cleared
    <3>2. \A i \in 1 .. Len(wire') :
            <<wire'[i].slot, wire'[i].stamp>> # Pair(w)'
      BY <1>1, <1>3, <1>6, <2>1 DEF ReplayInv
    <3>3. QED
      BY <1>1, <1>3, <1>6, <2>1, <3>1, <3>2 DEF Cleared
  <2>2. CASE v # w
    <3>1. Cleared(v) /\ Pair(v)' = Pair(v)
      BY <1>2, <1>5, <1>6, <2>2
    <3>2. job'[w].pc = "post" => Pair(w)' # Pair(v)'
      BY <1>3, <3>1 DEF Cleared
    <3>3. \A u \in Workers :
            (job'[u].pc = "post" /\ Pair(u)' = Pair(v)') => u = v
      BY <1>2, <3>1, <3>2 DEF Cleared
    <3>4. QED
      BY <1>1, <3>1, <3>3 DEF Cleared
  <2>3. QED
    BY <2>1, <2>2
<1>7. QED
  BY <1>4, <1>6 DEF ReplayInv

LEMMA OtherStepKeepsReplay ==
  ASSUME TypeInv, ReplayInv, [Next]_vars,
         \A w \in Workers : ~Post(w) /\ ~RecordNonce(w)
  PROVE  ReplayInv'
<1>1. UNCHANGED nonces
  BY DEF Next, TickStep, StartTick, Crash, TelegramHandles, Approve, Outside,
         Advance, vars, Poll, ReadControl, Reserve, Lookup, Recover, Retry,
         Produce, Load, Begin, PostFails, Answered, AnswerLost,
         AnswerUndecodable, Blocked, RecordOutcome, sendVars
<1>2. /\ Len(wire') = Len(wire)
      /\ \A i \in 1 .. Len(wire) :
           wire'[i].slot = wire[i].slot /\ wire'[i].stamp = wire[i].stamp
  BY WireIsKept
<1>3. \A v \in Workers :
        job'[v].pc = "post" => job[v].pc = "post" /\ Pair(v)' = Pair(v)
  BY PostHasNonce
<1>4. \A v \in Workers : job'[v].pc = "post" => Cleared(v)'
  BY <1>1, <1>2, <1>3 DEF ReplayInv, Cleared
<1>5. QED
  BY <1>1, <1>2, <1>4 DEF ReplayInv, NoReplay

\* No request leaves twice under one idempotency key and timestamp, whatever
\* ticks of one instant, crashes and retries do (record_sender_nonce).
THEOREM NothingIsReplayed == Spec => []NoReplay
<1>1. Init => ReplayInv
  BY DEF Init, ReplayInv, NoReplay, Resting, Ticking
<1>2. TypeInv /\ ReplayInv /\ [Next]_vars => ReplayInv'
  BY PostKeepsReplay, NonceKeepsReplay, OtherStepKeepsReplay
<1>3. ReplayInv => NoReplay
  BY DEF ReplayInv
<1>4. QED
  BY <1>1, <1>2, <1>3, TypeInvHolds, PTL DEF Spec
=============================================================================
