------------------------------ MODULE DailySend ------------------------------
(***************************************************************************)
(* One tick of the daily send (daily_send_entrypoint.py, delivery.py and   *)
(* sender.py) over the delivery tables and the inbound poll.               *)
(*                                                                         *)
(* The scheduler starts scripts/run_daily_entrypoint.py every minute.  A   *)
(* tick captures `now` once, polls for a STOP, and then advances today's   *)
(* delivery as far as it can: reserve, produce the audio, mark it SENDING, *)
(* record the request nonce, POST it and record the outcome.  Every        *)
(* database call commits on its own and the HTTP request is awaited, so    *)
(* the process may die, and others may act, between any two steps.         *)
(*                                                                         *)
(* Telegram is external: `wire` is every sendVoice request that left a     *)
(* worker.  A request may be handled long after the worker gave up on it.  *)
(***************************************************************************)
EXTENDS DeliveryStore, InboundStop

CONSTANTS
  EnrolledKey,        \* recipient_key_for_chat_id(settings.telegram_chat_id)
  PacificDate,        \* the Pacific date of each instant
  SendWindow,         \* the instants at which DAILY_SEND is DUE
  UndecodableAnswers, \* whether an answer's body may fail to decode
  MaxCrashes          \* bound: processes that die

ASSUME SendAssumption ==
  /\ EnrolledKey \in Keys
  /\ PacificDate \in [Instants -> Days]
  /\ SendWindow \subseteq Instants
  /\ 0 \in Instants
  /\ UndecodableAnswers \in BOOLEAN
  /\ MaxCrashes \in Nat

VARIABLES
  clock,    \* the present instant
  ticked,   \* workers whose tick of this instant was started
  job,      \* the local variables of each worker's tick
  nonces,   \* sender_auth_nonces: (idempotency key, timestamp) pairs
  wire,     \* sendVoice requests in the order they were sent
  crashes   \* how many processes died

sendVars == <<clock, ticked, job, nonces, wire, crashes>>
vars == <<storeVars, stopVars, sendVars>>

RequestStatus == {"pending", "accepted", "refused", "blocked"}

Request == [slot : Slots, stamp : Instants, status : RequestStatus]

TickSteps ==
  {"idle", "poll", "reserve", "lookup", "recover", "retry", "produce", "load",
   "begin", "nonce", "post", "await", "block", "record"}

Job == [pc : TickSteps, now : Instants, key : Keys, enabled : BOOLEAN,
        outcome : AttemptOutcomes, stamp : Nat, request : Nat]

\* The locals of a tick that has just captured `now` and its arguments.
Ticking(step, now, key) ==
  [pc |-> step, now |-> now, key |-> key, enabled |-> FALSE,
   outcome |-> "failed", stamp |-> now, request |-> 0]

Resting == Ticking("idle", 0, EnrolledKey)

\* The queue starts with candidates that wait for approval.
Init ==
  /\ message = [m \in Messages |-> "validated"]
  /\ NoDeliveries
  /\ InboundInit
  /\ clock = 0
  /\ ticked = {}
  /\ job = [w \in Workers |-> Resting]
  /\ nonces = {}
  /\ wire = <<>>
  /\ crashes = 0

\* The delivery a tick works on: its recipient and the date it started on.
Slot(w) == <<job[w].key, PacificDate[job[w].now]>>

Goto(w, step) == job' = [job EXCEPT ![w].pc = step]

\* The tick returns or raises: the process exits, its locals are gone.
Return(w) == job' = [job EXCEPT ![w] = Resting]

\* On to record_delivery_attempt with this outcome and attempted_at.
GoRecord(w, outcome, at) ==
  job' = [job EXCEPT ![w] =
            [@ EXCEPT !.pc = "record", !.outcome = outcome, !.stamp = at]]

(***************************************************************************)
(* run_daily_entrypoint                                                    *)
(***************************************************************************)

\* classify_trigger: DAILY_SEND is DUE from its scheduled time to its cutoff.
Due(now) == now \in SendWindow

\* A tick starts and is inside the window at its `now`; outside it would
\* touch nothing.  Any caller's recipient_key is allowed.  The scheduler
\* starts at most one tick per worker and instant.
StartTick(w, k) ==
  /\ job[w].pc = "idle"
  /\ w \notin ticked
  /\ Due(clock)
  /\ ticked' = ticked \cup {w}
  /\ job' = [job EXCEPT ![w] = Ticking("poll", clock, k)]
  /\ BeginPoll(w)
  /\ UNCHANGED <<storeVars, clock, nonces, wire, crashes>>

\* poll_inbound_stop; a TelegramPollError is swallowed.
Poll(w) ==
  /\ job[w].pc = "poll"
  /\ PollStep(w)
  /\ UNCHANGED <<storeVars, sendVars>>

(***************************************************************************)
(* run_daily_send                                                          *)
(***************************************************************************)

\* The poll is over; is_sending_enabled is read, once.
ReadControl(w) ==
  /\ job[w].pc = "poll"
  /\ poll[w].pc = "idle"
  /\ job' = [job EXCEPT ![w].enabled = SendingEnabled,
                        ![w].pc = IF SendingEnabled THEN "reserve" ELSE "lookup"]
  /\ UNCHANGED <<storeVars, stopVars, clock, ticked, nonces, wire, crashes>>

Reserve(w) ==
  /\ job[w].pc = "reserve"
  /\ \/ ReserveNextMessage(Slot(w), job[w].now) /\ Goto(w, "produce")
     \/ ~CanReserve(Slot(w)) /\ Goto(w, "lookup") /\ UNCHANGED storeVars
  /\ UNCHANGED <<stopVars, clock, ticked, nonces, wire, crashes>>

\* Fault: an ambiguous attempt is retried like a failed one.
FaultRetryUnknown(state, enabled) ==
  CASE state = "sending" -> "recover"
    [] enabled /\ state \in {"failed", "delivery_unknown"} -> "retry"
    [] enabled /\ state = "reserved" -> "produce"
    [] enabled /\ state = "audio_ready" -> "load"
    [] OTHER -> "idle"

\* Fault: prepared audio is sent whatever the control says.
FaultResumeDisabled(state, enabled) ==
  CASE state = "sending" -> "recover"
    [] enabled /\ state = "failed" -> "retry"
    [] enabled /\ state = "reserved" -> "produce"
    [] state = "audio_ready" -> "load"
    [] OTHER -> "idle"

\* Where a tick that holds no fresh reservation goes on, by the state it
\* reads: a SENDING row is an interrupted attempt, whatever the control says.
Continuation(state, enabled) ==
  CASE state = "sending" -> "recover"
    [] enabled /\ state = "failed" -> "retry"
    [] enabled /\ state = "reserved" -> "produce"
    [] enabled /\ state = "audio_ready" -> "load"
    [] OTHER -> "idle"

Lookup(w) ==
  /\ job[w].pc = "lookup"
  /\ LET step == Continuation(delivery[Slot(w)], job[w].enabled) IN
       IF step = "idle" THEN Return(w) ELSE Goto(w, step)
  /\ UNCHANGED <<storeVars, stopVars, clock, ticked, nonces, wire, crashes>>

\* Fault: the recovered attempt is stamped with the recovering tick's time.
FaultRecoverAtNow(w) ==
  /\ job[w].pc = "recover"
  /\ GoRecord(w, "delivery_unknown", job[w].now)
  /\ UNCHANGED <<storeVars, stopVars, clock, ticked, nonces, wire, crashes>>

\* Fault: the recovered outcome is not one of the table's.
FaultRecoverInterrupted(w) ==
  /\ job[w].pc = "recover"
  /\ GoRecord(w, "interrupted", updatedAt[Slot(w)])
  /\ UNCHANGED <<storeVars, stopVars, clock, ticked, nonces, wire, crashes>>

\* get_delivery_updated_at: when the interrupted attempt entered SENDING.
Recover(w) ==
  /\ job[w].pc = "recover"
  /\ GoRecord(w, "delivery_unknown", updatedAt[Slot(w)])
  /\ UNCHANGED <<storeVars, stopVars, clock, ticked, nonces, wire, crashes>>

Retry(w) ==
  /\ job[w].pc = "retry"
  /\ \/ /\ TransitionDelivery(Slot(w), "audio_ready", job[w].now)
        /\ Goto(w, "load")
     \/ /\ ~CanTransition(Slot(w), "audio_ready")
        /\ Return(w)
        /\ UNCHANGED storeVars
  /\ UNCHANGED <<stopVars, clock, ticked, nonces, wire, crashes>>

\* Fault: the state moves on without the bytes.
FaultProduceNoBytes(w) ==
  /\ job[w].pc = "produce"
  /\ \/ TransitionDelivery(Slot(w), "audio_ready", job[w].now) /\ Goto(w, "load")
     \/ Return(w) /\ UNCHANGED storeVars
  /\ UNCHANGED <<stopVars, clock, ticked, nonces, wire, crashes>>

\* produce_voice_note ends in mark_audio_ready; synthesis or conversion that
\* fails raises before it and leaves the delivery RESERVED.
Produce(w) ==
  /\ job[w].pc = "produce"
  /\ \/ MarkAudioReady(Slot(w), job[w].now) /\ Goto(w, "load")
     \/ Return(w) /\ UNCHANGED storeVars
  /\ UNCHANGED <<stopVars, clock, ticked, nonces, wire, crashes>>

\* Fault: the recipient key is not checked.
FaultAnyRecipient(w) == audio[Slot(w)]

\* The recipient check and get_audio_data; both raise.
MayLoad(w) == job[w].key = EnrolledKey /\ audio[Slot(w)]

Load(w) ==
  /\ job[w].pc = "load"
  /\ IF MayLoad(w) THEN Goto(w, "begin") ELSE Return(w)
  /\ UNCHANGED <<storeVars, stopVars, clock, ticked, nonces, wire, crashes>>

Begin(w) ==
  /\ job[w].pc = "begin"
  /\ \/ /\ TransitionDelivery(Slot(w), "sending", job[w].now)
        /\ Goto(w, "nonce")
     \/ /\ ~CanTransition(Slot(w), "sending")
        /\ Return(w)
        /\ UNCHANGED storeVars
  /\ UNCHANGED <<stopVars, clock, ticked, nonces, wire, crashes>>

(***************************************************************************)
(* send_voice_note                                                         *)
(***************************************************************************)

\* Fault: a nonce that is already there is no obstacle.
FaultNonceIgnored(w) ==
  /\ job[w].pc = "nonce"
  /\ Goto(w, "post")
  /\ nonces' = nonces \cup {<<Slot(w), job[w].now>>}
  /\ UNCHANGED <<storeVars, stopVars, clock, ticked, wire, crashes>>

\* record_sender_nonce; a pair that is already there is a SenderRejected.
RecordNonce(w) ==
  LET pair == <<Slot(w), job[w].now>> IN
  /\ job[w].pc = "nonce"
  /\ \/ pair \notin nonces /\ Goto(w, "post")
     \/ pair \in nonces /\ GoRecord(w, "failed", job[w].now)
  /\ nonces' = nonces \cup {pair}
  /\ UNCHANGED <<storeVars, stopVars, clock, ticked, wire, crashes>>

\* The request leaves the worker.
Post(w) ==
  /\ job[w].pc = "post"
  /\ wire' = Append(wire, [slot |-> Slot(w), stamp |-> job[w].now,
                           status |-> "pending"])
  /\ job' = [job EXCEPT ![w] =
               [@ EXCEPT !.pc = "await", !.request = Len(wire) + 1]]
  /\ UNCHANGED <<storeVars, stopVars, clock, ticked, nonces, crashes>>

\* No request leaves: validate_audio refuses the bytes (SenderRejected), or
\* the connection fails at once (ClientError, so SenderAmbiguous).
PostFails(w) ==
  /\ job[w].pc = "post"
  /\ \E outcome \in {"failed", "delivery_unknown"} :
       GoRecord(w, outcome, job[w].now)
  /\ UNCHANGED <<storeVars, stopVars, clock, ticked, nonces, wire, crashes>>

Answer(w) == wire[job[w].request].status

\* A complete answer.  403 "blocked by the user" disables sending first.
Answered(w) ==
  /\ job[w].pc = "await"
  /\ \/ Answer(w) = "accepted" /\ GoRecord(w, "sent", job[w].now)
     \/ Answer(w) = "refused" /\ GoRecord(w, "failed", job[w].now)
     \/ Answer(w) = "blocked" /\ Goto(w, "block")
  /\ UNCHANGED <<storeVars, stopVars, clock, ticked, nonces, wire, crashes>>

\* Fault: no answer counts as a failure.
FaultLostIsFailed(w) ==
  /\ job[w].pc = "await"
  /\ GoRecord(w, "failed", job[w].now)
  /\ UNCHANGED <<storeVars, stopVars, clock, ticked, nonces, wire, crashes>>

\* Fault: no answer counts as a success.
FaultLostIsSent(w) ==
  /\ job[w].pc = "await"
  /\ GoRecord(w, "sent", job[w].now)
  /\ UNCHANGED <<storeVars, stopVars, clock, ticked, nonces, wire, crashes>>

\* Fault: nobody catches the SenderAmbiguous.
FaultLostIsRaised(w) ==
  /\ job[w].pc = "await"
  /\ Return(w)
  /\ UNCHANGED <<storeVars, stopVars, clock, ticked, nonces, wire, crashes>>

\* Timeout, lost connection, an unrecognised status, or a 200 whose body is
\* oversize or malformed: SenderAmbiguous, whatever Telegram did or will do.
AnswerLost(w) ==
  /\ job[w].pc = "await"
  /\ GoRecord(w, "delivery_unknown", job[w].now)
  /\ UNCHANGED <<storeVars, stopVars, clock, ticked, nonces, wire, crashes>>

\* The body of a definite answer is not text: json.loads raises a
\* UnicodeDecodeError that neither send_voice_note nor _describe_rejection
\* catches, and the tick dies with it.
AnswerUndecodable(w) ==
  /\ UndecodableAnswers
  /\ job[w].pc = "await"
  /\ Answer(w) # "pending"
  /\ Return(w)
  /\ UNCHANGED <<storeVars, stopVars, clock, ticked, nonces, wire, crashes>>

\* Telegram handles a request, sooner or later or never.
TelegramHandles(i) ==
  /\ wire[i].status = "pending"
  /\ \E status \in RequestStatus \ {"pending"} :
       wire' = [wire EXCEPT ![i] = [@ EXCEPT !.status = status]]
  /\ UNCHANGED <<storeVars, stopVars, clock, ticked, job, nonces, crashes>>

(***************************************************************************)
(* The end of run_daily_send                                               *)
(***************************************************************************)

Blocked(w) ==
  /\ job[w].pc = "block"
  /\ DisableSending("blocked_by_user")
  /\ GoRecord(w, "failed", job[w].now)
  /\ UNCHANGED <<storeVars, inboundVars, clock, ticked, nonces, wire, crashes>>

\* The provider's message id is known only for a SENT outcome.
RecordOutcome(w) ==
  LET outcome == job[w].outcome IN
  /\ job[w].pc = "record"
  /\ \/ RecordDeliveryAttempt(Slot(w), outcome, job[w].stamp,
          IF outcome = "sent" THEN job[w].request ELSE 0)
     \/ ~CanTransition(Slot(w), outcome) /\ UNCHANGED storeVars
  /\ Return(w)
  /\ UNCHANGED <<stopVars, clock, ticked, nonces, wire, crashes>>

(***************************************************************************)
(* The world                                                               *)
(***************************************************************************)

\* The process dies; what it sent and what it committed stays.
Crash(w) ==
  /\ crashes < MaxCrashes
  /\ job[w].pc # "idle"
  /\ crashes' = crashes + 1
  /\ Return(w)
  /\ AbandonPoll(w)
  /\ UNCHANGED <<storeVars, controlVars, inbox, forgotten, offset, historyVars,
                 clock, ticked, nonces, wire>>

\* Time passes, under running ticks too.
Advance ==
  /\ clock + 1 \in Instants
  /\ clock' = clock + 1
  /\ ticked' = {}
  /\ UNCHANGED <<storeVars, stopVars, job, nonces, wire, crashes>>

\* The safety review approves a candidate.
Approve(m) == ApproveMessage(m) /\ UNCHANGED <<stopVars, sendVars>>

Outside == People /\ UNCHANGED <<storeVars, sendVars>>

\* The statements of a tick after it started; a process runs them in order.
TickStep(w) ==
  \/ Poll(w) \/ ReadControl(w) \/ Reserve(w) \/ Lookup(w) \/ Recover(w)
  \/ Retry(w) \/ Produce(w) \/ Load(w) \/ Begin(w)
  \/ RecordNonce(w) \/ Post(w) \/ PostFails(w)
  \/ Answered(w) \/ AnswerLost(w) \/ AnswerUndecodable(w)
  \/ Blocked(w) \/ RecordOutcome(w)

Next ==
  \/ \E w \in Workers : (\E k \in Keys : StartTick(w, k)) \/ TickStep(w) \/ Crash(w)
  \/ \E i \in 1 .. Len(wire) : TelegramHandles(i)
  \/ \E m \in Messages : Approve(m)
  \/ Outside
  \/ Advance

Spec == Init /\ [][Next]_vars

\* A running process keeps running: every await ends, at the latest with the
\* client's total timeout.
FairSpec == Spec /\ \A w \in Workers : WF_vars(TickStep(w))

(***************************************************************************)
(* Properties that hold however many ticks overlap                         *)
(***************************************************************************)

\* The shape of every variable of the composition.
TypeOK ==
  /\ StoreTypeOK
  /\ InboundTypeOK
  /\ clock \in Instants
  /\ ticked \subseteq Workers
  /\ job \in [Workers -> Job]
  /\ nonces \subseteq Slots \X Instants
  /\ wire \in Seq(Request)
  /\ crashes \in 0 .. MaxCrashes

\* The audio of a note survives until the note is sent: a delivery past
\* RESERVED never lacks it, so a retry or a resumed tick never finds the NULL
\* that get_audio_data raises on and never has to synthesise again
\* (mark_audio_ready stores the bytes and the state together).
AudioNeverMissing ==
  \A s \in Slots : delivery[s] \notin {"none", "reserved"} => audio[s]

\* No request leaves twice under one idempotency key and timestamp, whatever
\* crashes, retries and overlapping ticks of one instant do.
NoReplay ==
  \A i, j \in 1 .. Len(wire) :
    (wire[i].slot = wire[j].slot /\ wire[i].stamp = wire[j].stamp) => i = j

\* A delivery recorded SENT names, as its provider message id, a note that
\* Telegram accepted for this very delivery.
SentNamesANote ==
  \A s \in Slots :
    delivery[s] = "sent" =>
      /\ provider[s] \in 1 .. Len(wire)
      /\ wire[provider[s]].slot = s
      /\ wire[provider[s]].status = "accepted"

(***************************************************************************)
(* Properties that need ticks not to overlap, or ambiguous deliveries to   *)
(* stay what they are                                                      *)
(***************************************************************************)

UnknownStays ==
  \A s \in Slots :
    delivery[s] = "delivery_unknown" =>
      delivery'[s] \in {"delivery_unknown", "sent"}

\* The overlapping ticks among which no stale one retries an ambiguous
\* delivery: the daily send as its documents describe it.
DocumentedSpec == Init /\ [][Next /\ UnknownStays]_vars

\* Requests of a slot that were delivered or still may be.
Live(s) ==
  {i \in 1 .. Len(wire) :
     wire[i].slot = s /\ wire[i].status \in {"pending", "accepted"}}

\* The recipient gets at most one voice note per Pacific date, over all the
\* recipient keys callers may pass: the destination chat is always the
\* enrolled one (delivery.py run_daily_send, sender.py send_voice_note).
AtMostOneNote ==
  \A i, j \in 1 .. Len(wire) :
    /\ wire[i].status = "accepted"
    /\ wire[j].status = "accepted"
    /\ wire[i].slot[2] = wire[j].slot[2]
    => i = j

\* A step that sends a request.
Sends == Len(wire') > Len(wire)

\* A note is sent again only when it is certain that every earlier request
\* of the delivery was refused (the FAILED retry of run_daily_send).
RetryOnlyWhenRefused ==
  [][Sends => Live(wire'[Len(wire')].slot) = {}]_vars

\* Every request ends up in the audit log of its delivery, under the
\* timestamp it was sent with, no later than the delivery is concluded: an
\* interrupted attempt too, through get_delivery_updated_at.
EveryRequestAudited ==
  \A i \in 1 .. Len(wire) :
    LET s == wire[i].slot IN
    delivery[s] \in AttemptOutcomes =>
      \E k \in 1 .. Len(attempts[s]) : attempts[s][k].at = wire[i].stamp

\* No request leaves once a STOP was consumed or disabled sending, until the
\* owner re-enables sending after that STOP took effect: the poll of a tick
\* comes before its look at the control.  A re-enable that precedes the STOP
\* allows nothing.
NoSendAfterStop ==
  [][Sends => \A i \in Stops(Consumed) \cup DOMAIN obeyed : Overruled(i)]_vars

\* The notes of a date that reached the recipient, and the verdict kept on it.
NotesOf(d) ==
  Cardinality({i \in 1 .. Len(wire) :
                 wire[i].slot[2] = d /\ wire[i].status = "accepted"})

VerdictOn(d) ==
  LET state == delivery[<<EnrolledKey, d>>] IN
  CASE state = "sent" -> "sent"
    [] state = "failed" -> "failed"
    [] state = "delivery_unknown" -> "unknown"
    [] OTHER -> "open"

Note == INSTANCE DailyNote WITH
  copies <- [d \in Days |-> NotesOf(d)],
  verdict <- [d \in Days |-> VerdictOn(d)]

\* The daily send implements DailyNote: besides one copy per date, FAILED is
\* only ever recorded when nothing arrived and nothing still can, SENT only
\* when something did, and an ambiguous date is never reopened.
ImplementsDailyNote == Note!NoteSpec

\* What is left of it when ticks overlap: a second tick may call a delivery
\* ambiguous while the first still waits for an answer that settles it.
LearnsDailyNote == Note!LearningSpec

\* A delivery put in SENDING gets an outcome: by the tick that sends, or, when a
\* crash took that one, by the next tick of the window that finds the row, and
\* whatever a tick beside it does.  Only a crash after this point takes it away,
\* so c counts the crashes so far; it needs every answer to be text.
SendingIsConcluded ==
  \A w \in Workers, s \in Slots, c \in 0 .. MaxCrashes :
    (/\ Slot(w) = s /\ crashes = c
     /\ \/ job[w].pc = "nonce"
        \/ job[w].pc = "lookup" /\ delivery[s] = "sending")
      ~> (delivery[s] \in AttemptOutcomes \/ crashes > c)

(***************************************************************************)
(* What documents and comments of the repository say, and the code does    *)
(* not keep                                                                *)
(***************************************************************************)

\* "An ambiguous outcome is terminal for the Pacific day: never auto-retried"
\* (delivery.py run_daily_send).  A tick that read FAILED before another one
\* retried it still finds DELIVERY_UNKNOWN -> AUDIO_READY allowed.
UnknownNeverRetried == [][UnknownStays]_vars

\* "Never begin a new attempt at or after 07:05" (IMPLEMENTATION_PLAN.md): the
\* window is tested against the `now` the tick captured when it started.
SendsInWindow == [][Sends => Due(clock)]_vars

\* "A malformed or truncated rejection body doesn't change the outcome"
\* (sender.py _describe_rejection): a tick that awaits the answer of a refused
\* request goes on to record an outcome.
RejectionKeepsOutcome ==
  [][\A w \in Workers :
       (job[w].pc = "await" /\ Answer(w) \in {"refused", "blocked"}
          /\ job'[w].pc # "await")
         => job'[w].pc \in {"record", "block"}]_vars

\* "Successful delivery removes temporary audio" (IMPLEMENTATION_PLAN.md): the
\* stored audio of a SENT delivery is cleared in the end.
SentAudioCleared ==
  \A s \in Slots : delivery[s] = "sent" ~> ~audio[s]
=============================================================================
