----------------------------- MODULE InboundStop -----------------------------
(***************************************************************************)
(* How an inbound STOP disables sending (consent.py): poll_inbound_stop    *)
(* reads the durable getUpdates offset, asks Telegram for the updates      *)
(* after it, disables sending when the batch holds an exact STOP from the  *)
(* enrolled chat, and only then stores the new offset.  Each database      *)
(* call is its own transaction and the HTTP request is awaited between     *)
(* them, so a crash, another poll, the owner or the administrator may come *)
(* between any two.                                                        *)
(*                                                                         *)
(* Telegram is external: update ids count from 1 (the position in inbox),  *)
(* a request that carries an offset makes the server forget what precedes  *)
(* it, and the answer holds the first updates it has not forgotten, at     *)
(* most BatchLimit of them (100 for getUpdates).                           *)
(***************************************************************************)
EXTENDS SendingControl, FiniteSets

CONSTANTS
  Workers,    \* processes that may be running a tick
  BatchLimit, \* updates one answer may hold
  MaxUpdates, \* bound: updates ever sent to the bot
  MaxEvents   \* bound: switches of the sending control by people

ASSUME InboundAssumption ==
  /\ BatchLimit \in Nat \ {0}
  /\ MaxUpdates \in Nat
  /\ MaxEvents \in Nat

VARIABLES
  inbox,      \* every update ever sent to the bot, in update_id order
  forgotten,  \* how many of them the server has dropped as confirmed
  offset,     \* telegram_inbound_offset.next_offset, 0 while there is no row
  poll,       \* the progress of each worker's poll
  fetched,    \* history: the updates some poll was answered with
  obeyed      \* history: for each STOP a poll disabled sending for, the place
              \* in events of the disabling then in force

historyVars == <<fetched, obeyed>>
inboundVars == <<inbox, forgotten, offset, poll, historyVars>>
stopVars == <<controlVars, inboundVars>>

(***************************************************************************)
(* "stop" is the exact text from the enrolled chat, "other" any update     *)
(* that is only acknowledged, and "oversize" one that makes the answer     *)
(* unacceptable: longer than MAX_RESPONSE_BYTES or malformed.              *)
(***************************************************************************)
UpdateKinds == {"stop", "other", "oversize"}

\* A poll at some step, the offset of its request, and what _process_updates
\* returns: the offset to store and the STOPs it found.
Polling(step, from, next, stops) ==
  [pc |-> step, offset |-> from, next |-> next, stops |-> stops]

Idle == Polling("idle", 0, 0, {})

PollRecord ==
  [pc : {"idle", "request", "disable", "ack"}, offset : Nat, next : Nat,
   stops : SUBSET Nat]

InboundInit ==
  /\ ControlInit
  /\ inbox = <<>>
  /\ forgotten = 0
  /\ offset = 0
  /\ poll = [w \in Workers |-> Idle]
  /\ fetched = {}
  /\ obeyed = [i \in {} |-> 0]

(***************************************************************************)
(* One poll                                                                *)
(***************************************************************************)

\* get_telegram_inbound_offset; None leaves the parameter out of the request.
BeginPoll(w) ==
  /\ poll[w].pc = "idle"
  /\ poll' = [poll EXCEPT ![w] = Polling("request", offset, 0, {})]
  /\ UNCHANGED <<controlVars, inbox, forgotten, offset, historyVars>>

\* What the server has dropped once it has read a request with offset o.
ForgottenAfter(o) == IF o > forgotten + 1 THEN o - 1 ELSE forgotten

\* The last id, and all the ids, of the answer to a request with offset o.
LastPending(o) ==
  LET last == ForgottenAfter(o) + BatchLimit IN
  IF last < Len(inbox) THEN last ELSE Len(inbox)

Pending(o) == (ForgottenAfter(o) + 1) .. LastPending(o)

Kinds(ids) == {inbox[i] : i \in ids}

\* The exact STOPs from the enrolled chat among some updates.
Stops(ids) == {i \in ids : inbox[i] = "stop"}

\* The request never got an acceptable answer, whether or not the server
\* read it: TelegramPollError.
PollFails(w) ==
  /\ poll[w].pc = "request"
  /\ forgotten' \in {forgotten, ForgottenAfter(poll[w].offset)}
  /\ poll' = [poll EXCEPT ![w] = Idle]
  /\ UNCHANGED <<controlVars, inbox, offset, historyVars>>

\* Fault: the offset is stored before the batch is acted upon.
FaultAcknowledgeFirst(w) ==
  LET ids == Pending(poll[w].offset)
      next == LastPending(poll[w].offset) + 1
  IN /\ poll[w].pc = "request"
     /\ "oversize" \notin Kinds(ids)
     /\ forgotten' = ForgottenAfter(poll[w].offset)
     /\ offset' = IF ids = {} THEN offset ELSE next
     /\ poll' = [poll EXCEPT ![w] =
          IF Stops(ids) = {} THEN Idle
          ELSE Polling("disable", 0, next, Stops(ids))]
     /\ fetched' = fetched \cup ids
     /\ UNCHANGED <<controlVars, inbox, obeyed>>

\* Fault: the highest update id itself becomes the next offset.
FaultNextIsHighest(w) ==
  LET ids == Pending(poll[w].offset) IN
  /\ poll[w].pc = "request"
  /\ "oversize" \notin Kinds(ids)
  /\ forgotten' = ForgottenAfter(poll[w].offset)
  /\ poll' = [poll EXCEPT ![w] =
       IF ids = {} THEN Idle
       ELSE Polling(IF Stops(ids) = {} THEN "ack" ELSE "disable",
                    0, LastPending(poll[w].offset), Stops(ids))]
  /\ fetched' = fetched \cup ids
  /\ UNCHANGED <<controlVars, inbox, offset, obeyed>>

\* An acceptable answer: _process_updates takes one past the highest id, and
\* the STOPs among the updates.  An empty batch ends the poll.
PollAnswered(w) ==
  LET ids == Pending(poll[w].offset) IN
  /\ poll[w].pc = "request"
  /\ "oversize" \notin Kinds(ids)
  /\ forgotten' = ForgottenAfter(poll[w].offset)
  /\ poll' = [poll EXCEPT ![w] =
       IF ids = {} THEN Idle
       ELSE Polling(IF Stops(ids) = {} THEN "ack" ELSE "disable",
                    0, LastPending(poll[w].offset) + 1, Stops(ids))]
  /\ fetched' = fetched \cup ids
  /\ UNCHANGED <<controlVars, inbox, offset, obeyed>>

\* disable_sending(STOP_COMMAND), once for all the STOPs of the batch.
PollDisables(w) ==
  /\ poll[w].pc = "disable"
  /\ DisableSending("stop_command")
  /\ poll' = [poll EXCEPT ![w].pc = "ack"]
  /\ obeyed' = [i \in DOMAIN obeyed \cup poll[w].stops |->
                  IF i \in poll[w].stops THEN Len(events') ELSE obeyed[i]]
  /\ UNCHANGED <<inbox, forgotten, offset, fetched>>

\* Fault: the poll acknowledges the newest update there is, not the newest of
\* its batch.
FaultAcknowledgeNewest(w) ==
  /\ poll[w].pc = "ack"
  /\ offset' = Len(inbox) + 1
  /\ poll' = [poll EXCEPT ![w] = Idle]
  /\ UNCHANGED <<controlVars, inbox, forgotten, historyVars>>

\* set_telegram_inbound_offset: the last writer wins.
PollAcknowledges(w) ==
  /\ poll[w].pc = "ack"
  /\ offset' = poll[w].next
  /\ poll' = [poll EXCEPT ![w] = Idle]
  /\ UNCHANGED <<controlVars, inbox, forgotten, historyVars>>

PollStep(w) ==
  \/ PollFails(w)
  \/ PollAnswered(w)
  \/ PollDisables(w)
  \/ PollAcknowledges(w)

\* The process running the poll dies.
AbandonPoll(w) == poll' = [poll EXCEPT ![w] = Idle]

(***************************************************************************)
(* People                                                                  *)
(***************************************************************************)

\* Somebody writes to the bot.
UpdateArrives ==
  /\ Len(inbox) < MaxUpdates
  /\ \E kind \in UpdateKinds : inbox' = Append(inbox, kind)
  /\ UNCHANGED <<controlVars, forgotten, offset, poll, historyVars>>

\* The administrator's kill switch.
AdminDisables ==
  /\ Len(events) < MaxEvents
  /\ DisableSending("admin_kill_switch")
  /\ UNCHANGED inboundVars

OwnerEnables ==
  /\ Len(events) < MaxEvents
  /\ EnableSending
  /\ UNCHANGED inboundVars

People == UpdateArrives \/ AdminDisables \/ OwnerEnables

(***************************************************************************)
(* Polls by several workers, on their own                                  *)
(***************************************************************************)

CrashPoll(w) ==
  /\ poll[w].pc # "idle"
  /\ AbandonPoll(w)
  /\ UNCHANGED <<controlVars, inbox, forgotten, offset, historyVars>>

InboundNext ==
  \/ \E w \in Workers : BeginPoll(w) \/ PollStep(w) \/ CrashPoll(w)
  \/ People

InboundSpec == InboundInit /\ [][InboundNext]_stopVars

\* Ticks keep coming and each poll runs on; infinitely many of the requests
\* that have an acceptable answer get it, and not every poll is cut off.
PollFairness ==
  \A w \in Workers :
    /\ WF_stopVars(BeginPoll(w))
    /\ SF_stopVars(PollAnswered(w))
    /\ SF_stopVars(PollDisables(w))
    /\ SF_stopVars(PollAcknowledges(w))

FairInboundSpec == InboundSpec /\ PollFairness

(***************************************************************************)
(* Properties                                                              *)
(***************************************************************************)

InboundTypeOK ==
  /\ control \in ControlValues
  /\ events \in Seq(ControlValues)
  /\ inbox \in Seq(UpdateKinds)
  /\ forgotten \in 0 .. Len(inbox)
  /\ offset \in Nat
  /\ poll \in [Workers -> PollRecord]
  /\ fetched \subseteq 1 .. Len(inbox)
  /\ DOMAIN obeyed \subseteq Stops(fetched)
  /\ \A i \in DOMAIN obeyed : obeyed[i] \in 1 .. Len(events)

\* The updates nobody will look at again: below the stored offset, or dropped
\* by the server.
Consumed == {i \in 1 .. Len(inbox) : i < offset \/ i <= forgotten}

\* The owner re-enabled sending after STOP i last took effect.
Overruled(i) ==
  /\ i \in DOMAIN obeyed
  /\ \E j \in 1 .. Len(events) : j > obeyed[i] /\ events[j] = "enabled"

\* A STOP is never lost: by the time it cannot be fetched any more a poll that
\* held it had disabled sending, and sending is disabled still unless the owner
\* re-enabled it after that very disabling; an earlier re-enable excuses no
\* later STOP.  It is what the order disable-then-acknowledge of
\* poll_inbound_stop is for, under crashes and overlapping polls.
StopNeverLost ==
  \A i \in Stops(Consumed) :
    /\ i \in DOMAIN obeyed
    /\ events[obeyed[i]] # "enabled"
    /\ SendingEnabled => Overruled(i)

\* The audit trail can be replayed to the switch: it ends with its value and
\* never records a disable of what was disabled or an enable of what was
\* enabled, so the first reason of an outage is the one on record.
AuditTrail ==
  /\ control = (IF events = <<>> THEN "enabled" ELSE events[Len(events)])
  /\ \A i \in 1 .. Len(events) :
       (events[i] = "enabled") <=>
         (i > 1 /\ events[i - 1] # "enabled")

\* The stored offset never claims an update that no poll was answered with:
\* whatever arrives between an answer and its acknowledgement, and whichever of
\* two polls acknowledges last, no update is skipped unread.
OffsetNeverAhead == 1 .. (offset - 1) \subseteq fetched

\* A STOP sent to the bot is consumed in the end, and then StopNeverLost says
\* it took effect, unless an unacceptable update stands in its way: crashes,
\* failed polls and offsets that move backwards only delay it.
StopEventuallyConsumed ==
  \A i \in 1 .. MaxUpdates :
    (i \in 1 .. Len(inbox) /\ inbox[i] = "stop")
      ~> (i \in Consumed \/ "oversize" \in Kinds(1 .. Len(inbox)))
=============================================================================
