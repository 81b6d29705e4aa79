-------------------------- MODULE InboundStopProofs --------------------------
(***************************************************************************)
(* Proofs about the inbound poll, for any number of overlapping polls,     *)
(* crashes and interventions of people.                                    *)
(***************************************************************************)
EXTENDS InboundStop, TLAPS

\* Every update below n was read, and a poll disabled sending for the STOPs
\* among them, save those of more: in an inbox, with the updates read and the
\* STOPs done so far.
Covered(n, more, box, read, done) ==
  \A i \in 1 .. (n - 1) :
    i \in read /\ (box[i] = "stop" => i \in done \cup more)

\* An offset that may be sent to the server or stored: it is in the server's
\* numbering and nothing is lost below it.
SafeOffset(n, box, read, done) ==
  n \in 0 .. (Len(box) + 1) /\ Covered(n, {}, box, read, done)

\* The offset a poll carries may be stale, the one it is about to acknowledge
\* not yet stored: both have to be as safe as the stored one, the latter once
\* the STOPs the poll found are done.
SafePoll(r, box, read, done) ==
  /\ r \in PollRecord
  /\ SafeOffset(r.offset, box, read, done)
  /\ r.next \in 0 .. (Len(box) + 1)
  /\ r.stops \subseteq {i \in read : box[i] = "stop"}
  /\ r.pc = "disable" => Covered(r.next, r.stops, box, read, done)
  /\ r.pc = "ack" => Covered(r.next, {}, box, read, done)

\* The place kept for a STOP is that of a disabling.
ObeyedInv == \A i \in DOMAIN obeyed : events[obeyed[i]] # "enabled"

StopInv ==
  /\ InboundTypeOK
  /\ AuditTrail
  /\ ObeyedInv
  /\ SafeOffset(forgotten + 1, inbox, fetched, DOMAIN obeyed)
  /\ SafeOffset(offset, inbox, fetched, DOMAIN obeyed)
  /\ \A w \in Workers : SafePoll(poll[w], inbox, fetched, DOMAIN obeyed)

(***************************************************************************)
(* The switch                                                              *)
(***************************************************************************)

\* A step that the control may take in this system.
ControlStep ==
  \/ UNCHANGED controlVars
  \/ SendingEnabled /\ \E reason \in DisableReason : Switch(reason)
  \/ ~SendingEnabled /\ Switch("enabled")

LEMMA DisableIsControlStep ==
  ASSUME NEW reason \in DisableReason, DisableSending(reason)
  PROVE  ControlStep /\ ~SendingEnabled'
BY DEF DisableSending, ControlStep, Switch, SendingEnabled, DisableReason,
       controlVars

LEMMA ControlTyped ==
  ASSUME control \in ControlValues, events \in Seq(ControlValues), ControlStep
  PROVE  control' \in ControlValues /\ events' \in Seq(ControlValues)
BY DEF ControlStep, Switch, ControlValues, controlVars

\* The audit trail is only ever extended.
LEMMA EventsGrow ==
  ASSUME events \in Seq(ControlValues), ControlStep
  PROVE  /\ Len(events) \in Nat /\ Len(events') \in Nat
         /\ Len(events') >= Len(events)
         /\ \A i \in 1 .. Len(events) : events'[i] = events[i]
<1>1. CASE UNCHANGED controlVars
  BY <1>1 DEF controlVars
<1>2. ASSUME NEW value \in ControlValues, Switch(value)
      PROVE  /\ Len(events) \in Nat /\ Len(events') = Len(events) + 1
             /\ \A i \in 1 .. Len(events) : events'[i] = events[i]
  BY <1>2 DEF Switch
<1>3. UNCHANGED controlVars \/ \E value \in ControlValues : Switch(value)
  BY DEF ControlStep, ControlValues
<1>4. QED
  BY <1>1, <1>2, <1>3

LEMMA AuditStep ==
  ASSUME control \in ControlValues, events \in Seq(ControlValues),
         AuditTrail, ControlStep
  PROVE  AuditTrail'
<1>1. CASE UNCHANGED controlVars
  BY <1>1 DEF AuditTrail, controlVars
<1>2. ASSUME NEW value \in ControlValues, Switch(value),
             (value = "enabled") <=> ~SendingEnabled
      PROVE  AuditTrail'
  <2>1. /\ events' = Append(events, value)
        /\ control' = value
        /\ Len(events') = Len(events) + 1
        /\ \A i \in 1 .. Len(events) : events'[i] = events[i]
        /\ events'[Len(events) + 1] = value
        /\ Len(events) \in Nat
    BY <1>2 DEF Switch
  <2>2. events = <<>> <=> Len(events) = 0
    OBVIOUS
  <2>3. (value = "enabled") <=>
          (Len(events) + 1 > 1 /\ events[Len(events)] # "enabled")
    BY <1>2, <2>1, <2>2 DEF AuditTrail, SendingEnabled
  <2>4. ASSUME NEW i \in 1 .. Len(events')
        PROVE  (events'[i] = "enabled") <=> (i > 1 /\ events'[i - 1] # "enabled")
    <3>1. CASE i = Len(events) + 1
      BY <2>1, <2>3, <3>1
    <3>2. CASE i \in 1 .. Len(events)
      BY <2>1, <3>2 DEF AuditTrail
    <3>3. QED
      BY <2>1, <3>1, <3>2
  <2>5. events' # <<>> /\ events'[Len(events')] = control'
    BY <2>1
  <2>6. QED
    BY <2>4, <2>5 DEF AuditTrail
<1>3. QED
  BY <1>1, <1>2 DEF ControlStep, ControlValues, DisableReason, SendingEnabled

(***************************************************************************)
(* The inbox                                                               *)
(***************************************************************************)

\* What is safe stays so while updates arrive, are read and take effect.
LEMMA SafeStays ==
  ASSUME NEW box \in Seq(UpdateKinds), NEW box2 \in Seq(UpdateKinds),
         Len(box) <= Len(box2), \A i \in 1 .. Len(box) : box2[i] = box[i],
         NEW read \in SUBSET (1 .. Len(box)), NEW read2, read \subseteq read2,
         NEW done, NEW done2, done \subseteq done2
  PROVE  /\ \A n : SafeOffset(n, box, read, done)
                    => SafeOffset(n, box2, read2, done2)
         /\ \A r : SafePoll(r, box, read, done)
                    => SafePoll(r, box2, read2, done2)
<1>1. Len(box) \in Nat /\ Len(box2) \in Nat
  OBVIOUS
<1>2. ASSUME NEW n \in 0 .. (Len(box) + 1), NEW more,
             Covered(n, more, box, read, done)
      PROVE  Covered(n, more, box2, read2, done2)
  BY <1>1, <1>2 DEF Covered
<1>3. ASSUME NEW n, SafeOffset(n, box, read, done)
      PROVE  SafeOffset(n, box2, read2, done2)
  <2>1. n \in 0 .. (Len(box) + 1) /\ Covered(n, {}, box, read, done)
    BY <1>3 DEF SafeOffset
  <2>2. n \in 0 .. (Len(box2) + 1) /\ Covered(n, {}, box2, read2, done2)
    BY <1>1, <1>2, <2>1
  <2>3. QED
    BY <2>2 DEF SafeOffset
<1>4. ASSUME NEW r, SafePoll(r, box, read, done)
      PROVE  SafePoll(r, box2, read2, done2)
  <2>1. r.stops \subseteq {i \in read2 : box2[i] = "stop"}
    BY <1>4 DEF SafePoll
  <2>2. r.next \in 0 .. (Len(box) + 1) /\ r.next \in 0 .. (Len(box2) + 1)
    BY <1>1, <1>4 DEF SafePoll
  <2>3. QED
    BY <1>2, <1>3, <1>4, <2>1, <2>2 DEF SafePoll
<1>5. QED
  BY <1>3, <1>4

LEMMA MoreIsSafe ==
  ASSUME NEW box \in Seq(UpdateKinds),
         NEW read, NEW read2, read \subseteq read2, read2 \subseteq 1 .. Len(box),
         NEW done, NEW done2, done \subseteq done2
  PROVE  /\ \A n : SafeOffset(n, box, read, done)
                    => SafeOffset(n, box, read2, done2)
         /\ \A r : SafePoll(r, box, read, done)
                    => SafePoll(r, box, read2, done2)
<1>1. read \in SUBSET (1 .. Len(box)) /\ Len(box) <= Len(box)
  OBVIOUS
<1>2. \A i \in 1 .. Len(box) : box[i] = box[i]
  OBVIOUS
<1>3. QED
  BY <1>1, <1>2, SafeStays

\* A step of the control or of the inbox that moves no offset.
LEMMA QuietStep ==
  ASSUME StopInv, ControlStep, UNCHANGED <<forgotten, offset, poll, historyVars>>,
         \/ inbox' = inbox
         \/ \E kind \in UpdateKinds : inbox' = Append(inbox, kind)
  PROVE  StopInv'
<1> USE DEF historyVars
<1>1. /\ inbox \in Seq(UpdateKinds) /\ inbox' \in Seq(UpdateKinds)
      /\ Len(inbox) \in Nat /\ Len(inbox') \in Nat
      /\ Len(inbox) <= Len(inbox')
      /\ \A i \in 1 .. Len(inbox) : inbox'[i] = inbox[i]
  <2>1. inbox \in Seq(UpdateKinds)
    BY DEF StopInv, InboundTypeOK
  <2>2. CASE inbox' = inbox
    BY <2>1, <2>2
  <2>3. ASSUME NEW kind \in UpdateKinds, inbox' = Append(inbox, kind)
        PROVE  /\ inbox' \in Seq(UpdateKinds) /\ Len(inbox') = Len(inbox) + 1
               /\ \A i \in 1 .. Len(inbox) : inbox'[i] = inbox[i]
    BY ONLY <2>1, <2>3
  <2>4. QED
    BY <2>1, <2>2, <2>3
<1>2. /\ events \in Seq(ControlValues) /\ Len(events) \in Nat
      /\ Len(events') \in Nat /\ Len(events') >= Len(events)
      /\ \A i \in 1 .. Len(events) : events'[i] = events[i]
      /\ \A i \in DOMAIN obeyed : obeyed[i] \in 1 .. Len(events)
  BY EventsGrow DEF StopInv, InboundTypeOK
<1>3. fetched \subseteq 1 .. Len(inbox) /\ DOMAIN obeyed \subseteq Stops(fetched)
  BY DEF StopInv, InboundTypeOK
<1>4. InboundTypeOK'
  <2>1. control' \in ControlValues /\ events' \in Seq(ControlValues)
    BY ControlTyped DEF StopInv, InboundTypeOK
  <2>2. fetched' \subseteq 1 .. Len(inbox')
    BY <1>1, <1>3
  <2>3. DOMAIN obeyed' \subseteq Stops(fetched)'
    BY <1>1, <1>3 DEF Stops
  <2>4. \A i \in DOMAIN obeyed' : obeyed'[i] \in 1 .. Len(events')
    BY <1>2
  <2>5. forgotten' \in 0 .. Len(inbox') /\ offset' \in Nat
    BY <1>1 DEF StopInv, InboundTypeOK
  <2>6. poll' \in [Workers -> PollRecord]
    BY DEF StopInv, InboundTypeOK
  <2>7. QED
    BY <1>1, <2>1, <2>2, <2>3, <2>4, <2>5, <2>6 DEF InboundTypeOK
<1>5. AuditTrail'
  BY AuditStep DEF StopInv, InboundTypeOK
<1>6. ObeyedInv'
  BY <1>2 DEF StopInv, ObeyedInv
<1>7. /\ SafeOffset(forgotten + 1, inbox, fetched, DOMAIN obeyed)'
      /\ SafeOffset(offset, inbox, fetched, DOMAIN obeyed)'
      /\ \A w \in Workers : SafePoll(poll[w], inbox, fetched, DOMAIN obeyed)'
  BY <1>1, <1>3, SafeStays DEF StopInv
<1>8. QED
  BY <1>4, <1>5, <1>6, <1>7 DEF StopInv

\* A step of one poll: its record, the stored offset and what the server
\* forgot move to values that are safe with what has been read by then.
LEMMA PollMoves ==
  ASSUME StopInv, NEW w \in Workers, NEW record,
         SafePoll(record, inbox, fetched', DOMAIN obeyed),
         poll' = [poll EXCEPT ![w] = record],
         UNCHANGED <<controlVars, inbox, obeyed>>,
         fetched \subseteq fetched', fetched' \subseteq 1 .. Len(inbox),
         SafeOffset(offset', inbox, fetched', DOMAIN obeyed),
         SafeOffset(forgotten' + 1, inbox, fetched', DOMAIN obeyed),
         forgotten' \in Nat
  PROVE  StopInv'
<1>1. /\ inbox \in Seq(UpdateKinds) /\ Len(inbox) \in Nat
      /\ record \in PollRecord
      /\ forgotten' \in 0 .. Len(inbox) /\ offset' \in Nat
  BY DEF StopInv, InboundTypeOK, SafePoll, SafeOffset
<1>2. InboundTypeOK'
  <2>1. poll' \in [Workers -> PollRecord]
    BY <1>1 DEF StopInv, InboundTypeOK
  <2>2. DOMAIN obeyed' \subseteq Stops(fetched)'
    BY DEF StopInv, InboundTypeOK, Stops
  <2>3. /\ control' \in ControlValues /\ events' \in Seq(ControlValues)
        /\ \A i \in DOMAIN obeyed' : obeyed'[i] \in 1 .. Len(events')
    BY DEF StopInv, InboundTypeOK, controlVars
  <2>4. QED
    BY <1>1, <2>1, <2>2, <2>3 DEF InboundTypeOK
<1>3. AuditTrail' /\ ObeyedInv'
  BY DEF StopInv, AuditTrail, ObeyedInv, controlVars
<1>4. ASSUME NEW v \in Workers
      PROVE  SafePoll(poll[v], inbox, fetched, DOMAIN obeyed)'
  <2>1. fetched \subseteq 1 .. Len(inbox)
    BY DEF StopInv, InboundTypeOK
  <2>2. SafePoll(poll[v], inbox, fetched', DOMAIN obeyed)
    BY <1>1, <2>1, MoreIsSafe DEF StopInv
  <2>3. SafePoll(poll'[v], inbox, fetched', DOMAIN obeyed)
    BY <2>2 DEF StopInv, InboundTypeOK
  <2>4. QED
    BY <2>3
<1>5. QED
  BY <1>2, <1>3, <1>4 DEF StopInv

(***************************************************************************)
(* The steps                                                               *)
(***************************************************************************)

LEMMA IdleIsSafe ==
  ASSUME NEW box \in Seq(UpdateKinds), NEW read, NEW done
  PROVE  /\ SafePoll(Idle, box, read, done)
         /\ SafeOffset(0, box, read, done)
<1>1. Len(box) \in Nat
  OBVIOUS
<1>2. SafeOffset(0, box, read, done)
  BY <1>1 DEF SafeOffset, Covered
<1>3. QED
  BY <1>1, <1>2 DEF Idle, Polling, PollRecord, SafePoll

LEMMA BeginPollKeepsInv ==
  ASSUME StopInv, NEW w \in Workers, BeginPoll(w)
  PROVE  StopInv'
<1> DEFINE record == Polling("request", offset, 0, {})
<1>1. /\ poll' = [poll EXCEPT ![w] = record]
      /\ UNCHANGED <<controlVars, inbox, forgotten, offset, fetched, obeyed>>
  BY DEF BeginPoll, historyVars
<1>2. SafePoll(record, inbox, fetched', DOMAIN obeyed)
  BY <1>1 DEF SafePoll, PollRecord, StopInv, InboundTypeOK, Polling
<1>3. /\ SafeOffset(offset', inbox, fetched', DOMAIN obeyed)
      /\ SafeOffset(forgotten' + 1, inbox, fetched', DOMAIN obeyed)
      /\ forgotten' \in Nat /\ fetched' \subseteq 1 .. Len(inbox)
  BY <1>1 DEF StopInv, InboundTypeOK
<1> HIDE DEF record
<1>4. QED
  BY <1>1, <1>2, <1>3, PollMoves

\* What the server forgets by a request was already honoured.
LEMMA ForgottenIsSafe ==
  ASSUME StopInv, NEW w \in Workers
  PROVE  /\ ForgottenAfter(poll[w].offset) \in 0 .. Len(inbox)
         /\ SafeOffset(ForgottenAfter(poll[w].offset) + 1,
                       inbox, fetched, DOMAIN obeyed)
<1>1. /\ SafeOffset(poll[w].offset, inbox, fetched, DOMAIN obeyed)
      /\ SafeOffset(forgotten + 1, inbox, fetched, DOMAIN obeyed)
      /\ forgotten \in 0 .. Len(inbox) /\ Len(inbox) \in Nat
      /\ poll[w].offset \in 0 .. (Len(inbox) + 1)
  BY DEF StopInv, InboundTypeOK, SafePoll, SafeOffset
<1>2. CASE poll[w].offset > forgotten + 1
  <2>1. ForgottenAfter(poll[w].offset) + 1 = poll[w].offset
    BY <1>1, <1>2 DEF ForgottenAfter
  <2>2. QED
    BY <1>1, <1>2, <2>1 DEF ForgottenAfter
<1>3. CASE ~(poll[w].offset > forgotten + 1)
  BY <1>1, <1>3 DEF ForgottenAfter
<1>4. QED
  BY <1>2, <1>3

\* An acceptable answer: the updates it held are read, and its STOPs are in the
\* record of the poll.
LEMMA PollAnsweredKeepsInv ==
  ASSUME StopInv, NEW w \in Workers, PollAnswered(w)
  PROVE  StopInv'
<1> DEFINE past == ForgottenAfter(poll[w].offset)
           last == LastPending(poll[w].offset)
           ids == Pending(poll[w].offset)
           step == IF Stops(ids) = {} THEN "ack" ELSE "disable"
           answer == Polling(step, 0, last + 1, Stops(ids))
           record == IF ids = {} THEN Idle ELSE answer
<1>1. /\ poll' = [poll EXCEPT ![w] = record]
      /\ forgotten' = past /\ fetched' = fetched \cup ids
      /\ UNCHANGED <<controlVars, inbox, offset, obeyed>>
  BY DEF PollAnswered
<1>2. /\ inbox \in Seq(UpdateKinds) /\ Len(inbox) \in Nat
      /\ fetched \subseteq 1 .. Len(inbox)
      /\ SafeOffset(offset, inbox, fetched, DOMAIN obeyed)
      /\ past \in 0 .. Len(inbox)
      /\ SafeOffset(past + 1, inbox, fetched, DOMAIN obeyed)
  BY ForgottenIsSafe DEF StopInv, InboundTypeOK
<1>3. last \in past .. Len(inbox) /\ ids = (past + 1) .. last
  BY <1>2, InboundAssumption DEF LastPending, Pending
<1> HIDE DEF past, last, ids
<1>4. fetched \subseteq fetched' /\ fetched' \subseteq 1 .. Len(inbox)
  BY <1>1, <1>2, <1>3
<1>5. Covered(last + 1, Stops(ids), inbox, fetched', DOMAIN obeyed)
  <2>1. ASSUME NEW i \in 1 .. last
        PROVE  /\ i \in fetched'
               /\ inbox[i] = "stop" => i \in DOMAIN obeyed \cup Stops(ids)
    <3>1. CASE i \in 1 .. past
      BY <1>2, <1>4, <3>1 DEF SafeOffset, Covered
    <3>2. CASE i \in ids
      BY <1>1, <3>2 DEF Stops
    <3>3. QED
      BY <1>2, <1>3, <3>1, <3>2
  <2>2. (last + 1) - 1 = last
    BY <1>2, <1>3
  <2>3. QED
    BY <2>1, <2>2 DEF Covered
<1>6. SafePoll(answer, inbox, fetched', DOMAIN obeyed)
  <2>1. /\ step \in {"disable", "ack"}
        /\ step = "ack" => Stops(ids) = {}
    OBVIOUS
  <2> HIDE DEF step
  <2>2. /\ answer.pc = step /\ answer.offset = 0 /\ answer.next = last + 1
        /\ answer.stops = Stops(ids)
    BY DEF Polling
  <2>3. Stops(ids) \subseteq {i \in fetched' : inbox[i] = "stop"}
    BY <1>1 DEF Stops
  <2>4. Stops(ids) \subseteq Nat
    <3>1. ids \subseteq Nat
      BY <1>2, <1>3
    <3>2. QED
      BY <3>1 DEF Stops
  <2>5. answer \in PollRecord
    BY <1>2, <1>3, <2>1, <2>4 DEF Polling, PollRecord
  <2>6. last + 1 \in 0 .. (Len(inbox) + 1)
    BY <1>2, <1>3
  <2>7. SafeOffset(0, inbox, fetched', DOMAIN obeyed)
    BY <1>2, IdleIsSafe
  <2> HIDE DEF answer
  <2>8. QED
    BY <1>5, <2>1, <2>2, <2>3, <2>5, <2>6, <2>7 DEF SafePoll
<1>7. SafePoll(record, inbox, fetched', DOMAIN obeyed)
  BY <1>2, <1>6, IdleIsSafe
<1>8. /\ SafeOffset(offset', inbox, fetched', DOMAIN obeyed)
      /\ SafeOffset(forgotten' + 1, inbox, fetched', DOMAIN obeyed)
      /\ forgotten' \in Nat
  <2>1. /\ SafeOffset(offset, inbox, fetched', DOMAIN obeyed)
        /\ SafeOffset(past + 1, inbox, fetched', DOMAIN obeyed)
    BY <1>2, <1>4, MoreIsSafe
  <2>2. past \in Nat /\ offset' = offset /\ forgotten' = past
    BY <1>1, <1>2
  <2>3. QED
    BY <2>1, <2>2
<1> HIDE DEF record
<1>9. QED
  BY <1>1, <1>4, <1>7, <1>8, PollMoves

\* Sending is disabled for the STOPs of the batch: the place kept for them is
\* the last of the trail, and that is a disabling.
LEMMA PollDisablesKeepsInv ==
  ASSUME StopInv, NEW w \in Workers, PollDisables(w)
  PROVE  StopInv'
<1> DEFINE found == poll[w].stops
<1>1. ControlStep /\ ~SendingEnabled'
  BY DisableIsControlStep DEF PollDisables, DisableReason
<1>2. /\ poll' = [poll EXCEPT ![w].pc = "ack"] /\ poll[w].pc = "disable"
      /\ DOMAIN obeyed' = DOMAIN obeyed \cup found
      /\ \A i \in DOMAIN obeyed' :
           obeyed'[i] = IF i \in found THEN Len(events') ELSE obeyed[i]
      /\ UNCHANGED <<inbox, forgotten, offset, fetched>>
  BY DEF PollDisables
<1>3. /\ inbox \in Seq(UpdateKinds) /\ fetched \subseteq 1 .. Len(inbox)
      /\ poll[w] \in PollRecord /\ poll \in [Workers -> PollRecord]
      /\ found \subseteq Stops(fetched)
      /\ Covered(poll[w].next, found, inbox, fetched, DOMAIN obeyed)
  BY <1>2 DEF StopInv, InboundTypeOK, SafePoll, Stops
<1>4. /\ Len(events) \in Nat /\ Len(events') \in Nat
      /\ Len(events') >= Len(events)
      /\ \A i \in 1 .. Len(events) : events'[i] = events[i]
  BY <1>1, EventsGrow DEF StopInv, InboundTypeOK
<1>5. control' \in ControlValues /\ events' \in Seq(ControlValues) /\ AuditTrail'
  BY <1>1, ControlTyped, AuditStep DEF StopInv, InboundTypeOK
<1>6. Len(events') \in 1 .. Len(events') /\ events'[Len(events')] # "enabled"
  <2>1. events' # <<>> /\ events'[Len(events')] # "enabled"
    BY <1>1, <1>5 DEF AuditTrail, SendingEnabled
  <2>2. QED
    BY <1>4, <1>5, <2>1
<1>7. ASSUME NEW i \in DOMAIN obeyed'
      PROVE  obeyed'[i] \in 1 .. Len(events') /\ events'[obeyed'[i]] # "enabled"
  <2>1. CASE i \in found
    BY <1>2, <1>6, <2>1
  <2>2. CASE i \notin found
    <3>1. obeyed[i] \in 1 .. Len(events) /\ events[obeyed[i]] # "enabled"
      BY <1>2, <2>2 DEF StopInv, InboundTypeOK, ObeyedInv
    <3>2. QED
      BY <1>2, <1>4, <2>2, <3>1
  <2>3. QED
    BY <2>1, <2>2
<1>8. poll' \in [Workers -> PollRecord]
  BY <1>2, <1>3 DEF PollRecord
<1>9. InboundTypeOK'
  <2>1. DOMAIN obeyed' \subseteq Stops(fetched)'
    BY <1>2, <1>3 DEF StopInv, InboundTypeOK, Stops
  <2>2. QED
    BY <1>2, <1>5, <1>7, <1>8, <2>1 DEF StopInv, InboundTypeOK
<1>10. DOMAIN obeyed \subseteq DOMAIN obeyed'
  BY <1>2
<1>11. /\ SafeOffset(offset, inbox, fetched, DOMAIN obeyed)'
       /\ SafeOffset(forgotten + 1, inbox, fetched, DOMAIN obeyed)'
  BY <1>2, <1>3, <1>10, MoreIsSafe DEF StopInv
<1>12. ASSUME NEW v \in Workers
       PROVE  SafePoll(poll[v], inbox, fetched, DOMAIN obeyed)'
  <2>1. SafePoll(poll[v], inbox, fetched, DOMAIN obeyed')
    BY <1>3, <1>10, MoreIsSafe DEF StopInv
  <2>2. CASE v # w
    BY <1>2, <1>3, <2>1, <2>2
  <2>3. CASE v = w
    <3>1. Covered(poll[w].next, {}, inbox, fetched, DOMAIN obeyed')
      BY <1>2, <1>3 DEF Covered
    <3>2. /\ poll'[w].pc = "ack" /\ poll'[w].offset = poll[w].offset
          /\ poll'[w].next = poll[w].next /\ poll'[w].stops = poll[w].stops
          /\ poll'[w] \in PollRecord
      BY <1>2, <1>3, <1>8 DEF PollRecord
    <3>3. SafePoll(poll'[w], inbox, fetched, DOMAIN obeyed')
      BY <2>1, <2>3, <3>1, <3>2 DEF SafePoll
    <3>4. QED
      BY <1>2, <2>3, <3>3
  <2>4. QED
    BY <2>2, <2>3
<1>13. QED
  BY <1>5, <1>7, <1>9, <1>11, <1>12 DEF StopInv, ObeyedInv

LEMMA PollStepKeepsInv ==
  ASSUME StopInv, NEW w \in Workers, PollStep(w)
  PROVE  StopInv'
<1>1. /\ SafePoll(poll[w], inbox, fetched, DOMAIN obeyed)
      /\ SafePoll(Idle, inbox, fetched, DOMAIN obeyed)
      /\ SafeOffset(offset, inbox, fetched, DOMAIN obeyed)
      /\ SafeOffset(forgotten + 1, inbox, fetched, DOMAIN obeyed)
      /\ forgotten \in Nat /\ fetched \subseteq 1 .. Len(inbox)
  BY IdleIsSafe DEF StopInv, InboundTypeOK
<1>2. CASE PollFails(w)
  <2>1. /\ poll' = [poll EXCEPT ![w] = Idle]
        /\ UNCHANGED <<controlVars, inbox, offset, fetched, obeyed>>
        /\ forgotten' \in {forgotten, ForgottenAfter(poll[w].offset)}
    BY <1>2 DEF PollFails, historyVars
  <2>2. /\ forgotten' \in Nat
        /\ SafeOffset(forgotten' + 1, inbox, fetched, DOMAIN obeyed)
    BY <1>1, <2>1, ForgottenIsSafe
  <2>3. QED
    BY <1>1, <2>1, <2>2, PollMoves
<1>3. CASE PollAcknowledges(w)
  <2>1. /\ poll' = [poll EXCEPT ![w] = Idle] /\ offset' = poll[w].next
        /\ UNCHANGED <<controlVars, inbox, forgotten, fetched, obeyed>>
    BY <1>3 DEF PollAcknowledges, historyVars
  <2>2. SafeOffset(offset', inbox, fetched, DOMAIN obeyed)
    BY <1>1, <1>3, <2>1 DEF PollAcknowledges, SafePoll, SafeOffset
  <2>3. QED
    BY <1>1, <2>1, <2>2, PollMoves
<1>4. QED
  BY <1>2, <1>3, PollAnsweredKeepsInv, PollDisablesKeepsInv DEF PollStep

LEMMA CrashPollKeepsInv ==
  ASSUME StopInv, NEW w \in Workers, AbandonPoll(w),
         UNCHANGED <<controlVars, inbox, forgotten, offset, historyVars>>
  PROVE  StopInv'
<1>1. /\ SafePoll(Idle, inbox, fetched', DOMAIN obeyed)
      /\ SafeOffset(offset', inbox, fetched', DOMAIN obeyed)
      /\ SafeOffset(forgotten' + 1, inbox, fetched', DOMAIN obeyed)
      /\ forgotten' \in Nat /\ fetched' \subseteq 1 .. Len(inbox)
      /\ fetched' = fetched /\ obeyed' = obeyed
  BY IdleIsSafe DEF StopInv, InboundTypeOK, historyVars
<1>2. QED
  BY <1>1, PollMoves DEF AbandonPoll

LEMMA PeopleKeepInv ==
  ASSUME StopInv, People
  PROVE  StopInv'
<1>1. CASE UpdateArrives
  BY <1>1, QuietStep DEF UpdateArrives, ControlStep
<1>2. CASE AdminDisables
  BY <1>2, QuietStep, DisableIsControlStep
     DEF AdminDisables, inboundVars, DisableReason
<1>3. CASE OwnerEnables
  BY <1>3, QuietStep DEF OwnerEnables, inboundVars, EnableSending, ControlStep
<1>4. QED
  BY <1>1, <1>2, <1>3 DEF People

LEMMA InboundUnchanged ==
  ASSUME StopInv, UNCHANGED stopVars
  PROVE  StopInv'
BY QuietStep DEF stopVars, inboundVars, ControlStep

LEMMA InboundInitInv ==
  ASSUME InboundInit
  PROVE  StopInv
<1>1. /\ inbox = <<>> /\ Len(inbox) = 0 /\ inbox \in Seq(UpdateKinds)
      /\ events = <<>> /\ Len(events) = 0 /\ control = "enabled"
      /\ fetched = {} /\ DOMAIN obeyed = {} /\ forgotten = 0 /\ offset = 0
      /\ poll = [w \in Workers |-> Idle]
  BY DEF InboundInit, ControlInit
<1>2. /\ SafePoll(Idle, inbox, fetched, DOMAIN obeyed)
      /\ SafeOffset(0, inbox, fetched, DOMAIN obeyed)
  BY <1>1, IdleIsSafe
<1>3. SafeOffset(forgotten + 1, inbox, fetched, DOMAIN obeyed)
  BY <1>1 DEF SafeOffset, Covered
<1>4. InboundTypeOK /\ AuditTrail /\ ObeyedInv
  <2>1. Idle \in PollRecord
    BY <1>2 DEF SafePoll
  <2>2. QED
    BY <1>1, <2>1 DEF InboundTypeOK, AuditTrail, ObeyedInv, ControlValues
<1>5. QED
  BY <1>1, <1>2, <1>3, <1>4 DEF StopInv

\* While sending is enabled every STOP that took effect was overruled since:
\* the trail ends with an enabling, and the place kept is that of a disabling.
LEMMA EnabledOverrules ==
  ASSUME StopInv, SendingEnabled, NEW i \in DOMAIN obeyed
  PROVE  Overruled(i)
<1>1. /\ events \in Seq(ControlValues) /\ Len(events) \in Nat
      /\ obeyed[i] \in 1 .. Len(events) /\ events[obeyed[i]] # "enabled"
  BY DEF StopInv, InboundTypeOK, ObeyedInv
<1>2. events # <<>>
  BY <1>1
<1>3. events[Len(events)] = "enabled"
  BY <1>2 DEF StopInv, AuditTrail, SendingEnabled
<1>4. Len(events) \in 1 .. Len(events) /\ Len(events) > obeyed[i]
  BY <1>1, <1>3
<1>5. QED
  BY <1>3, <1>4 DEF Overruled

\* What cannot be fetched any more took effect.
LEMMA ConsumedIsObeyed ==
  ASSUME StopInv
  PROVE  Stops(Consumed) \subseteq DOMAIN obeyed
<1>1. /\ SafeOffset(offset, inbox, fetched, DOMAIN obeyed)
      /\ SafeOffset(forgotten + 1, inbox, fetched, DOMAIN obeyed)
      /\ Len(inbox) \in Nat /\ offset \in Nat /\ forgotten \in Nat
  BY DEF StopInv, InboundTypeOK
<1>2. QED
  BY <1>1 DEF SafeOffset, Covered, Stops, Consumed

LEMMA StopInvImplies ==
  ASSUME StopInv
  PROVE  StopNeverLost /\ OffsetNeverAhead
<1>1. StopNeverLost
  BY ConsumedIsObeyed, EnabledOverrules DEF StopNeverLost, StopInv, ObeyedInv
<1>2. OffsetNeverAhead
  BY DEF StopInv, SafeOffset, Covered, OffsetNeverAhead
<1>3. QED
  BY <1>1, <1>2

LEMMA StopInvHolds == InboundSpec => []StopInv
<1>1. InboundInit => StopInv
  BY InboundInitInv
<1>2. StopInv /\ [InboundNext]_stopVars => StopInv'
  BY BeginPollKeepsInv, PollStepKeepsInv, CrashPollKeepsInv, PeopleKeepInv,
     InboundUnchanged DEF InboundNext, CrashPoll
<1>3. QED
  BY <1>1, <1>2, PTL DEF InboundSpec

\* However polls overlap, fail or die, and whatever the owner and the
\* administrator do meanwhile, a STOP nobody can fetch any more took effect:
\* sending was disabled for it, and is enabled only if the owner re-enabled it
\* after that.
THEOREM StopIsNeverLost == InboundSpec => []StopNeverLost
<1>1. StopInv => StopNeverLost
  BY StopInvImplies
<1>2. QED
  BY <1>1, StopInvHolds, PTL

\* The audit trail of the sending control replays to its present value and
\* never records a disable of what was disabled, and every update below the
\* stored offset is in the answer to some poll.
THEOREM AuditIsTrue ==
  InboundSpec => [](InboundTypeOK /\ AuditTrail /\ OffsetNeverAhead)
<1>1. StopInv => InboundTypeOK /\ AuditTrail /\ OffsetNeverAhead
  BY StopInvImplies DEF StopInv
<1>2. QED
  BY <1>1, StopInvHolds, PTL
=============================================================================
