---------------------------- MODULE DeliveryStore ----------------------------
(***************************************************************************)
(* The SQLite tables that make delivery durable (database.py): messages,   *)
(* message_rejections, deliveries and delivery_attempts.  Each operator    *)
(* below named after a method of Database is that method's whole           *)
(* BEGIN IMMEDIATE transaction: writers are serialised, and a method that  *)
(* raises rolls back, so an operation either has its full effect or is     *)
(* not enabled.  A caller that must survive the exception asks the         *)
(* matching Can... predicate first.                                        *)
(*                                                                         *)
(* A row of deliveries is identified by its slot <<recipient_key,          *)
(* pacific_date>>, which the schema makes unique.                          *)
(***************************************************************************)
EXTENDS Integers, Sequences, FiniteSets

CONSTANTS
  Messages,     \* primary keys of the messages table
  Keys,         \* recipient keys
  Days,         \* Pacific dates
  Instants,     \* values of the `now` arguments
  ProviderIds,  \* bound of the arbitrary client: Telegram message ids
  MaxAttempts   \* bound of the arbitrary client: attempts per delivery

ASSUME StoreAssumption ==
  /\ Messages \subseteq Nat
  /\ Instants \subseteq Nat
  /\ ProviderIds \subseteq Nat
  /\ MaxAttempts \in Nat

VARIABLES
  message,    \* messages.state, "absent" while the row does not exist
  rejected,   \* ids with a message_rejections row
  delivery,   \* deliveries.state, "none" while the row does not exist
  carried,    \* deliveries.message_id, 0 while the row does not exist
  audio,      \* whether deliveries.audio_data is present
  provider,   \* deliveries.provider_message_id, 0 for NULL
  updatedAt,  \* deliveries.updated_at
  attempts    \* the delivery_attempts rows of each delivery, oldest first

storeVars == <<message, rejected, delivery, carried, audio, provider,
               updatedAt, attempts>>
contentVars == <<message, rejected>>
rowVars == <<carried, audio, provider>>

Slots == Keys \X Days

ContentStates == {"discovered", "validated", "approved", "queued"}

DeliveryStates ==
  {"reserved", "audio_ready", "sending", "sent", "failed", "delivery_unknown"}

ContentTransitions ==
  { <<"discovered", "validated">>,
    <<"validated", "approved">>,
    <<"approved", "queued">> }

DeliveryTransitions ==
  { <<"reserved", "audio_ready">>,
    <<"audio_ready", "sending">>,
    <<"sending", "sent">>,
    <<"sending", "failed">>,
    <<"sending", "delivery_unknown">>,
    <<"failed", "audio_ready">>,
    <<"delivery_unknown", "audio_ready">>,
    <<"delivery_unknown", "sent">> }

AttemptOutcomes == {"sent", "failed", "delivery_unknown"}

Attempt ==
  [outcome : AttemptOutcomes, at : Nat, provider : Nat]

\* No delivery was ever reserved and nothing was rejected.
NoDeliveries ==
  /\ rejected  = {}
  /\ delivery  = [s \in Slots |-> "none"]
  /\ carried   = [s \in Slots |-> 0]
  /\ audio     = [s \in Slots |-> FALSE]
  /\ provider  = [s \in Slots |-> 0]
  /\ updatedAt = [s \in Slots |-> 0]
  /\ attempts  = [s \in Slots |-> <<>>]

StoreInit ==
  /\ message = [m \in Messages |-> "absent"]
  /\ NoDeliveries

(***************************************************************************)
(* Content: the rows of messages and message_rejections.                   *)
(***************************************************************************)

\* _create_message_in_transaction: the new row takes the next id.
CreateMessage(m) ==
  /\ message[m] = "absent"
  /\ \A n \in Messages : n < m => message[n] # "absent"
  /\ message' = [message EXCEPT ![m] = "discovered"]
  /\ UNCHANGED <<rejected, delivery, rowVars, updatedAt, attempts>>

\* transition_message: one step of CONTENT_TRANSITIONS.
TransitionMessage(m, target) ==
  /\ <<message[m], target>> \in ContentTransitions
  /\ message' = [message EXCEPT ![m] = target]
  /\ UNCHANGED <<rejected, delivery, rowVars, updatedAt, attempts>>

CanReject(m) == message[m] \in {"discovered", "validated"} /\ m \notin rejected

\* reject_message: the message is left VALIDATED with a rejection row.
RejectMessage(m) ==
  /\ CanReject(m)
  /\ message' = [message EXCEPT ![m] = "validated"]
  /\ rejected' = rejected \cup {m}
  /\ UNCHANGED <<delivery, rowVars, updatedAt, attempts>>

CanApprove(m) == message[m] \in ContentStates \ {"queued"}

\* approve_message walks the rest of CONTENT_TRANSITIONS in one transaction.
\* It does not look at message_rejections.
ApproveMessage(m) ==
  /\ CanApprove(m)
  /\ message' = [message EXCEPT ![m] = "queued"]
  /\ UNCHANGED <<rejected, delivery, rowVars, updatedAt, attempts>>

(***************************************************************************)
(* Delivery: a row of deliveries and its message move together.            *)
(***************************************************************************)

\* The oldest queued message, the one reserve_next_message selects.
NextQueued(m) ==
  /\ message[m] = "queued"
  /\ \A n \in Messages : message[n] = "queued" => m <= n

CanReserve(s) ==
  /\ delivery[s] = "none"
  /\ \E m \in Messages : message[m] = "queued"

\* Fault: the message stays QUEUED when it is reserved.
FaultReserveKeepsQueued(s, t) ==
  /\ delivery[s] = "none"
  /\ \E m \in Messages :
       /\ NextQueued(m)
       /\ carried' = [carried EXCEPT ![s] = m]
  /\ delivery' = [delivery EXCEPT ![s] = "reserved"]
  /\ updatedAt' = [updatedAt EXCEPT ![s] = t]
  /\ UNCHANGED <<contentVars, audio, provider, attempts>>

\* Fault: a reservation replaces the delivery row that is there.
FaultReserveReplacesRow(s, t) ==
  /\ \E m \in Messages :
       /\ NextQueued(m)
       /\ message' = [message EXCEPT ![m] = "reserved"]
       /\ carried' = [carried EXCEPT ![s] = m]
  /\ delivery' = [delivery EXCEPT ![s] = "reserved"]
  /\ updatedAt' = [updatedAt EXCEPT ![s] = t]
  /\ UNCHANGED <<rejected, audio, provider, attempts>>

\* reserve_next_message when it returns a reservation.
ReserveNextMessage(s, t) ==
  /\ delivery[s] = "none"
  /\ \E m \in Messages :
       /\ NextQueued(m)
       /\ message' = [message EXCEPT ![m] = "reserved"]
       /\ carried' = [carried EXCEPT ![s] = m]
  /\ delivery' = [delivery EXCEPT ![s] = "reserved"]
  /\ updatedAt' = [updatedAt EXCEPT ![s] = t]
  /\ UNCHANGED <<rejected, audio, provider, attempts>>

\* The two rows agree: every delivery transaction checks it before writing.
InStep(s) == delivery[s] # "none" /\ message[carried[s]] = delivery[s]

\* Fault: the message row is not updated along.
FaultMoveDeliveryOnly(s, target, t) ==
  /\ delivery' = [delivery EXCEPT ![s] = target]
  /\ updatedAt' = [updatedAt EXCEPT ![s] = t]
  /\ UNCHANGED message

\* The two UPDATEs that end every delivery transaction.
MoveBoth(s, target, t) ==
  /\ delivery' = [delivery EXCEPT ![s] = target]
  /\ message' = [message EXCEPT ![carried[s]] = target]
  /\ updatedAt' = [updatedAt EXCEPT ![s] = t]

CanTransition(s, target) ==
  InStep(s) /\ <<delivery[s], target>> \in DeliveryTransitions

TransitionDelivery(s, target, t) ==
  /\ CanTransition(s, target)
  /\ MoveBoth(s, target, t)
  /\ UNCHANGED <<rejected, rowVars, attempts>>

CanMarkAudioReady(s) == InStep(s) /\ delivery[s] = "reserved"

MarkAudioReady(s, t) ==
  /\ CanMarkAudioReady(s)
  /\ MoveBoth(s, "audio_ready", t)
  /\ audio' = [audio EXCEPT ![s] = TRUE]
  /\ UNCHANGED <<rejected, carried, provider, attempts>>

\* Fault: the attempt is recorded whatever state the delivery is in.
FaultRecordUnchecked(s, outcome, t, id) ==
  /\ InStep(s)
  /\ MoveBoth(s, outcome, t)
  /\ attempts' = [attempts EXCEPT ![s] =
       Append(@, [outcome |-> outcome, at |-> t, provider |-> id])]
  /\ provider' =
       IF outcome = "sent" THEN [provider EXCEPT ![s] = id] ELSE provider
  /\ UNCHANGED <<rejected, carried, audio>>

\* record_delivery_attempt: audit row, transition and provider id together.
\* `t` is the attempted_at the caller passes, also stored as updated_at.
RecordDeliveryAttempt(s, outcome, t, id) ==
  /\ CanTransition(s, outcome)
  /\ MoveBoth(s, outcome, t)
  /\ attempts' = [attempts EXCEPT ![s] =
       Append(@, [outcome |-> outcome, at |-> t, provider |-> id])]
  /\ provider' =
       IF outcome = "sent" THEN [provider EXCEPT ![s] = id] ELSE provider
  /\ UNCHANGED <<rejected, carried, audio>>

\* clear_audio_data: only once the delivery is SENT.
ClearAudioData(s, t) ==
  /\ delivery[s] = "sent"
  /\ audio' = [audio EXCEPT ![s] = FALSE]
  /\ updatedAt' = [updatedAt EXCEPT ![s] = t]
  /\ UNCHANGED <<contentVars, delivery, carried, provider, attempts>>

(***************************************************************************)
(* The store under an arbitrary client: any call, in any order.            *)
(***************************************************************************)

ContentCall(m) ==
  \/ CreateMessage(m)
  \/ RejectMessage(m)
  \/ ApproveMessage(m)
  \/ \E target \in ContentStates : TransitionMessage(m, target)

DeliveryCall(s, t) ==
  \/ ReserveNextMessage(s, t)
  \/ MarkAudioReady(s, t)
  \/ ClearAudioData(s, t)
  \/ \E target \in DeliveryStates : TransitionDelivery(s, target, t)
  \/ /\ Len(attempts[s]) < MaxAttempts
     /\ \E outcome \in AttemptOutcomes, id \in ProviderIds \cup {0} :
          RecordDeliveryAttempt(s, outcome, t, id)

StoreNext ==
  \/ \E m \in Messages : ContentCall(m)
  \/ \E s \in Slots, t \in Instants : DeliveryCall(s, t)

StoreSpec == StoreInit /\ [][StoreNext]_storeVars

(***************************************************************************)
(* Properties                                                              *)
(***************************************************************************)

\* The shape of the tables: column types, and NULLs where a row is missing.
StoreTypeOK ==
  /\ message \in [Messages -> {"absent"} \cup ContentStates \cup DeliveryStates]
  /\ rejected \subseteq Messages
  /\ delivery \in [Slots -> {"none"} \cup DeliveryStates]
  /\ carried \in [Slots -> Messages \cup {0}]
  /\ audio \in [Slots -> BOOLEAN]
  /\ provider \in [Slots -> Nat]
  /\ updatedAt \in [Slots -> Nat]
  /\ attempts \in [Slots -> Seq(Attempt)]

\* A delivery and the message it carries are always in the same state, so the
\* DatabaseInvariantError of transition_delivery, mark_audio_ready and
\* record_delivery_attempt cannot be raised whatever the calls and their order.
RowsInStep ==
  \A s \in Slots :
    delivery[s] # "none" =>
      carried[s] \in Messages /\ message[carried[s]] = delivery[s]

\* No message is carried by two deliveries: a text is spent on one recipient
\* and one day, although reservations, approvals and delivery transactions of
\* other slots interleave freely.  The UNIQUE constraint of
\* deliveries.message_id, which the model leaves out, is never hit.
MessageSpentOnce ==
  \A s1, s2 \in Slots :
    (s1 # s2 /\ delivery[s1] # "none" /\ delivery[s2] # "none")
      => carried[s1] # carried[s2]

\* A message past QUEUED is carried by some delivery: no reservation is ever
\* lost between the two tables.
NoOrphanedMessage ==
  \A m \in Messages :
    message[m] \in DeliveryStates =>
      \E s \in Slots : delivery[s] # "none" /\ carried[s] = m

\* The audit log never runs past a success: a SENT attempt is the last of its
\* delivery, which then is SENT with that attempt's provider id.
SentAttemptIsLast ==
  \A s \in Slots : \A i \in 1 .. Len(attempts[s]) :
    attempts[s][i].outcome = "sent" =>
      /\ i = Len(attempts[s])
      /\ delivery[s] = "sent"
      /\ provider[s] = attempts[s][i].provider
=============================================================================
