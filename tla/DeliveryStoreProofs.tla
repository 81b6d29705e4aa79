------------------------- MODULE DeliveryStoreProofs -------------------------
(***************************************************************************)
(* Proofs about the delivery tables under an arbitrary client.  The        *)
(* lemmas are about single operations, so that every client of the store   *)
(* can cite them.                                                          *)
(***************************************************************************)
EXTENDS DeliveryStore, TLAPS

\* RowsInStep is not inductive alone: a delivery transaction writes the
\* message its row carries, and must not disturb the row of another slot, so
\* it needs that no two rows carry one message; and a reservation takes a
\* queued message, which RowsInStep says no row carries.
StoreInv == StoreTypeOK /\ RowsInStep /\ MessageSpentOnce

\* Writing a row and its message together keeps every row in step.
LEMMA MoveBothKeepsRows ==
  ASSUME StoreInv, NEW s \in Slots, NEW target \in DeliveryStates, NEW t \in Nat,
         InStep(s), MoveBoth(s, target, t), carried' = carried
  PROVE  /\ RowsInStep'
         /\ MessageSpentOnce'
         /\ delivery' \in [Slots -> {"none"} \cup DeliveryStates]
         /\ message' \in
              [Messages -> {"absent"} \cup ContentStates \cup DeliveryStates]
         /\ updatedAt' \in [Slots -> Nat]
<1> USE DEF StoreInv, StoreTypeOK, MoveBoth, InStep
<1>1. carried[s] \in Messages
  BY DEF RowsInStep
<1>2. /\ delivery' \in [Slots -> {"none"} \cup DeliveryStates]
      /\ message' \in
           [Messages -> {"absent"} \cup ContentStates \cup DeliveryStates]
      /\ updatedAt' \in [Slots -> Nat]
  BY <1>1
<1>3. ASSUME NEW r \in Slots, delivery'[r] # "none"
      PROVE  carried'[r] \in Messages /\ message'[carried'[r]] = delivery'[r]
  <2>1. CASE r = s
    BY <1>1, <2>1
  <2>2. CASE r # s
    <3>1. delivery'[r] = delivery[r] /\ carried[r] \in Messages
      BY <1>3, <2>2 DEF RowsInStep
    <3>2. carried[r] # carried[s]
      BY <1>3, <2>2, <3>1 DEF MessageSpentOnce
    <3>3. QED
      BY <1>1, <1>3, <3>1, <3>2 DEF RowsInStep
  <2>3. QED
    BY <2>1, <2>2
<1>4. MessageSpentOnce'
  BY DEF MessageSpentOnce
<1>5. QED
  BY <1>2, <1>3, <1>4 DEF RowsInStep

\* Every target of DELIVERY_TRANSITIONS is a delivery state.
LEMMA TransitionTargets ==
  ASSUME NEW s \in Slots, NEW target, CanTransition(s, target)
  PROVE  target \in DeliveryStates
BY DEF CanTransition, DeliveryTransitions, DeliveryStates

LEMMA TransitionKeepsInv ==
  ASSUME StoreInv, NEW s \in Slots, NEW target, NEW t \in Nat,
         TransitionDelivery(s, target, t)
  PROVE  StoreInv'
<1>1. target \in DeliveryStates /\ InStep(s)
  BY TransitionTargets DEF TransitionDelivery, CanTransition
<1>2. QED
  BY <1>1, MoveBothKeepsRows
     DEF StoreInv, StoreTypeOK, TransitionDelivery, rowVars

LEMMA MarkAudioReadyKeepsInv ==
  ASSUME StoreInv, NEW s \in Slots, NEW t \in Nat, MarkAudioReady(s, t)
  PROVE  StoreInv'
<1>1. InStep(s) /\ "audio_ready" \in DeliveryStates
  BY DEF MarkAudioReady, CanMarkAudioReady, DeliveryStates
<1>2. QED
  BY <1>1, MoveBothKeepsRows DEF StoreInv, StoreTypeOK, MarkAudioReady

LEMMA RecordAttemptKeepsInv ==
  ASSUME StoreInv, NEW s \in Slots, NEW outcome \in AttemptOutcomes,
         NEW t \in Nat, NEW id \in Nat, RecordDeliveryAttempt(s, outcome, t, id)
  PROVE  StoreInv'
<1>1. outcome \in DeliveryStates /\ InStep(s)
  BY TransitionTargets DEF RecordDeliveryAttempt, CanTransition
<1>2. [outcome |-> outcome, at |-> t, provider |-> id] \in Attempt
  BY DEF Attempt
<1>3. attempts' \in [Slots -> Seq(Attempt)]
  BY <1>2 DEF StoreInv, StoreTypeOK, RecordDeliveryAttempt
<1>4. provider' \in [Slots -> Nat]
  BY DEF StoreInv, StoreTypeOK, RecordDeliveryAttempt
<1>5. QED
  BY <1>1, <1>3, <1>4, MoveBothKeepsRows
     DEF StoreInv, StoreTypeOK, RecordDeliveryAttempt

LEMMA ReserveKeepsInv ==
  ASSUME StoreInv, NEW s \in Slots, NEW t \in Nat, ReserveNextMessage(s, t)
  PROVE  StoreInv'
<1> USE DEF StoreInv, StoreTypeOK
<1>1. PICK m \in Messages :
        /\ message[m] = "queued"
        /\ message' = [message EXCEPT ![m] = "reserved"]
        /\ carried' = [carried EXCEPT ![s] = m]
  BY DEF ReserveNextMessage, NextQueued
<1>2. /\ delivery[s] = "none"
      /\ delivery' = [delivery EXCEPT ![s] = "reserved"]
      /\ updatedAt' = [updatedAt EXCEPT ![s] = t]
      /\ UNCHANGED <<rejected, audio, provider, attempts>>
  BY DEF ReserveNextMessage
<1>3. "reserved" \in DeliveryStates /\ "queued" \notin {"none"} \cup DeliveryStates
  BY DEF DeliveryStates
<1>4. StoreTypeOK'
  BY <1>1, <1>2, <1>3
<1>5. \A r \in Slots : delivery[r] # "none" => carried[r] # m
  BY <1>1, <1>3 DEF RowsInStep
<1>6. RowsInStep'
  BY <1>1, <1>2, <1>5 DEF RowsInStep
<1>7. MessageSpentOnce'
  BY <1>1, <1>2, <1>5 DEF MessageSpentOnce
<1>8. QED
  BY <1>4, <1>6, <1>7

LEMMA ClearAudioKeepsInv ==
  ASSUME StoreInv, NEW s \in Slots, NEW t \in Nat, ClearAudioData(s, t)
  PROVE  StoreInv'
BY DEF StoreInv, StoreTypeOK, RowsInStep, MessageSpentOnce, ClearAudioData,
       contentVars

\* A content call touches a message no delivery carries.
LEMMA ContentKeepsInv ==
  ASSUME StoreInv, NEW m \in Messages, NEW state \in ContentStates,
         message[m] \in {"absent"} \cup ContentStates,
         message' = [message EXCEPT ![m] = state],
         rejected' \in SUBSET Messages,
         UNCHANGED <<delivery, rowVars, updatedAt, attempts>>
  PROVE  StoreInv'
<1> USE DEF StoreInv, StoreTypeOK, rowVars
<1>1. StoreTypeOK'
  OBVIOUS
<1>2. \A s \in Slots : delivery[s] # "none" => carried[s] # m
  BY DEF RowsInStep, ContentStates, DeliveryStates
<1>3. RowsInStep' /\ MessageSpentOnce'
  BY <1>2 DEF RowsInStep, MessageSpentOnce
<1>4. QED
  BY <1>1, <1>3

LEMMA ApproveKeepsInv ==
  ASSUME StoreInv, NEW m \in Messages, ApproveMessage(m)
  PROVE  StoreInv'
BY ContentKeepsInv
   DEF ApproveMessage, CanApprove, ContentStates, StoreInv, StoreTypeOK

LEMMA ContentCallKeepsInv ==
  ASSUME StoreInv, NEW m \in Messages, ContentCall(m)
  PROVE  StoreInv'
<1>1. CASE CreateMessage(m)
  BY <1>1, ContentKeepsInv
     DEF CreateMessage, ContentStates, StoreInv, StoreTypeOK
<1>2. CASE RejectMessage(m)
  BY <1>2, ContentKeepsInv
     DEF RejectMessage, CanReject, ContentStates, StoreInv, StoreTypeOK
<1>3. CASE ApproveMessage(m)
  BY <1>3, ApproveKeepsInv
<1>4. ASSUME NEW target \in ContentStates, TransitionMessage(m, target)
      PROVE  StoreInv'
  BY <1>4, ContentKeepsInv
     DEF TransitionMessage, ContentTransitions, ContentStates, StoreInv,
         StoreTypeOK
<1>5. QED
  BY <1>1, <1>2, <1>3, <1>4 DEF ContentCall

LEMMA DeliveryCallKeepsInv ==
  ASSUME StoreInv, NEW s \in Slots, NEW t \in Instants, DeliveryCall(s, t)
  PROVE  StoreInv'
<1>1. t \in Nat /\ \A id \in ProviderIds \cup {0} : id \in Nat
  BY StoreAssumption
<1>2. QED
  BY <1>1, ReserveKeepsInv, MarkAudioReadyKeepsInv, ClearAudioKeepsInv,
     TransitionKeepsInv, RecordAttemptKeepsInv DEF DeliveryCall

\* A step that leaves the tables alone keeps their invariant.
LEMMA StoreUnchanged ==
  ASSUME StoreInv, UNCHANGED storeVars
  PROVE  StoreInv'
BY DEF StoreInv, StoreTypeOK, RowsInStep, MessageSpentOnce, storeVars

LEMMA StoreInitInv ==
  ASSUME message \in [Messages -> ContentStates \cup {"absent"}], NoDeliveries
  PROVE  StoreInv
<1>1. StoreTypeOK
  BY DEF NoDeliveries, StoreTypeOK
<1>2. QED
  BY <1>1 DEF NoDeliveries, StoreInv, RowsInStep, MessageSpentOnce

\* Whatever calls are made on the store, in whatever order, a delivery and its
\* message stay in the same state and no message is spent twice.
THEOREM StoreCorrect ==
  StoreSpec => [](StoreTypeOK /\ RowsInStep /\ MessageSpentOnce)
<1>1. StoreInit => StoreInv
  BY StoreInitInv DEF StoreInit
<1>2. StoreInv /\ [StoreNext]_storeVars => StoreInv'
  BY ContentCallKeepsInv, DeliveryCallKeepsInv, StoreUnchanged DEF StoreNext
<1>3. QED
  BY <1>1, <1>2, PTL DEF StoreSpec, StoreInv

\* A call on a content row changes no delivery and no message past QUEUED.
LEMMA ContentCallFrame ==
  ASSUME StoreInv, NEW m \in Messages, ContentCall(m)
  PROVE  /\ \A n \in Messages : message'[n] \in DeliveryStates
                                   => message[n] \in DeliveryStates
         /\ UNCHANGED <<delivery, carried, provider, attempts>>
<1>1. message \in [Messages -> {"absent"} \cup ContentStates \cup DeliveryStates]
  BY DEF StoreInv, StoreTypeOK
<1>2. \E state \in ContentStates : message' = [message EXCEPT ![m] = state]
  BY DEF ContentCall, CreateMessage, RejectMessage, ApproveMessage,
         TransitionMessage, ContentStates
<1>3. \A n \in Messages : message'[n] \in DeliveryStates
                             => message[n] \in DeliveryStates
  BY <1>1, <1>2 DEF ContentStates, DeliveryStates
<1>4. UNCHANGED <<delivery, carried, provider, attempts>>
  BY DEF ContentCall, CreateMessage, RejectMessage, ApproveMessage,
         TransitionMessage, rowVars
<1>5. QED
  BY <1>3, <1>4

\* Moving a row and its message together leaves no message behind.
LEMMA MoveBothKeepsCarriers ==
  ASSUME StoreInv, NoOrphanedMessage, NEW s \in Slots,
         NEW target \in DeliveryStates, NEW t \in Nat,
         InStep(s), MoveBoth(s, target, t), carried' = carried
  PROVE  NoOrphanedMessage'
<1>1. /\ delivery \in [Slots -> {"none"} \cup DeliveryStates]
      /\ message \in [Messages -> {"absent"} \cup ContentStates \cup DeliveryStates]
      /\ carried[s] \in Messages
  BY DEF StoreInv, StoreTypeOK, RowsInStep, InStep
<1>2. /\ delivery' = [delivery EXCEPT ![s] = target]
      /\ message' = [message EXCEPT ![carried[s]] = target]
  BY DEF MoveBoth
<1>3. \A r \in Slots : delivery[r] # "none" => delivery'[r] # "none"
  BY <1>1, <1>2 DEF DeliveryStates
<1>4. delivery'[s] # "none"
  BY <1>1, <1>2 DEF DeliveryStates
<1>5. QED
  BY <1>1, <1>2, <1>3, <1>4 DEF NoOrphanedMessage

LEMMA DeliveryCallKeepsCarriers ==
  ASSUME StoreInv, NoOrphanedMessage, NEW s \in Slots, NEW t \in Instants,
         DeliveryCall(s, t)
  PROVE  NoOrphanedMessage'
<1>1. t \in Nat
  BY StoreAssumption
<1>2. CASE ReserveNextMessage(s, t)
  <2>1. PICK m \in Messages :
          /\ message' = [message EXCEPT ![m] = "reserved"]
          /\ carried' = [carried EXCEPT ![s] = m]
    BY <1>2 DEF ReserveNextMessage
  <2>2. /\ delivery[s] = "none"
        /\ delivery' = [delivery EXCEPT ![s] = "reserved"]
    BY <1>2 DEF ReserveNextMessage
  <2>3. /\ delivery \in [Slots -> {"none"} \cup DeliveryStates]
        /\ carried \in [Slots -> Messages \cup {0}]
        /\ message \in
             [Messages -> {"absent"} \cup ContentStates \cup DeliveryStates]
    BY DEF StoreInv, StoreTypeOK
  <2>4. /\ delivery'[s] # "none" /\ carried'[s] = m
        /\ \A r \in Slots : delivery[r] # "none" =>
             delivery'[r] # "none" /\ carried'[r] = carried[r]
    BY <2>1, <2>2, <2>3
  <2>5. \A n \in Messages : n # m => message'[n] = message[n]
    BY <2>1, <2>3
  <2>6. QED
    BY <2>4, <2>5 DEF NoOrphanedMessage
<1>3. CASE MarkAudioReady(s, t)
  BY <1>1, <1>3, MoveBothKeepsCarriers
     DEF MarkAudioReady, CanMarkAudioReady, DeliveryStates
<1>4. CASE ClearAudioData(s, t)
  BY <1>4 DEF ClearAudioData, contentVars, NoOrphanedMessage
<1>5. CASE \E target \in DeliveryStates : TransitionDelivery(s, target, t)
  BY <1>1, <1>5, MoveBothKeepsCarriers DEF TransitionDelivery, CanTransition, rowVars
<1>6. CASE \E outcome \in AttemptOutcomes, id \in ProviderIds \cup {0} :
             RecordDeliveryAttempt(s, outcome, t, id)
  BY <1>1, <1>6, MoveBothKeepsCarriers
     DEF RecordDeliveryAttempt, CanTransition, AttemptOutcomes, DeliveryStates
<1>7. QED
  BY <1>2, <1>3, <1>4, <1>5, <1>6 DEF DeliveryCall

\* Whatever calls are made on the store, no message past QUEUED is without the
\* delivery that carries it.
THEOREM NothingIsOrphaned == StoreSpec => []NoOrphanedMessage
<1> DEFINE Inv == StoreInv /\ NoOrphanedMessage
<1>1. StoreInit => Inv
  BY StoreInitInv DEF StoreInit, NoOrphanedMessage, DeliveryStates
<1>2. Inv /\ [StoreNext]_storeVars => Inv'
  <2> SUFFICES ASSUME Inv, [StoreNext]_storeVars PROVE Inv'
    OBVIOUS
  <2>1. CASE UNCHANGED storeVars
    BY <2>1, StoreUnchanged DEF storeVars, NoOrphanedMessage
  <2>2. ASSUME NEW m \in Messages, ContentCall(m) PROVE Inv'
    BY <2>2, ContentCallKeepsInv, ContentCallFrame DEF NoOrphanedMessage
  <2>3. ASSUME NEW s \in Slots, NEW t \in Instants, DeliveryCall(s, t) PROVE Inv'
    BY <2>3, DeliveryCallKeepsInv, DeliveryCallKeepsCarriers
  <2>4. QED
    BY <2>1, <2>2, <2>3 DEF StoreNext
<1>3. QED
  BY <1>1, <1>2, PTL DEF StoreSpec

\* SENT has no way out, so nothing is recorded after a success.
LEMMA DeliveryCallKeepsLog ==
  ASSUME StoreInv, SentAttemptIsLast, NEW s \in Slots, NEW t \in Instants,
         DeliveryCall(s, t)
  PROVE  SentAttemptIsLast'
<1>1. /\ delivery \in [Slots -> {"none"} \cup DeliveryStates]
      /\ provider \in [Slots -> Nat] /\ attempts \in [Slots -> Seq(Attempt)]
  BY DEF StoreInv, StoreTypeOK
<1>2. CASE /\ UNCHANGED <<provider, attempts>>
           /\ \A r \in Slots : delivery[r] = "sent" => delivery'[r] = "sent"
  BY <1>2 DEF SentAttemptIsLast
<1>3. CASE ReserveNextMessage(s, t) \/ MarkAudioReady(s, t) \/ ClearAudioData(s, t)
  <2>1. UNCHANGED <<provider, attempts>>
    BY <1>3 DEF ReserveNextMessage, MarkAudioReady, ClearAudioData
  <2>2. \/ delivery' = delivery
        \/ /\ delivery[s] # "sent"
           /\ \E state : delivery' = [delivery EXCEPT ![s] = state]
    BY <1>3 DEF ReserveNextMessage, MarkAudioReady, CanMarkAudioReady, MoveBoth,
                ClearAudioData
  <2>3. QED
    BY <1>1, <1>2, <2>1, <2>2
<1>4. CASE \E target \in DeliveryStates : TransitionDelivery(s, target, t)
  <2>1. UNCHANGED <<provider, attempts>>
    BY <1>4 DEF TransitionDelivery, rowVars
  <2>2. /\ delivery[s] # "sent"
        /\ \E state : delivery' = [delivery EXCEPT ![s] = state]
    BY <1>4 DEF TransitionDelivery, CanTransition, DeliveryTransitions, MoveBoth
  <2>3. QED
    BY <1>1, <1>2, <2>1, <2>2
<1>5. CASE \E outcome \in AttemptOutcomes, id \in ProviderIds \cup {0} :
             RecordDeliveryAttempt(s, outcome, t, id)
  <2>1. PICK outcome \in AttemptOutcomes, id \in ProviderIds \cup {0} :
          RecordDeliveryAttempt(s, outcome, t, id)
    BY <1>5
  <2> DEFINE row == [outcome |-> outcome, at |-> t, provider |-> id]
             n == Len(attempts[s])
  <2>2. /\ delivery[s] # "sent"
        /\ delivery' = [delivery EXCEPT ![s] = outcome]
        /\ attempts' = [attempts EXCEPT ![s] = Append(@, row)]
        /\ provider' = IF outcome = "sent" THEN [provider EXCEPT ![s] = id]
                                           ELSE provider
    BY <2>1 DEF RecordDeliveryAttempt, CanTransition, DeliveryTransitions, MoveBoth
  <2>3. attempts[s] \in Seq(Attempt) /\ n \in Nat
    BY <1>1
  <2>4. row \in Attempt
    BY <2>1, StoreAssumption DEF Attempt
  <2>5. /\ attempts'[s] = Append(attempts[s], row)
        /\ Len(attempts'[s]) = n + 1 /\ attempts'[s][n + 1] = row
        /\ \A i \in 1 .. n : attempts'[s][i] = attempts[s][i]
    BY <1>1, <2>2, <2>3, <2>4
  <2>6. \A i \in 1 .. n : attempts[s][i].outcome # "sent"
    BY <2>2 DEF SentAttemptIsLast
  <2>7. ASSUME NEW i \in 1 .. Len(attempts'[s]), attempts'[s][i].outcome = "sent"
        PROVE  /\ i = Len(attempts'[s]) /\ delivery'[s] = "sent"
               /\ provider'[s] = attempts'[s][i].provider
    <3>1. i = n + 1
      BY <2>3, <2>5, <2>6, <2>7
    <3>2. outcome = "sent" /\ attempts'[s][i] = row
      BY <2>5, <2>7, <3>1
    <3>3. QED
      BY <1>1, <2>2, <2>5, <3>1, <3>2
  <2>8. \A r \in Slots : r # s =>
          /\ attempts'[r] = attempts[r] /\ delivery'[r] = delivery[r]
          /\ provider'[r] = provider[r]
    BY <1>1, <2>2
  <2>9. QED
    BY <2>7, <2>8 DEF SentAttemptIsLast
<1>6. QED
  BY <1>3, <1>4, <1>5 DEF DeliveryCall

\* Whatever calls are made on the store, a successful attempt is the last one of
\* its delivery and its provider id stays with the row.
THEOREM SuccessIsFinal == StoreSpec => []SentAttemptIsLast
<1> DEFINE Inv == StoreInv /\ SentAttemptIsLast
<1>1. StoreInit => Inv
  <2>1. StoreInit => StoreInv
    BY StoreInitInv DEF StoreInit
  <2>2. StoreInit => \A s \in Slots : attempts[s] = <<>>
    BY DEF StoreInit, NoDeliveries
  <2>3. QED
    BY <2>1, <2>2 DEF SentAttemptIsLast
<1>2. Inv /\ [StoreNext]_storeVars => Inv'
  <2> SUFFICES ASSUME Inv, [StoreNext]_storeVars PROVE Inv'
    OBVIOUS
  <2>1. CASE UNCHANGED storeVars
    BY <2>1, StoreUnchanged DEF storeVars, SentAttemptIsLast
  <2>2. ASSUME NEW m \in Messages, ContentCall(m) PROVE Inv'
    BY <2>2, ContentCallKeepsInv, ContentCallFrame DEF SentAttemptIsLast
  <2>3. ASSUME NEW s \in Slots, NEW t \in Instants, DeliveryCall(s, t) PROVE Inv'
    BY <2>3, DeliveryCallKeepsInv, DeliveryCallKeepsLog
  <2>4. QED
    BY <2>1, <2>2, <2>3 DEF StoreNext
<1>3. QED
  BY <1>1, <1>2, PTL DEF StoreSpec
=============================================================================
