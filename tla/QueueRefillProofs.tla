--------------------------- MODULE QueueRefillProofs ---------------------------
(***************************************************************************)
(* Proofs about the queue refill, for any number of messages, refills,     *)
(* prohibited texts and slots, and any target.                             *)
(***************************************************************************)
EXTENDS QueueRefill, DeliveryStoreProofs, FiniteSetTheorems

RefillInv == StoreInv /\ RefillTypeOK

MessageStates == {"absent"} \cup ContentStates \cup DeliveryStates

(***************************************************************************)
(* Generation                                                              *)
(***************************************************************************)

\* What generators do to the messages and their texts.
LEMMA GenerationStep ==
  ASSUME StoreInv, GenerationTypeOK, GenerationNext
  PROVE  /\ StoreInv' /\ GenerationTypeOK'
         /\ \/ UNCHANGED otherVars \/ UNCHANGED <<storeVars, text>>
            \/ \E m \in Messages, x \in Texts :
                 /\ message[m] = "absent" /\ UNCHANGED rejected
                 /\ message' = [message EXCEPT ![m] = "discovered"]
                 /\ text' = [text EXCEPT ![m] = x]
                 /\ Duplicates(x) = {}
<1>1. PICK g \in Generators :
        Generate(g) \/ EvaluateAndRecord(g) \/ CrashGenerator(g)
  BY DEF GenerationNext
<1>2. /\ text \in [Messages -> Texts \cup {""}]
      /\ draft \in [Generators -> Texts \cup {""}]
      /\ message \in [Messages -> MessageStates]
  BY DEF GenerationTypeOK, StoreInv, StoreTypeOK, MessageStates
<1>3. CASE UNCHANGED <<storeVars, text>>
  <2>1. StoreInv'
    BY <1>3, StoreUnchanged
  <2>2. draft' \in [Generators -> Texts \cup {""}]
    BY <1>1, <1>2 DEF Generate, EvaluateAndRecord, CrashGenerator, Acceptable
  <2>3. QED
    BY <1>3, <2>1, <2>2 DEF GenerationTypeOK, storeVars
<1>4. CASE \E m \in Messages :
             /\ CreateMessage(m) /\ text' = [text EXCEPT ![m] = draft[g]]
             /\ EvaluateAndRecord(g) /\ Duplicates(draft[g]) = {}
  <2>1. PICK m \in Messages :
          /\ CreateMessage(m) /\ text' = [text EXCEPT ![m] = draft[g]]
          /\ EvaluateAndRecord(g) /\ Duplicates(draft[g]) = {}
    BY <1>4
  <2>2. draft[g] \in Texts /\ draft' = [draft EXCEPT ![g] = ""]
    BY <1>2, <2>1 DEF EvaluateAndRecord
  <2>3. StoreInv'
    BY <2>1, ContentCallKeepsInv DEF ContentCall
  <2>4. /\ message[m] = "absent" /\ UNCHANGED rejected
        /\ message' = [message EXCEPT ![m] = "discovered"]
    BY <2>1 DEF CreateMessage
  <2>5. GenerationTypeOK'
    BY <1>2, <2>1, <2>2, <2>4, GenerationAssumption DEF GenerationTypeOK
  <2>6. QED
    BY <2>1, <2>2, <2>3, <2>4, <2>5
<1>5. QED
  BY <1>1, <1>3, <1>4 DEF Generate, EvaluateAndRecord, CrashGenerator

(***************************************************************************)
(* Types, and the tables under the refill                                  *)
(***************************************************************************)

LEMMA ContinueTyped ==
  ASSUME RefillTypeOK, NEW w \in Refillers, NEW turn \in Refill,
         turn.pc \in {"judge", "apply"} <=> turn.candidate \in Messages,
         Continue(w, turn), StoreInv', GenerationTypeOK'
  PROVE  RefillInv'
<1>1. refill' = [refill EXCEPT ![w] = turn] /\ UNCHANGED shared
  BY DEF Continue
<1>2. refill' \in [Refillers -> Refill]
  BY <1>1 DEF RefillTypeOK
<1>3. \A v \in Refillers :
        refill'[v].pc \in {"judge", "apply"} <=> refill'[v].candidate \in Messages
  BY <1>1 DEF RefillTypeOK
<1>4. QED
  BY <1>1, <1>2, <1>3 DEF RefillInv, RefillTypeOK, StoreInv

\* The two records a refill returns to.
LEMMA RestTyped ==
  /\ Finished \in Refill /\ Finished.pc = "idle"
  /\ Counting \in Refill /\ Counting.pc = "count"
  /\ Finished.candidate = 0 /\ Counting.candidate = 0
  /\ Finished.candidate \notin Messages /\ Counting.candidate \notin Messages
BY GenerationAssumption DEF Finished, Counting, Refill, RefillSteps

\* What Pick makes of a refill that finds a candidate.
LEMMA TakeTyped ==
  ASSUME RefillInv, NEW w \in Refillers, NEW m \in Messages, Take(w, m)
  PROVE  /\ refill'[w] = [refill[w] EXCEPT !.pc = "judge", !.candidate = m]
         /\ refill'[w] \in Refill
         /\ refill'[w].pc = "judge" /\ refill'[w].candidate = m
         /\ \A v \in Refillers : v # w => refill'[v] = refill[v]
         /\ refill' \in [Refillers -> Refill]
         /\ shared \subseteq shared' /\ shared' \subseteq shared \cup {m}
         /\ m \notin shared' => Holders(m) = {}
<1>1. /\ refill \in [Refillers -> Refill] /\ refill[w] \in Refill
      /\ refill' = [refill EXCEPT ![w] =
                      [refill[w] EXCEPT !.pc = "judge", !.candidate = m]]
  BY DEF Take, RefillInv, RefillTypeOK
<1>2. [refill[w] EXCEPT !.pc = "judge", !.candidate = m] \in Refill
  BY <1>1 DEF Refill, RefillSteps
<1>3. QED
  BY <1>1, <1>2 DEF Take, Refill

LEMMA ApplyKeepsStore ==
  ASSUME RefillInv, NEW w \in Refillers, Apply(w)
  PROVE  StoreInv' /\ GenerationTypeOK'
<1>1. refill[w].candidate \in Messages
  BY DEF Apply, RefillInv, RefillTypeOK
<1>2. ContentCall(refill[w].candidate)
  BY DEF Apply, ContentCall
<1>3. \E state \in {"queued", "validated"} :
        message' = [message EXCEPT ![refill[w].candidate] = state]
  BY DEF Apply, ApproveMessage, RejectMessage
<1>4. message[refill[w].candidate] # "absent"
  BY DEF Apply, ApproveMessage, RejectMessage, CanApprove, CanReject, ContentStates
<1>5. message \in [Messages -> MessageStates]
  BY DEF RefillInv, StoreInv, StoreTypeOK, MessageStates
<1>6. UNCHANGED <<text, draft>> /\ GenerationTypeOK
  BY DEF Apply, generationVars, RefillInv, RefillTypeOK
<1>7. \A m \in Messages : message'[m] = "absent" <=> message[m] = "absent"
  BY <1>1, <1>3, <1>4, <1>5
<1>8. GenerationTypeOK'
  BY <1>6, <1>7 DEF GenerationTypeOK
<1>9. QED
  BY <1>1, <1>2, <1>8, ContentCallKeepsInv DEF RefillInv

LEMMA StepKeepsTypes ==
  ASSUME RefillInv, NEW w \in Refillers,
         BeginRefill(w) \/ RefillStep(w) \/ CrashRefill(w)
  PROVE  RefillInv'
<1>1. /\ refill[w] \in Refill /\ RefillTypeOK
      /\ refill[w].pc \in {"judge", "apply"} <=> refill[w].candidate \in Messages
  BY DEF RefillInv, RefillTypeOK
<1>2. ASSUME UNCHANGED otherVars PROVE StoreInv' /\ GenerationTypeOK'
  <2>1. StoreInv'
    BY <1>2, StoreUnchanged DEF RefillInv, otherVars
  <2>2. UNCHANGED <<message, text, draft>>
    BY <1>2 DEF otherVars, storeVars, generationVars
  <2>3. QED
    BY <1>1, <2>1, <2>2 DEF RefillTypeOK, GenerationTypeOK
<1>3. CASE BeginRefill(w)
  BY <1>1, <1>2, <1>3, ContinueTyped, RestTyped DEF BeginRefill
<1>4. CASE CrashRefill(w)
  BY <1>1, <1>2, <1>4, ContinueTyped, RestTyped DEF CrashRefill
<1>5. CASE Count(w)
  <2>1. [refill[w] EXCEPT !.pc = "pick"] \in Refill
    BY <1>1 DEF Refill, RefillSteps
  <2>2. /\ [refill[w] EXCEPT !.pc = "pick"].pc = "pick"
        /\ [refill[w] EXCEPT !.pc = "pick"].candidate \notin Messages
    BY <1>1, <1>5 DEF Refill, Count
  <2>3. CASE Continue(w, Finished)
    BY <1>1, <1>2, <1>5, <2>3, ContinueTyped, RestTyped DEF Count
  <2>4. CASE Continue(w, [refill[w] EXCEPT !.pc = "pick"])
    BY <1>1, <1>2, <1>5, <2>1, <2>2, <2>4, ContinueTyped DEF Count
  <2>5. QED
    BY <1>5, <2>3, <2>4 DEF Count
<1>6. CASE Pick(w)
  <2>1. CASE Continue(w, Finished)
    BY <1>1, <1>2, <1>6, <2>1, ContinueTyped, RestTyped DEF Pick
  <2>2. ASSUME NEW m \in Messages, Take(w, m) PROVE RefillInv'
    <3>1. /\ refill' \in [Refillers -> Refill]
          /\ refill'[w].pc = "judge" /\ refill'[w].candidate = m
          /\ \A v \in Refillers : v # w => refill'[v] = refill[v]
          /\ shared' \subseteq shared \cup {m}
      BY <2>2, TakeTyped
    <3>2. StoreInv' /\ GenerationTypeOK'
      BY <1>2, <1>6 DEF Pick
    <3>3. \A v \in Refillers :
            refill'[v].pc \in {"judge", "apply"}
              <=> refill'[v].candidate \in Messages
      BY <1>1, <3>1 DEF RefillTypeOK
    <3>4. QED
      BY <1>1, <3>1, <3>2, <3>3 DEF RefillInv, RefillTypeOK, StoreInv
  <2>3. QED
    BY <1>6, <2>1, <2>2 DEF Pick, Unjudged
<1>7. CASE Judge(w)
  <2>1. PICK d \in {"approve", "reject"} : Decide(w, d)
    BY <1>7 DEF Judge, DecisionOn
  <2>2. refill[w].candidate \in Messages
    BY <1>1, <1>7 DEF Judge
  <2>3. [refill[w] EXCEPT !.pc = "apply", !.decision = d] \in Refill
    BY <1>1 DEF Refill, RefillSteps
  <2>4. /\ [refill[w] EXCEPT !.pc = "apply", !.decision = d].candidate
             = refill[w].candidate
        /\ [refill[w] EXCEPT !.pc = "apply", !.decision = d].pc = "apply"
    BY <1>1 DEF Refill
  <2>5. QED
    BY <1>1, <1>2, <1>7, <2>1, <2>2, <2>3, <2>4, ContinueTyped
       DEF Judge, Decide
<1>8. CASE Apply(w)
  BY <1>1, <1>8, ApplyKeepsStore, ContinueTyped, RestTyped DEF Apply
<1>9. CASE JudgeRaises(w) \/ ApplyRaises(w)
  BY <1>1, <1>2, <1>9, ContinueTyped, RestTyped DEF JudgeRaises, ApplyRaises
<1>10. QED
  BY <1>3, <1>4, <1>5, <1>6, <1>7, <1>8, <1>9 DEF RefillStep

LEMMA OthersKeepTypes ==
  ASSUME RefillInv, Discover \/ Consume
  PROVE  RefillInv'
<1>1. GenerationTypeOK /\ UNCHANGED <<refill, shared>>
  BY DEF RefillInv, RefillTypeOK, Discover, Consume
<1>2. StoreInv' /\ GenerationTypeOK'
  <2>1. CASE Discover
    BY <1>1, <2>1, GenerationStep DEF Discover, RefillInv
  <2>2. CASE Consume
    <3>1. StoreInv'
      BY <2>2, ReserveKeepsInv, StoreAssumption DEF Consume, RefillInv
    <3>2. PICK m \in Messages :
            /\ message[m] = "queued"
            /\ message' = [message EXCEPT ![m] = "reserved"]
            /\ UNCHANGED <<text, draft>>
      BY <2>2 DEF Consume, ReserveNextMessage, NextQueued, generationVars
    <3>3. message \in [Messages -> MessageStates]
      BY DEF RefillInv, StoreInv, StoreTypeOK, MessageStates
    <3>4. GenerationTypeOK'
      BY <1>1, <3>2, <3>3 DEF GenerationTypeOK
    <3>5. QED
      BY <3>1, <3>4
  <2>3. QED
    BY <2>1, <2>2
<1>3. QED
  BY <1>1, <1>2 DEF RefillInv, RefillTypeOK, StoreInv

LEMMA RefillInvHolds == RefillSpec => []RefillInv
<1>1. RefillInit => RefillInv
  <2> SUFFICES ASSUME RefillInit PROVE RefillInv
    OBVIOUS
  <2>1. StoreInv
    BY StoreInitInv DEF RefillInit, StoreInit
  <2>2. GenerationTypeOK
    BY DEF RefillInit, StoreInit, GenerationInit, GenerationTypeOK
  <2>3. QED
    BY <2>1, <2>2, RestTyped DEF RefillInit, RefillInv, RefillTypeOK, StoreInv
<1>2. RefillInv /\ [RefillNext]_refillVars => RefillInv'
  <2> SUFFICES ASSUME RefillInv, [RefillNext]_refillVars PROVE RefillInv'
    OBVIOUS
  <2>1. CASE UNCHANGED refillVars
    <3>1. StoreInv'
      BY <2>1, StoreUnchanged DEF RefillInv, refillVars
    <3>2. UNCHANGED <<message, text, draft, refill, shared>>
      BY <2>1 DEF refillVars, storeVars, generationVars
    <3>3. QED
      BY <3>1, <3>2 DEF RefillInv, RefillTypeOK, GenerationTypeOK, StoreInv
  <2>2. CASE RefillNext
    BY <2>2, StepKeepsTypes, OthersKeepTypes DEF RefillNext
  <2>3. QED
    BY <2>1, <2>2
<1>3. QED
  BY <1>1, <1>2, PTL DEF RefillSpec

\* The variables keep their types and the tables stay consistent, however many
\* refills overlap with the reservations of the daily send.
THEOREM RefillTypesHold == RefillSpec => [](RefillTypeOK /\ RowsInStep)
<1>1. RefillInv => RefillTypeOK /\ RowsInStep
  BY DEF RefillInv, StoreInv
<1>2. QED
  BY <1>1, RefillInvHolds, PTL

(***************************************************************************)
(* What the steps of a refill come to                                      *)
(***************************************************************************)

\* A refill at rest between two candidates, or counting.
Resting(w) ==
  /\ UNCHANGED <<storeVars, shared>>
  /\ refill'[w].candidate \notin Messages
  /\ refill'[w].pc # "judge" /\ refill'[w].pc # "apply"

\* The only step of a refill that changes the tables is Apply.
LEMMA StepEffect ==
  ASSUME RefillInv, NEW w \in Refillers,
         BeginRefill(w) \/ RefillStep(w) \/ CrashRefill(w)
  PROVE  /\ UNCHANGED <<text, draft>>
         /\ refill' \in [Refillers -> Refill]
         /\ \A v \in Refillers : v # w => refill'[v] = refill[v]
         /\ \/ Resting(w)
            \/ UNCHANGED storeVars /\ \E m \in Unjudged : Take(w, m)
            \/ UNCHANGED storeVars /\ Judge(w)
            \/ Apply(w) /\ refill'[w] = Counting
<1>1. refill[w] \in Refill /\ refill \in [Refillers -> Refill]
  BY DEF RefillInv, RefillTypeOK
<1>2. refill' \in [Refillers -> Refill]
  BY StepKeepsTypes DEF RefillInv, RefillTypeOK
<1>3. UNCHANGED <<text, draft>>
  BY DEF BeginRefill, RefillStep, CrashRefill, Count, Pick, Judge, JudgeRaises,
         Apply, ApplyRaises, otherVars, generationVars
<1>4. CASE BeginRefill(w) \/ CrashRefill(w) \/ JudgeRaises(w) \/ ApplyRaises(w)
             \/ Count(w)
  <2>1. /\ [refill[w] EXCEPT !.pc = "pick"].pc = "pick"
        /\ [refill[w] EXCEPT !.pc = "pick"].candidate = refill[w].candidate
    BY <1>1 DEF Refill
  <2>2. refill[w].pc = "count" => refill[w].candidate \notin Messages
    BY DEF RefillInv, RefillTypeOK
  <2>3. PICK turn :
          /\ Continue(w, turn) /\ turn.candidate \notin Messages
          /\ turn.pc # "judge" /\ turn.pc # "apply"
    BY <1>4, <2>1, <2>2, RestTyped
       DEF BeginRefill, CrashRefill, JudgeRaises, ApplyRaises, Count
  <2>4. /\ refill'[w] = turn /\ UNCHANGED shared
        /\ \A v \in Refillers : v # w => refill'[v] = refill[v]
    BY <1>1, <2>3 DEF Continue
  <2>5. UNCHANGED storeVars
    BY <1>4 DEF BeginRefill, CrashRefill, JudgeRaises, ApplyRaises, Count,
                otherVars
  <2>6. Resting(w)
    BY <2>3, <2>4, <2>5 DEF Resting
  <2>7. QED
    BY <1>2, <1>3, <2>4, <2>6
<1>5. CASE Pick(w)
  <2>1. UNCHANGED storeVars
    BY <1>5 DEF Pick, otherVars
  <2>2. CASE Continue(w, Finished)
    <3>1. /\ refill'[w] = Finished /\ UNCHANGED shared
          /\ \A v \in Refillers : v # w => refill'[v] = refill[v]
      BY <1>1, <2>2 DEF Continue
    <3>2. Resting(w)
      BY <2>1, <3>1, RestTyped DEF Resting
    <3>3. QED
      BY <1>2, <1>3, <3>1, <3>2
  <2>3. CASE \E m \in Unjudged : Take(w, m)
    BY <1>2, <1>3, <2>1, <2>3, TakeTyped DEF Unjudged
  <2>4. QED
    BY <1>5, <2>2, <2>3 DEF Pick
<1>6. CASE Judge(w)
  <2>1. \A v \in Refillers : v # w => refill'[v] = refill[v]
    BY <1>1, <1>6 DEF Judge, Decide, Continue
  <2>2. QED
    BY <1>2, <1>3, <1>6, <2>1 DEF Judge, otherVars
<1>7. CASE Apply(w)
  BY <1>1, <1>2, <1>3, <1>7 DEF Apply, Continue
<1>8. QED
  BY <1>4, <1>5, <1>6, <1>7 DEF RefillStep

\* A judgement: the gates approve nothing that is prohibited.
LEMMA JudgeEffect ==
  ASSUME RefillInv, NEW w \in Refillers, Judge(w)
  PROVE  /\ refill'[w].pc = "apply" /\ refill[w].pc = "judge"
         /\ refill'[w].candidate = refill[w].candidate
         /\ refill'[w].decision = "approve"
              => text[refill[w].candidate] \notin Prohibited
         /\ UNCHANGED shared
<1>1. refill[w] \in Refill /\ refill \in [Refillers -> Refill]
  BY DEF RefillInv, RefillTypeOK
<1>2. PICK d \in {"approve", "reject"} :
        /\ Decide(w, d)
        /\ d = "approve" => text[refill[w].candidate] \notin Prohibited
  BY DEF Judge, DecisionOn
<1>3. /\ refill'[w] = [refill[w] EXCEPT !.pc = "apply", !.decision = d]
      /\ UNCHANGED shared
  BY <1>1, <1>2 DEF Decide, Continue
<1>4. QED
  BY <1>1, <1>2, <1>3 DEF Judge, Refill

\* A decision: one recorded message is queued, or stays validated and rejected.
LEMMA ApplyEffect ==
  ASSUME RefillInv, NEW w \in Refillers, Apply(w)
  PROVE  LET m == refill[w].candidate IN
         /\ m \in Messages /\ message[m] # "absent" /\ refill[w].pc = "apply"
         /\ UNCHANGED shared
         /\ \A n \in Messages : n # m => message'[n] = message[n]
         /\ \/ /\ refill[w].decision = "approve"
               /\ message'[m] = "queued" /\ UNCHANGED rejected
            \/ message'[m] = "validated" /\ rejected' = rejected \cup {m}
<1>1. /\ refill[w].candidate \in Messages
      /\ message \in [Messages -> MessageStates]
  BY DEF Apply, RefillInv, RefillTypeOK, StoreTypeOK, MessageStates
<1>2. QED
  BY <1>1 DEF Apply, Continue, ApproveMessage, RejectMessage, CanApprove,
              CanReject, ContentStates

\* A generator or the daily send: a new row, or a queued message reserved.
LEMMA OthersEffect ==
  ASSUME RefillInv, Discover \/ Consume
  PROVE  /\ UNCHANGED <<refill, shared>>
         /\ \/ UNCHANGED <<message, rejected, text>>
            \/ \E m \in Messages :
                 /\ \A n \in Messages :
                      n # m => message'[n] = message[n] /\ text'[n] = text[n]
                 /\ UNCHANGED rejected
                 /\ \/ /\ message[m] = "absent" /\ message'[m] = "discovered"
                       /\ text'[m] \in Texts /\ Duplicates(text'[m]) = {}
                    \/ /\ message[m] = "queued" /\ message'[m] = "reserved"
                       /\ text'[m] = text[m]
<1>1. /\ message \in [Messages -> MessageStates]
      /\ text \in [Messages -> Texts \cup {""}]
  BY DEF RefillInv, RefillTypeOK, StoreTypeOK, MessageStates, GenerationTypeOK
<1>2. CASE Discover
  <2>1. UNCHANGED <<refill, shared>>
    BY <1>2 DEF Discover
  <2>2. CASE UNCHANGED otherVars \/ UNCHANGED <<storeVars, text>>
    BY <2>1, <2>2 DEF otherVars, storeVars, generationVars
  <2>3. CASE \E m \in Messages, x \in Texts :
               /\ message[m] = "absent" /\ UNCHANGED rejected
               /\ message' = [message EXCEPT ![m] = "discovered"]
               /\ text' = [text EXCEPT ![m] = x]
               /\ Duplicates(x) = {}
    BY <1>1, <2>1, <2>3
  <2>4. QED
    BY <1>2, <2>2, <2>3, GenerationStep DEF Discover, RefillInv, RefillTypeOK
<1>3. CASE Consume
  BY <1>1, <1>3 DEF Consume, ReserveNextMessage, NextQueued, generationVars
<1>4. QED
  BY <1>2, <1>3

(***************************************************************************)
(* Near-duplicates                                                         *)
(***************************************************************************)

\* However many generators wait for their answers at one time, no two recorded
\* messages are alike.
THEOREM MessagesStayDistinct == RefillSpec => []NoTwoAlike
<1>1. RefillInit => NoTwoAlike
  BY DEF RefillInit, StoreInit, NoTwoAlike, Recorded
<1>2. RefillInv /\ NoTwoAlike /\ [RefillNext]_refillVars => NoTwoAlike'
  <2> SUFFICES ASSUME RefillInv, NoTwoAlike, [RefillNext]_refillVars
               PROVE  NoTwoAlike'
    OBVIOUS
  <2>1. ASSUME UNCHANGED text, Recorded' \subseteq Recorded PROVE NoTwoAlike'
    BY <2>1 DEF NoTwoAlike
  <2>2. CASE UNCHANGED refillVars
    BY <2>1, <2>2 DEF Recorded, refillVars, storeVars, generationVars
  <2>3. ASSUME NEW w \in Refillers,
               BeginRefill(w) \/ RefillStep(w) \/ CrashRefill(w)
        PROVE  NoTwoAlike'
    <3>1. CASE UNCHANGED storeVars
      BY <2>1, <2>3, <3>1, StepEffect DEF Recorded, storeVars
    <3>2. CASE Apply(w)
      <4>1. Recorded' \subseteq Recorded
        BY <3>2, ApplyEffect DEF Recorded
      <4>2. QED
        BY <2>1, <2>3, <4>1, StepEffect
    <3>3. QED
      BY <2>3, <3>1, <3>2, StepEffect DEF Resting
  <2>4. CASE Discover \/ Consume
    <3>1. CASE UNCHANGED <<message, rejected, text>>
      BY <2>1, <3>1 DEF Recorded
    <3>2. CASE ~UNCHANGED <<message, rejected, text>>
      <4>1. PICK m \in Messages :
              /\ \A n \in Messages :
                   n # m => message'[n] = message[n] /\ text'[n] = text[n]
              /\ \/ /\ message[m] = "absent" /\ message'[m] = "discovered"
                    /\ text'[m] \in Texts /\ Duplicates(text'[m]) = {}
                 \/ /\ message[m] = "queued" /\ message'[m] = "reserved"
                    /\ text'[m] = text[m]
        BY <2>4, <3>2, OthersEffect
      <4>2. CASE message[m] = "queued"
        BY <4>1, <4>2 DEF NoTwoAlike, Recorded
      <4>3. CASE message[m] = "absent"
        <5>1. \A n \in Recorded : <<text'[m], text[n]>> \notin Similar
          BY <4>1, <4>3 DEF Duplicates
        <5>2. \A n \in Recorded : text[n] \in Texts
          BY DEF Recorded, RefillInv, RefillTypeOK, GenerationTypeOK
        <5>3. \A n \in Recorded : <<text[n], text'[m]>> \notin Similar
          BY <4>1, <4>3, <5>1, <5>2, GenerationAssumption
        <5>4. \A n \in Recorded' : n = m \/ (n \in Recorded /\ text'[n] = text[n])
          BY <4>1, <4>3 DEF Recorded
        <5>5. QED
          BY <5>1, <5>3, <5>4 DEF NoTwoAlike
      <4>4. QED
        BY <4>1, <4>2, <4>3
    <3>3. QED
      BY <3>1, <3>2
  <2>5. QED
    BY <2>2, <2>3, <2>4 DEF RefillNext
<1>3. QED
  BY <1>1, <1>2, RefillInvHolds, PTL DEF RefillSpec

(***************************************************************************)
(* Prohibited texts                                                        *)
(***************************************************************************)

\* A decision to approve is about a recorded text that the gates passed.
ProhibitedInv ==
  /\ ProhibitedNeverQueued
  /\ \A w \in Refillers :
       refill[w].candidate \in Messages => refill[w].candidate \in Recorded
  /\ \A w \in Refillers :
       (refill[w].pc = "apply" /\ refill[w].decision = "approve")
         => text[refill[w].candidate] \notin Prohibited

LEMMA StepKeepsProhibited ==
  ASSUME RefillInv, ProhibitedInv, NEW w \in Refillers,
         BeginRefill(w) \/ RefillStep(w) \/ CrashRefill(w)
  PROVE  ProhibitedInv'
<1>1. /\ UNCHANGED text
      /\ \A v \in Refillers : v # w => refill'[v] = refill[v]
  BY StepEffect
<1>2. CASE Resting(w)
  <2>1. Recorded' = Recorded /\ UNCHANGED message
    BY <1>2 DEF Resting, Recorded, storeVars
  <2>2. QED
    BY <1>1, <1>2, <2>1 DEF ProhibitedInv, ProhibitedNeverQueued, Resting
<1>3. CASE UNCHANGED storeVars /\ \E m \in Unjudged : Take(w, m)
  <2>1. Recorded' = Recorded /\ UNCHANGED message
    BY <1>3 DEF Recorded, storeVars
  <2>2. PICK m \in Unjudged : Take(w, m)
    BY <1>3
  <2>3. m \in Recorded
    BY <2>2 DEF Unjudged, Recorded
  <2>4. refill'[w].pc = "judge" /\ refill'[w].candidate = m
    BY <2>2, TakeTyped DEF Unjudged
  <2>5. QED
    BY <1>1, <2>1, <2>3, <2>4 DEF ProhibitedInv, ProhibitedNeverQueued
<1>4. CASE UNCHANGED storeVars /\ Judge(w)
  <2>1. Recorded' = Recorded /\ UNCHANGED message
    BY <1>4 DEF Recorded, storeVars
  <2>2. QED
    BY <1>1, <1>4, <2>1, JudgeEffect DEF ProhibitedInv, ProhibitedNeverQueued
<1>5. CASE Apply(w) /\ refill'[w] = Counting
  <2>1. /\ Recorded' = Recorded /\ refill[w].candidate \in Recorded
        /\ refill'[w].candidate \notin Messages /\ refill'[w].pc = "count"
    BY <1>5, ApplyEffect, RestTyped DEF Recorded
  <2>2. ProhibitedNeverQueued'
    BY <1>1, <1>5, <2>1, ApplyEffect DEF ProhibitedInv, ProhibitedNeverQueued,
                                         Recorded
  <2>3. QED
    BY <1>1, <2>1, <2>2 DEF ProhibitedInv
<1>6. QED
  BY <1>2, <1>3, <1>4, <1>5, StepEffect

\* Whatever the judge answers and however many refills run, crash and overlap,
\* a text the gates prohibit is never queued, hence never reserved or sent.
THEOREM ProhibitedStayOut == RefillSpec => []ProhibitedNeverQueued
<1>1. RefillInit => ProhibitedInv
  BY RestTyped
     DEF RefillInit, StoreInit, ProhibitedInv, ProhibitedNeverQueued, Recorded
<1>2. RefillInv /\ ProhibitedInv /\ [RefillNext]_refillVars => ProhibitedInv'
  <2> SUFFICES ASSUME RefillInv, ProhibitedInv, [RefillNext]_refillVars
               PROVE  ProhibitedInv'
    OBVIOUS
  <2>1. CASE UNCHANGED refillVars
    BY <2>1 DEF ProhibitedInv, ProhibitedNeverQueued, Recorded, refillVars,
                storeVars, generationVars
  <2>2. CASE Discover \/ Consume
    <3>1. UNCHANGED refill
      BY <2>2, OthersEffect
    <3>2. \A n \in Recorded : n \in Recorded' /\ text'[n] = text[n]
      BY <2>2, OthersEffect DEF Recorded
    <3>3. \A n \in Recorded' :
            \/ message'[n] = "discovered"
            \/ /\ n \in Recorded
               /\ message'[n] = message[n] \/ message[n] = "queued"
      BY <2>2, OthersEffect DEF Recorded
    <3>4. ProhibitedNeverQueued'
      <4> SUFFICES ASSUME NEW n \in Recorded', text'[n] \in Prohibited
                   PROVE  message'[n] \in {"discovered", "validated"}
        BY DEF ProhibitedNeverQueued
      <4>1. CASE n \in Recorded
        <5>1. message[n] \in {"discovered", "validated"}
          BY <3>2, <4>1 DEF ProhibitedInv, ProhibitedNeverQueued
        <5>2. QED
          BY <3>3, <5>1
      <4>2. QED
        BY <3>3, <4>1
    <3>5. \A w \in Refillers :
            refill[w].pc = "apply" => refill[w].candidate \in Recorded
      BY DEF ProhibitedInv, RefillInv, RefillTypeOK
    <3>6. QED
      BY <3>1, <3>2, <3>4, <3>5 DEF ProhibitedInv
  <2>3. QED
    BY <2>1, <2>2, StepKeepsProhibited DEF RefillNext
<1>3. ProhibitedInv => ProhibitedNeverQueued
  BY DEF ProhibitedInv
<1>4. QED
  BY <1>1, <1>2, <1>3, RefillInvHolds, PTL DEF RefillSpec

(***************************************************************************)
(* The bound on the queue                                                  *)
(***************************************************************************)

\* The refills that counted and have not applied a decision since.
Working == {w \in Refillers : refill[w].pc \in {"pick", "judge", "apply"}}

\* Each of them may still add one message.
BoundInv ==
  Cardinality(QueuedMessages) + Cardinality(Working)
    <= Target + Cardinality(Refillers) - 1

LEMMA SizesAreNaturals ==
  /\ Cardinality(Refillers) \in Nat /\ Cardinality(Refillers) # 0
  /\ \A S \in SUBSET Refillers :
       /\ IsFiniteSet(S) /\ Cardinality(S) \in Nat
       /\ Cardinality(S) <= Cardinality(Refillers)
  /\ \A S \in SUBSET Messages : IsFiniteSet(S) /\ Cardinality(S) \in Nat
BY RefillAssumption, FS_CardinalityType, FS_EmptySet, FS_Subset

\* Steps that put nothing in the queue and let no refill past its count.
LEMMA ShrinkKeepsBound ==
  ASSUME BoundInv, QueuedMessages' \subseteq QueuedMessages,
         Working' \subseteq Working
  PROVE  BoundInv'
<1>1. /\ IsFiniteSet(QueuedMessages) /\ IsFiniteSet(Working)
      /\ Cardinality(QueuedMessages) \in Nat /\ Cardinality(Working) \in Nat
      /\ Cardinality(QueuedMessages') \in Nat /\ Cardinality(Working') \in Nat
  BY SizesAreNaturals DEF QueuedMessages, Working
<1>2. Cardinality(QueuedMessages') <= Cardinality(QueuedMessages)
  BY <1>1, FS_Subset
<1>3. Cardinality(Working') <= Cardinality(Working)
  BY <1>1, FS_Subset
<1>4. QED
  BY <1>1, <1>2, <1>3, SizesAreNaturals, RefillAssumption DEF BoundInv

\* Passing the loop condition makes room for every refill there is.
LEMMA CountKeepsBound ==
  ASSUME RefillInv, BoundInv, NEW w \in Refillers, Count(w)
  PROVE  BoundInv'
<1>1. QueuedMessages' = QueuedMessages
  BY DEF Count, otherVars, storeVars, QueuedMessages
<1>2. CASE Cardinality(QueuedMessages) < Target
  <2>1. /\ Cardinality(QueuedMessages) \in Nat
        /\ Cardinality(Working') \in Nat
        /\ Cardinality(Working') <= Cardinality(Refillers)
    BY SizesAreNaturals DEF QueuedMessages, Working
  <2>2. QED
    BY <1>1, <1>2, <2>1, SizesAreNaturals, RefillAssumption DEF BoundInv
<1>3. CASE ~(Cardinality(QueuedMessages) < Target)
  <2>1. refill' = [refill EXCEPT ![w] = Finished]
    BY <1>3 DEF Count, Continue
  <2>2. Working' \subseteq Working
    BY <2>1, RestTyped DEF Working, RefillInv, RefillTypeOK
  <2>3. QED
    BY <1>1, <2>2, ShrinkKeepsBound
<1>4. QED
  BY <1>2, <1>3

\* An approval adds one message and takes its refill out of Working.
LEMMA ApplyKeepsBound ==
  ASSUME RefillInv, BoundInv, NEW w \in Refillers, Apply(w)
  PROVE  BoundInv'
<1> DEFINE m == refill[w].candidate
<1>1. /\ m \in Messages /\ refill[w].pc = "apply"
      /\ refill' = [refill EXCEPT ![w] = Counting]
      /\ refill \in [Refillers -> Refill]
      /\ message \in [Messages -> MessageStates]
  BY DEF Apply, Continue, RefillInv, RefillTypeOK, StoreTypeOK, MessageStates
<1>2. w \in Working /\ Working' = Working \ {w}
  BY <1>1, RestTyped DEF Working
<1>3. QueuedMessages' \subseteq QueuedMessages \cup {m}
  BY <1>1 DEF Apply, ApproveMessage, RejectMessage, QueuedMessages
<1>4. /\ IsFiniteSet(QueuedMessages) /\ IsFiniteSet(Working)
      /\ Cardinality(QueuedMessages) \in Nat /\ Cardinality(Working) \in Nat
      /\ Cardinality(QueuedMessages') \in Nat
  BY SizesAreNaturals DEF QueuedMessages, Working
<1>5. Cardinality(Working') = Cardinality(Working) - 1
  BY <1>2, <1>4, FS_RemoveElement
<1>6. /\ IsFiniteSet(QueuedMessages \cup {m})
      /\ Cardinality(QueuedMessages \cup {m}) <= Cardinality(QueuedMessages) + 1
  <2> HIDE DEF m
  <2>1. /\ IsFiniteSet(QueuedMessages \cup {m})
        /\ Cardinality(QueuedMessages \cup {m}) =
             IF m \in QueuedMessages THEN Cardinality(QueuedMessages)
                                     ELSE Cardinality(QueuedMessages) + 1
    BY <1>4, FS_AddElement, Zenon
  <2>2. QED
    BY <1>4, <2>1
<1>7. Cardinality(QueuedMessages') <= Cardinality(QueuedMessages \cup {m})
  BY <1>3, <1>6, FS_Subset
<1>8. Cardinality(QueuedMessages \cup {m}) \in Nat
  BY <1>6, FS_CardinalityType
<1>9. QED
  BY <1>4, <1>5, <1>6, <1>7, <1>8, SizesAreNaturals, RefillAssumption
     DEF BoundInv

LEMMA StepKeepsBound ==
  ASSUME RefillInv, BoundInv, NEW w \in Refillers,
         BeginRefill(w) \/ RefillStep(w) \/ CrashRefill(w)
  PROVE  BoundInv'
<1>1. refill[w] \in Refill /\ refill \in [Refillers -> Refill]
  BY DEF RefillInv, RefillTypeOK
<1>2. CASE Count(w)
  BY <1>2, CountKeepsBound
<1>3. CASE Apply(w)
  BY <1>3, ApplyKeepsBound
<1>4. CASE BeginRefill(w) \/ CrashRefill(w) \/ JudgeRaises(w) \/ ApplyRaises(w)
             \/ (Pick(w) /\ Continue(w, Finished))
  <2>1. refill' = [refill EXCEPT ![w] = Finished]
          \/ refill' = [refill EXCEPT ![w] = Counting]
    BY <1>4 DEF BeginRefill, CrashRefill, JudgeRaises, ApplyRaises, Continue
  <2>2. Working' \subseteq Working
    BY <1>1, <2>1, RestTyped DEF Working
  <2>3. QueuedMessages' = QueuedMessages
    BY <1>4 DEF BeginRefill, CrashRefill, JudgeRaises, ApplyRaises, Pick,
                otherVars, storeVars, QueuedMessages
  <2>4. QED
    BY <2>2, <2>3, ShrinkKeepsBound
<1>5. CASE (Pick(w) /\ ~Continue(w, Finished)) \/ Judge(w)
  <2>1. w \in Working
    BY <1>5 DEF Pick, Judge, Working
  <2>2. \A v \in Refillers : v # w => refill'[v] = refill[v]
    BY <1>5, StepEffect
  <2>3. Working' \subseteq Working
    BY <2>1, <2>2 DEF Working
  <2>4. QueuedMessages' = QueuedMessages
    BY <1>5 DEF Pick, Judge, otherVars, storeVars, QueuedMessages
  <2>5. QED
    BY <2>3, <2>4, ShrinkKeepsBound
<1>6. QED
  BY <1>2, <1>3, <1>4, <1>5 DEF RefillStep

LEMMA OthersKeepBound ==
  ASSUME RefillInv, BoundInv, Discover \/ Consume
  PROVE  BoundInv'
<1>1. QueuedMessages' \subseteq QueuedMessages
  BY OthersEffect DEF QueuedMessages
<1>2. Working' = Working
  BY OthersEffect DEF Working
<1>3. QED
  BY <1>1, <1>2, ShrinkKeepsBound

\* Overlapping refills overshoot the target by at most one message for each
\* refill but one, and a refill on its own never does.
THEOREM QueueStaysBounded == RefillSpec => []QueueBounded
<1>1. RefillInit => BoundInv
  <2> SUFFICES ASSUME RefillInit PROVE BoundInv
    OBVIOUS
  <2>1. QueuedMessages = {} /\ Working = {}
    BY RestTyped DEF RefillInit, StoreInit, QueuedMessages, Working
  <2>2. QED
    BY <2>1, FS_EmptySet, SizesAreNaturals, RefillAssumption DEF BoundInv
<1>2. RefillInv /\ BoundInv /\ [RefillNext]_refillVars => BoundInv'
  <2> SUFFICES ASSUME RefillInv, BoundInv, [RefillNext]_refillVars
               PROVE  BoundInv'
    OBVIOUS
  <2>1. CASE UNCHANGED refillVars
    BY <2>1 DEF BoundInv, QueuedMessages, Working, refillVars, storeVars
  <2>2. QED
    BY <2>1, StepKeepsBound, OthersKeepBound DEF RefillNext
<1>3. BoundInv => QueueBounded
  BY SizesAreNaturals, RefillAssumption
     DEF BoundInv, QueueBounded, QueuedMessages, Working
<1>4. QED
  BY <1>1, <1>2, <1>3, RefillInvHolds, PTL DEF RefillSpec

(***************************************************************************)
(* Candidates that only one refill has at hand                             *)
(***************************************************************************)

\* shared records every candidate that two refills had at one time.
SharingRecorded ==
  \A v, w \in Refillers :
    (v # w /\ refill[v].candidate = refill[w].candidate
       /\ refill[w].candidate \in Messages)
      => refill[w].candidate \in shared

\* No part is inductive alone: an approval must meet an undecided message, an
\* undecided message is not a rejected one, and none but the holder decides.
DecidedInv == CandidateOpen /\ RejectedNeverQueued /\ SharingRecorded

LEMMA ApplyKeepsDecided ==
  ASSUME RefillInv, DecidedInv, NEW w \in Refillers, Apply(w),
         refill'[w] = Counting,
         \A v \in Refillers : v # w => refill'[v] = refill[v]
  PROVE  DecidedInv'
<1> DEFINE m == refill[w].candidate
<1>1. m \in Messages /\ UNCHANGED shared
  BY ApplyEffect
<1>2. rejected \subseteq Messages
  BY DEF RefillInv, RefillTypeOK, StoreTypeOK
<1>3. m \in shared \/ m \in Unjudged
  BY DEF Apply, DecidedInv, CandidateOpen
<1>4. \A v \in Refillers :
        v # w => refill'[v].candidate # m \/ m \in shared
  BY <1>1 DEF DecidedInv, SharingRecorded
<1>5. CandidateOpen'
  <2> SUFFICES ASSUME NEW v \in Refillers, refill'[v].pc \in {"judge", "apply"}
               PROVE  refill'[v].candidate \in Unjudged' \cup shared'
    BY DEF CandidateOpen
  <2>1. v # w /\ refill'[v] = refill[v]
    BY RestTyped
  <2>2. refill[v].candidate \in Unjudged \cup shared
    BY <2>1 DEF DecidedInv, CandidateOpen
  <2>3. CASE refill[v].candidate = m
    BY <1>1, <1>4, <2>1, <2>3
  <2>4. CASE refill[v].candidate # m
    BY <1>1, <2>1, <2>2, <2>4, ApplyEffect DEF Unjudged
  <2>5. QED
    BY <2>3, <2>4
<1>6. RejectedNeverQueued'
  BY <1>1, <1>2, <1>3, ApplyEffect DEF DecidedInv, RejectedNeverQueued, Unjudged
<1>7. SharingRecorded'
  BY <1>1, RestTyped DEF DecidedInv, SharingRecorded
<1>8. QED
  BY <1>5, <1>6, <1>7 DEF DecidedInv

LEMMA StepKeepsDecided ==
  ASSUME RefillInv, DecidedInv, NEW w \in Refillers,
         BeginRefill(w) \/ RefillStep(w) \/ CrashRefill(w)
  PROVE  DecidedInv'
<1>1. \A v \in Refillers : v # w => refill'[v] = refill[v]
  BY StepEffect
<1>2. CASE Resting(w)
  <2>1. Unjudged' = Unjudged /\ UNCHANGED <<message, rejected, shared>>
    BY <1>2 DEF Resting, Unjudged, storeVars
  <2>2. QED
    BY <1>1, <1>2, <2>1
       DEF DecidedInv, CandidateOpen, RejectedNeverQueued, SharingRecorded, Resting
<1>3. CASE UNCHANGED storeVars /\ \E m \in Unjudged : Take(w, m)
  <2>1. Unjudged' = Unjudged /\ UNCHANGED <<message, rejected>>
    BY <1>3 DEF Unjudged, storeVars
  <2>2. PICK m \in Unjudged : Take(w, m)
    BY <1>3
  <2>3. /\ refill'[w].candidate = m
        /\ shared \subseteq shared'
        /\ m \notin shared' => Holders(m) = {}
    BY <2>2, TakeTyped DEF Unjudged
  <2>4. SharingRecorded'
    BY <1>1, <2>3 DEF DecidedInv, SharingRecorded, Holders
  <2>5. QED
    BY <1>1, <2>1, <2>3, <2>4 DEF DecidedInv, CandidateOpen, RejectedNeverQueued
<1>4. CASE UNCHANGED storeVars /\ Judge(w)
  <2>1. Unjudged' = Unjudged /\ UNCHANGED <<message, rejected>>
    BY <1>4 DEF Unjudged, storeVars
  <2>2. QED
    BY <1>1, <1>4, <2>1, JudgeEffect
       DEF DecidedInv, CandidateOpen, RejectedNeverQueued, SharingRecorded
<1>5. CASE Apply(w) /\ refill'[w] = Counting
  BY <1>1, <1>5, ApplyKeepsDecided
<1>6. QED
  BY <1>2, <1>3, <1>4, <1>5, StepEffect

LEMMA OthersKeepDecided ==
  ASSUME RefillInv, DecidedInv, Discover \/ Consume
  PROVE  DecidedInv'
<1>1. UNCHANGED <<refill, shared, rejected>>
  BY OthersEffect
<1>2. /\ Unjudged \subseteq Unjudged'
      /\ \A m \in Messages : message[m] = "validated" => message'[m] = "validated"
  BY OthersEffect DEF Unjudged
<1>3. rejected \subseteq Messages
  BY DEF RefillInv, RefillTypeOK, StoreTypeOK
<1>4. QED
  BY <1>1, <1>2, <1>3
     DEF DecidedInv, CandidateOpen, RejectedNeverQueued, SharingRecorded

\* A candidate that no other refill has at hand still awaits its decision when
\* it is judged and when the decision is applied, so that the store takes the
\* decision, and once rejected it stays out of the queue.
THEOREM RefillsDecideOnce ==
  RefillSpec => [](CandidateOpen /\ RejectedNeverQueued)
<1>1. RefillInit => DecidedInv
  BY RestTyped
     DEF RefillInit, StoreInit, NoDeliveries, DecidedInv, CandidateOpen,
         RejectedNeverQueued, SharingRecorded
<1>2. RefillInv /\ DecidedInv /\ [RefillNext]_refillVars => DecidedInv'
  <2> SUFFICES ASSUME RefillInv, DecidedInv, [RefillNext]_refillVars
               PROVE  DecidedInv'
    OBVIOUS
  <2>1. CASE UNCHANGED refillVars
    BY <2>1 DEF DecidedInv, CandidateOpen, RejectedNeverQueued, SharingRecorded,
                Unjudged, refillVars, storeVars
  <2>2. QED
    BY <2>1, StepKeepsDecided, OthersKeepDecided DEF RefillNext
<1>3. DecidedInv => CandidateOpen /\ RejectedNeverQueued
  BY DEF DecidedInv
<1>4. QED
  BY <1>1, <1>2, <1>3, RefillInvHolds, PTL DEF RefillSpec
=============================================================================
