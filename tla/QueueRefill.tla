----------------------------- MODULE QueueRefill -----------------------------
(***************************************************************************)
(* refill_queue (queue_refill.py) with the decision of the judging         *)
(* pipeline (judging/pipeline.py), over the tables of DeliveryStore.       *)
(* refill[w].pc is the next statement of a run of the loop: count the      *)
(* queue, pick the oldest candidate, await its judgement, apply it.  Each  *)
(* database call is a transaction of its own; generators add messages and  *)
(* the daily send reserves queued ones in between.                         *)
(***************************************************************************)
EXTENDS SentenceGeneration

CONSTANTS
  Refillers,   \* processes that run refill_queue
  Target,      \* its target, MIN_QUEUE_SIZE by default
  Prohibited   \* texts the local gates reject (gates.py)

ASSUME RefillAssumption ==
  /\ IsFiniteSet(Messages)
  /\ IsFiniteSet(Refillers) /\ Refillers # {}
  /\ Target \in Nat
  /\ Prohibited \subseteq Texts

VARIABLES
  refill,  \* the locals of each run
  shared   \* history: messages two runs had as their candidate at one time

refillVars == <<storeVars, generationVars, refill, shared>>
otherVars == <<storeVars, generationVars>>

RefillSteps == {"idle", "count", "pick", "judge", "apply"}

\* The locals of one run of the loop.
Refill ==
  [pc : RefillSteps, candidate : Messages \cup {0},
   decision : {"none", "approve", "reject"}]

Finished == [pc |-> "idle", candidate |-> 0, decision |-> "none"]

Counting == [Finished EXCEPT !.pc = "count"]

QueuedMessages == {m \in Messages : message[m] = "queued"}

RefillInit ==
  /\ StoreInit
  /\ GenerationInit
  /\ refill = [w \in Refillers |-> Finished]
  /\ shared = {}

Continue(w, turn) ==
  refill' = [refill EXCEPT ![w] = turn] /\ UNCHANGED shared

\* The runs that have m at hand.
Holders(m) == {w \in Refillers : refill[w].candidate = m}

Take(w, m) ==
  /\ refill' = [refill EXCEPT ![w] = [@ EXCEPT !.pc = "judge", !.candidate = m]]
  /\ shared' = IF Holders(m) = {} THEN shared ELSE shared \cup {m}

BeginRefill(w) ==
  /\ refill[w].pc = "idle"
  /\ Continue(w, Counting)
  /\ UNCHANGED otherVars

\* The loop condition, count_queued_messages() < target.
Count(w) ==
  /\ refill[w].pc = "count"
  /\ Continue(w, IF Cardinality(QueuedMessages) < Target
                   THEN [refill[w] EXCEPT !.pc = "pick"] ELSE Finished)
  /\ UNCHANGED otherVars

\* Fault: the candidates are not filtered by message_rejections.
FaultForgetsRejections ==
  {m \in Messages : message[m] \in {"discovered", "validated"}}

\* The rows next_unjudged_message selects from.
Unjudged ==
  {m \in Messages : message[m] \in {"discovered", "validated"}} \ rejected

\* Fault: the loop goes on without a candidate.
FaultNoneIsJudged(w) ==
  /\ refill[w].pc = "pick"
  /\ \/ /\ Unjudged = {}
        /\ Continue(w, [refill[w] EXCEPT !.pc = "judge"])
     \/ \E m \in Unjudged :
          /\ \A n \in Unjudged : m <= n
          /\ Take(w, m)
  /\ UNCHANGED otherVars

\* The oldest candidate, or the end of the loop.
Pick(w) ==
  /\ refill[w].pc = "pick"
  /\ \/ /\ Unjudged = {}
        /\ Continue(w, Finished)
     \/ \E m \in Unjudged :
          /\ \A n \in Unjudged : m <= n
          /\ Take(w, m)
  /\ UNCHANGED otherVars

Decide(w, decision) ==
  Continue(w, [refill[w] EXCEPT !.pc = "apply", !.decision = decision])

\* What the model's answer amounts to: a JudgeError, risk flags, a score under
\* its floor, or none of these.
JudgeAnswers == {"error", "flagged", "low", "fine"}

DecisionOn(answer) == IF answer = "fine" THEN "approve" ELSE "reject"

\* Fault: the gates run after the judge and only log.
FaultGatesSkipped(w) ==
  /\ refill[w].pc = "judge"
  /\ \E answer \in JudgeAnswers : Decide(w, DecisionOn(answer))
  /\ UNCHANGED otherVars

\* Fault: a candidate whose judgement failed is left for the next iteration.
FaultErrorLeavesPending(w) ==
  /\ refill[w].pc = "judge"
  /\ \/ text[refill[w].candidate] \in Prohibited /\ Decide(w, "reject")
     \/ text[refill[w].candidate] \notin Prohibited /\ Continue(w, Counting)
     \/ text[refill[w].candidate] \notin Prohibited /\ Decide(w, "approve")
  /\ UNCHANGED otherVars

\* evaluate_message_safety: the gates reject on their own; else the judge is
\* asked and its answer compared with the floors.
Judge(w) ==
  /\ refill[w].pc = "judge"
  /\ \/ text[refill[w].candidate] \in Prohibited /\ Decide(w, "reject")
     \/ /\ text[refill[w].candidate] \notin Prohibited
        /\ \E answer \in JudgeAnswers : Decide(w, DecisionOn(answer))
  /\ UNCHANGED otherVars

\* A body that is not text leaves json.loads as a UnicodeDecodeError, which
\* generate_structured does not catch: the whole refill ends.
JudgeRaises(w) ==
  /\ refill[w].pc = "judge"
  /\ text[refill[w].candidate] \notin Prohibited
  /\ Continue(w, Finished)
  /\ UNCHANGED otherVars

\* Fault: the queue is counted once, before the loop.
FaultCountsOnce(w) ==
  /\ refill[w].pc = "apply"
  /\ \/ refill[w].decision = "approve" /\ ApproveMessage(refill[w].candidate)
     \/ refill[w].decision = "reject" /\ RejectMessage(refill[w].candidate)
  /\ Continue(w, [Finished EXCEPT !.pc = "pick"])
  /\ UNCHANGED generationVars

\* Fault: the next iteration judges the candidate it has.
FaultKeepsCandidate(w) ==
  /\ refill[w].pc = "apply"
  /\ \/ refill[w].decision = "approve" /\ ApproveMessage(refill[w].candidate)
     \/ refill[w].decision = "reject" /\ RejectMessage(refill[w].candidate)
  /\ Continue(w, [refill[w] EXCEPT !.pc = "judge"])
  /\ UNCHANGED generationVars

\* approve_message or reject_message, then the loop condition again.
Apply(w) ==
  /\ refill[w].pc = "apply"
  /\ \/ refill[w].decision = "approve" /\ ApproveMessage(refill[w].candidate)
     \/ refill[w].decision = "reject" /\ RejectMessage(refill[w].candidate)
  /\ Continue(w, Counting)
  /\ UNCHANGED generationVars

\* The store refuses the decision, and nothing catches what it raises.
ApplyRaises(w) ==
  /\ refill[w].pc = "apply"
  /\ \/ refill[w].decision = "approve" /\ ~CanApprove(refill[w].candidate)
     \/ refill[w].decision = "reject" /\ ~CanReject(refill[w].candidate)
  /\ Continue(w, Finished)
  /\ UNCHANGED otherVars

RefillStep(w) ==
  \/ Count(w)
  \/ Pick(w)
  \/ Judge(w)
  \/ JudgeRaises(w)
  \/ Apply(w)
  \/ ApplyRaises(w)

CrashRefill(w) ==
  /\ refill[w].pc # "idle"
  /\ Continue(w, Finished)
  /\ UNCHANGED otherVars

\* The pipeline generates sentences and records them.
Discover == GenerationNext /\ UNCHANGED <<refill, shared>>

\* The daily send takes a message out of the queue.
Consume ==
  /\ \E s \in Slots, t \in Instants : ReserveNextMessage(s, t)
  /\ UNCHANGED <<generationVars, refill, shared>>

RefillNext ==
  \/ \E w \in Refillers : BeginRefill(w) \/ RefillStep(w) \/ CrashRefill(w)
  \/ Discover
  \/ Consume

RefillSpec == RefillInit /\ [][RefillNext]_refillVars

\* A running refill runs on: the judge's request has a total timeout.
FairRefillSpec ==
  RefillSpec /\ \A w \in Refillers : WF_refillVars(RefillStep(w))

(***************************************************************************)
(* Properties                                                              *)
(***************************************************************************)

\* The shape of the variables; a candidate is at hand where it is used.
RefillTypeOK ==
  /\ StoreTypeOK
  /\ GenerationTypeOK
  /\ refill \in [Refillers -> Refill]
  /\ \A w \in Refillers :
       refill[w].pc \in {"judge", "apply"} <=> refill[w].candidate \in Messages
  /\ shared \subseteq Messages

\* The loop stops at the target: overlapping refills, each of which counted
\* before it awaited its judgement, overshoot it by at most one message for each
\* refill but one (refill_queue, count_queued_messages).
QueueBounded ==
  Cardinality(QueuedMessages) <= Target + Cardinality(Refillers) - 1

\* A text the local gates prohibit never gets into the queue, nor past it,
\* whatever the judge says, crashes leave and other refills do
\* (evaluate_message_safety).
ProhibitedNeverQueued ==
  \A m \in Recorded :
    text[m] \in Prohibited => message[m] \in {"discovered", "validated"}

\* Every refill ends: each iteration takes a candidate out of next_unjudged's
\* reach, an error of the judge included, while generators add candidates and
\* the daily send empties the queue.
RefillEnds ==
  \A w \in Refillers : refill[w].pc # "idle" ~> refill[w].pc = "idle"

\* A candidate still awaits its decision when it is judged and when the
\* decision is applied, unless two overlapping refills had it at hand at one
\* time: nothing is sent to the judge twice and the store refuses no decision,
\* also when a crash came before.
CandidateOpen ==
  \A w \in Refillers :
    refill[w].pc \in {"judge", "apply"} =>
      refill[w].candidate \in Unjudged \cup shared

\* "Rejected candidates never enter the queue" (IMPLEMENTATION_PLAN.md): a
\* rejected message stays VALIDATED for ever (reject_message).  approve_message
\* does not look at message_rejections, so this rests on the loop alone: two
\* refills that judge one message at one time may queue what was rejected.
RejectedNeverQueued == \A m \in rejected \ shared : message[m] = "validated"
=============================================================================
