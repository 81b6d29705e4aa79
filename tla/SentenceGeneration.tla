-------------------------- MODULE SentenceGeneration --------------------------
(***************************************************************************)
(* generate_sentence (generation/sentence.py) and MessageHistory           *)
(* (history.py) over the messages of DeliveryStore.  A generator awaits    *)
(* the model's answer and then hands it to evaluate_and_record, which      *)
(* compares it with every recorded text and inserts it in one transaction. *)
(***************************************************************************)
EXTENDS DeliveryStore

CONSTANTS
  Texts,       \* sentences the model may answer with
  Similar,     \* pairs whose token_sort_ratio reaches NEAR_DUPLICATE_THRESHOLD
  Copied,      \* texts that copy a span of the source (normalization.py)
  Generators   \* runs of generate_sentence

ASSUME GenerationAssumption ==
  /\ 0 \notin Messages
  /\ "" \notin Texts
  /\ Similar \subseteq Texts \X Texts
  /\ \A x, y \in Texts : <<x, y>> \in Similar => <<y, x>> \in Similar
  /\ \A x \in Texts : <<x, x>> \in Similar
  /\ Copied \subseteq Texts

VARIABLES
  text,   \* messages.text, "" while the row does not exist
  draft   \* the answer each generator is about to evaluate, "" for none

generationVars == <<text, draft>>

Recorded == {m \in Messages : message[m] # "absent"}

GenerationInit ==
  /\ text = [m \in Messages |-> ""]
  /\ draft = [g \in Generators |-> ""]

\* validate_generated_sentence lets no copied span through; an error of the
\* client or an invalid sentence raises and leaves nothing behind.
Acceptable == Texts \ Copied

\* The request of generate_sentence is answered.  The bound on the messages: each
\* answer has one left to be recorded in, as every insertion has a fresh id.
Generate(g) ==
  /\ draft[g] = ""
  /\ Cardinality({h \in Generators : draft[h] # ""})
       < Cardinality(Messages \ Recorded)
  /\ \E x \in Acceptable : draft' = [draft EXCEPT ![g] = x]
  /\ UNCHANGED <<storeVars, text>>

\* The recorded messages _evaluate_with_connection finds too close to x: by
\* their hash, or by the score of the normalised texts.
Duplicates(x) == {m \in Recorded : <<x, text[m]>> \in Similar}

\* evaluate_and_record.
EvaluateAndRecord(g) ==
  /\ draft[g] # ""
  /\ \/ /\ Duplicates(draft[g]) = {}
        /\ \E m \in Messages :
             CreateMessage(m) /\ text' = [text EXCEPT ![m] = draft[g]]
     \/ Duplicates(draft[g]) # {} /\ UNCHANGED <<storeVars, text>>
  /\ draft' = [draft EXCEPT ![g] = ""]

\* The generator's process dies.
CrashGenerator(g) ==
  /\ draft[g] # ""
  /\ draft' = [draft EXCEPT ![g] = ""]
  /\ UNCHANGED <<storeVars, text>>

\* Fault: the answer is evaluated in one transaction, as soon as it is there, and
\* inserted in a later one.
FaultTwoTransactions ==
  \E g \in Generators :
    \/ Generate(g) /\ Duplicates(draft'[g]) = {}
    \/ /\ draft[g] # ""
       /\ \E m \in Messages :
            CreateMessage(m) /\ text' = [text EXCEPT ![m] = draft[g]]
       /\ draft' = [draft EXCEPT ![g] = ""]
    \/ CrashGenerator(g)

\* generate_sentence: its request, then evaluate_and_record.
GenerationNext ==
  \E g \in Generators :
    Generate(g) \/ EvaluateAndRecord(g) \/ CrashGenerator(g)

GenerationTypeOK ==
  /\ text \in [Messages -> Texts \cup {""}]
  /\ draft \in [Generators -> Texts \cup {""}]
  /\ \A m \in Messages : text[m] = "" <=> message[m] = "absent"

\* No two messages ever recorded are near-duplicates of each other, in
\* whichever state they are by now, although several generators wait for
\* their answers and record them at the same time (evaluate_and_record keeps
\* the comparison and the insertion in one BEGIN IMMEDIATE transaction).
NoTwoAlike ==
  \A m, n \in Recorded : m # n => <<text[m], text[n]>> \notin Similar
=============================================================================
