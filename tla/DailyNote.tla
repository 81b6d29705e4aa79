------------------------------ MODULE DailyNote ------------------------------
(***************************************************************************)
(* What the daily send promises, without how: for each Pacific date at     *)
(* most one copy of a voice note reaches the recipient, and the verdict    *)
(* the program keeps about the date never lies.  "sent" means a copy       *)
(* arrived, "failed" that none arrived or will unless the date is          *)
(* reopened, "unknown" that the program cannot tell and will not try       *)
(* again.                                                                  *)
(***************************************************************************)
EXTENDS Naturals

CONSTANT Days

VARIABLES
  copies,  \* notes the recipient got for each date
  verdict  \* what the program knows about each date

noteVars == <<copies, verdict>>

Verdicts == {"open", "sent", "failed", "unknown"}

NoteInit ==
  /\ copies = [d \in Days |-> 0]
  /\ verdict = [d \in Days |-> "open"]

\* The recipient gets the note; possibly long after the program gave up.
Arrive(d) ==
  /\ copies[d] = 0
  /\ verdict[d] \in {"open", "unknown"}
  /\ copies' = [copies EXCEPT ![d] = 1]
  /\ UNCHANGED verdict

Conclude(d, v) ==
  /\ verdict[d] = "open"
  /\ v = "sent" => copies[d] = 1
  /\ v = "failed" => copies[d] = 0
  /\ verdict' = [verdict EXCEPT ![d] = v]
  /\ UNCHANGED copies

\* A failure is certain, so the program may try again.
Reopen(d) ==
  /\ verdict[d] = "failed"
  /\ verdict' = [verdict EXCEPT ![d] = "open"]
  /\ UNCHANGED copies

NoteNext ==
  \E d \in Days :
    \/ Arrive(d)
    \/ Reopen(d)
    \/ \E v \in Verdicts \ {"open"} : Conclude(d, v)

NoteSpec == NoteInit /\ [][NoteNext]_noteVars

\* The program is told after all that the note it was unsure of arrived.
Learn(d) ==
  /\ verdict[d] = "unknown"
  /\ copies[d] = 1
  /\ verdict' = [verdict EXCEPT ![d] = "sent"]
  /\ UNCHANGED copies

LearningNext == NoteNext \/ \E d \in Days : Learn(d)

LearningSpec == NoteInit /\ [][LearningNext]_noteVars
=============================================================================
