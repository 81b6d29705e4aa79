-------------------------- MODULE MigrationProofs ---------------------------
(***************************************************************************)
(* Safety of SchemaMigration for any processes, messages and hashes.  What *)
(* makes it inductive is what the writer's transaction holds at each stage: *)
(* the committed versions and the stages run so far, the committed         *)
(* messages, and a history that is as complete as its versions say.        *)
(***************************************************************************)
EXTENDS SchemaMigration, TLAPS

\* HistoryComplete of one schema.
Complete(s) ==
  2 \in s.versions =>
    /\ s.history = s.message
    /\ 3 \in s.versions => Distinct(s.history)

\* The transaction before it runs stage k.
DraftAt(k) ==
  /\ Known(db.versions)
  /\ draft.versions = db.versions \cup (1 .. k - 1)
  /\ draft.message = db.message
  /\ Complete(draft)

\* What each step of the writer works on.
WriterInv ==
  \A p \in Processes :
    /\ job[p].pc \in {"begin", "reread"} => job[p].stage = 1
    /\ job[p].pc = "reread" => draft = db
    /\ job[p].pc = "stage" => DraftAt(job[p].stage)
    /\ job[p].pc = "commit" =>
         Sound(draft, Current) /\ draft.message = db.message /\ Complete(draft)

IInv == TypeOK /\ ReadyMeansCurrent /\ HistoryComplete /\ WriterInv

\* The content without rows, and the schema of each version, are well typed.
LEMMA WholeIsSchema ==
  ASSUME NEW n \in 0 .. Current, NEW c \in Content
  PROVE  WholeAt(n, c) \in Schema
<1>1. 1 .. n \in SUBSET (0 .. Current + 1)
  BY DEF Current
<1>2. [k \in Stages |-> IF k <= n THEN "valid" ELSE "absent"]
        \in [Stages -> ObjectStates]
  BY DEF ObjectStates
<1>3. NoRows \in Content
  BY DEF NoRows, Content
<1> QED BY <1>1, <1>2, <1>3 DEF WholeAt, Schema

\* The starting points are schemas with a complete history.
LEMMA StartIsComplete ==
  ASSUME NEW s \in StartingPoints
  PROVE  s \in Schema /\ Complete(s)
<1>1. NoRows \in Content /\ Rows(NoRows) = {} /\ Distinct(NoRows)
  BY DEF NoRows, Content, Rows, Distinct
<1>2. PICK n \in 0 .. Current : s \in Left(n) \/ s \in Damaged(n)
  BY DEF StartingPoints
<1>3. WholeAt(n, NoRows) \in Schema
  BY <1>1, WholeIsSchema
<1>4. WholeAt(n, NoRows).message = NoRows /\ WholeAt(n, NoRows).history = NoRows
  BY DEF WholeAt
<1>5. CASE s \in Left(n)
  <2>1. PICK c \in Content : (n >= 3 => Distinct(c)) /\ s = WholeAt(n, c)
    BY <1>5 DEF Left
  <2>2. s.versions = 1 .. n /\ s.message = c
        /\ s.history = (IF n >= 2 THEN c ELSE NoRows)
    BY <2>1 DEF WholeAt
  <2>3. Complete(s)
    BY <2>1, <2>2 DEF Complete, Current
  <2> QED BY <2>1, <2>3, WholeIsSchema
<1>6. CASE s \in Damaged(n)
  <2>1. CASE \E v \in {{0}, 1 .. Current + 1, {2}} :
               s = [WholeAt(n, NoRows) EXCEPT !.versions = v]
    BY <1>1, <1>3, <1>4, <2>1 DEF Schema, Complete, Current
  <2>2. CASE \E k \in Stages, o \in ObjectStates :
               s = [WholeAt(n, NoRows) EXCEPT !.objects[k] = o]
    BY <1>1, <1>3, <1>4, <2>2 DEF Schema, Complete, ObjectStates
  <2>3. CASE \E o \in {"original", "altered", "weak"} :
               s = [WholeAt(n, NoRows) EXCEPT !.deliveries = o]
    BY <1>1, <1>3, <1>4, <2>3 DEF Schema, Complete
  <2> QED BY <1>6, <2>1, <2>2, <2>3 DEF Damaged
<1> QED BY <1>2, <1>5, <1>6

LEMMA InitIInv == Init => IInv
<1> SUFFICES ASSUME Init PROVE IInv
  OBVIOUS
<1>1. db \in Schema /\ draft = db /\ Complete(db)
  BY StartIsComplete DEF Init
<1>2. \A p \in Processes : job[p] = Outside /\ p # "none"
  BY MigrationAssumption DEF Init
<1>3. job \in [Processes -> Job]
  BY DEF Init, Outside, At, Job, Stages, Current
<1>4. TypeOK
  BY <1>1, <1>2, <1>3, MigrationAssumption DEF TypeOK, Init, Outside, At
<1> QED
  BY <1>1, <1>2, <1>4
     DEF IInv, ReadyMeansCurrent, HistoryComplete, WriterInv, Complete, Outside, At

\* At most one process writes.
LEMMA OneWriter ==
  ASSUME TypeOK, NEW p \in Processes, NEW q \in Processes,
         job[p].pc \in {"reread", "stage", "commit"},
         job[q].pc \in {"reread", "stage", "commit"}
  PROVE  p = q
BY DEF TypeOK

\* A process that fails or dies changes neither the database nor the work of
\* the writer.
LEMMA FailKeeps ==
  ASSUME IInv, NEW p \in Processes, NEW cause \in {"invalid", "locked"},
         Fail(p, cause)
  PROVE  IInv'
<1>1. job' = [job EXCEPT ![p] = [job[p] EXCEPT !.pc = "failed", !.cause = cause]]
      /\ db' = db /\ draft' = draft /\ crashes' = crashes
      /\ writer' = IF writer = p THEN "none" ELSE writer
  BY DEF Fail, Set
<1>2. job' \in [Processes -> Job] /\ job'[p].pc = "failed"
      /\ \A q \in Processes : q # p => job'[q] = job[q]
  <2>1. job[p] \in Job /\ job \in [Processes -> Job]
    BY DEF IInv, TypeOK
  <2>2. [job[p] EXCEPT !.pc = "failed", !.cause = cause] \in Job
    BY <2>1 DEF Job
  <2> QED BY <1>1, <2>1, <2>2 DEF Job
<1>3. TypeOK'
  BY <1>1, <1>2, MigrationAssumption DEF IInv, TypeOK
<1>4. WriterInv'
  BY <1>1, <1>2 DEF IInv, WriterInv, DraftAt, Sound, Complete, Distinct, Rows
<1> QED
  BY <1>1, <1>2, <1>3, <1>4
     DEF IInv, ReadyMeansCurrent, HistoryComplete, Sound, Distinct, Rows

LEMMA CrashKeeps ==
  ASSUME IInv, NEW p \in Processes, Crash(p)
  PROVE  IInv'
<1>1. job' = [job EXCEPT ![p] = Outside]
      /\ db' = db /\ draft' = draft /\ crashes' = crashes + 1
      /\ crashes < MaxCrashes
      /\ writer' = IF writer = p THEN "none" ELSE writer
  BY DEF Crash, Set
<1>2. job' \in [Processes -> Job] /\ job'[p].pc = "idle"
      /\ \A q \in Processes : q # p => job'[q] = job[q]
  BY <1>1 DEF IInv, TypeOK, Job, Outside, At, Stages, Current
<1>3. TypeOK'
  <2>1. crashes' \in 0 .. MaxCrashes
    BY <1>1, MigrationAssumption DEF IInv, TypeOK
  <2> QED BY <1>1, <1>2, <2>1, MigrationAssumption DEF IInv, TypeOK
<1>4. WriterInv'
  BY <1>1, <1>2 DEF IInv, WriterInv, DraftAt, Sound, Complete, Distinct, Rows
<1> QED
  BY <1>1, <1>2, <1>3, <1>4
     DEF IInv, ReadyMeansCurrent, HistoryComplete, Sound, Distinct, Rows

\* A process that is about to begin or idle again holds nothing.
LEMMA StartAndExitKeep ==
  ASSUME IInv, NEW p \in Processes, Start(p) \/ Exit(p)
  PROVE  IInv'
<1>1. PICK locals \in Job :
        /\ job' = [job EXCEPT ![p] = locals]
        /\ locals.pc \in {"idle", "begin"} /\ locals.stage = 1
  <2>1. db.versions \in SUBSET (0 .. Current + 1) /\ 1 \in Stages
    BY DEF IInv, TypeOK, Schema, Stages, Current
  <2>2. Outside \in Job /\ Outside.pc = "idle" /\ Outside.stage = 1
    BY <2>1 DEF Outside, At, Job
  <2>3. /\ At("begin", db.versions) \in Job
        /\ At("begin", db.versions).pc = "begin"
        /\ At("begin", db.versions).stage = 1
    BY <2>1 DEF At, Job
  <2> QED BY <2>2, <2>3 DEF Start, Exit, Set
<1>2. UNCHANGED <<db, draft, writer, crashes>>
      /\ job[p].pc \notin {"reread", "stage", "commit"}
  BY DEF Start, Exit
<1>3. job' \in [Processes -> Job] /\ job'[p] = locals
      /\ \A q \in Processes : q # p => job'[q] = job[q]
  BY <1>1 DEF IInv, TypeOK
<1>4. TypeOK'
  BY <1>1, <1>2, <1>3 DEF IInv, TypeOK
<1>5. WriterInv'
  BY <1>1, <1>2, <1>3 DEF IInv, WriterInv, DraftAt, Sound, Complete, Distinct, Rows
<1> QED
  BY <1>1, <1>2, <1>3, <1>4, <1>5
     DEF IInv, ReadyMeansCurrent, HistoryComplete, Sound, Distinct, Rows

LEMMA BeginKeeps ==
  ASSUME IInv, NEW p \in Processes, BeginImmediate(p)
  PROVE  IInv'
<1>1. CASE Fail(p, "locked") \/ Fail(p, "invalid")
  BY <1>1, FailKeeps
<1>2. CASE /\ writer = "none" /\ writer' = p /\ draft' = db
           /\ Set(p, [job[p] EXCEPT !.pc = "reread"])
           /\ UNCHANGED <<db, crashes>>
  <2>1. job' \in [Processes -> Job] /\ job'[p].pc = "reread"
        /\ \A q \in Processes : q # p => job'[q] = job[q]
    BY <1>2 DEF IInv, TypeOK, Job, Set
  <2>2. \A q \in Processes : q # p => job'[q].pc \notin {"reread", "stage", "commit"}
    BY <1>2, <2>1, MigrationAssumption DEF IInv, TypeOK
  <2>3. TypeOK'
    BY <1>2, <2>1, <2>2 DEF IInv, TypeOK
  <2>4. WriterInv'
    <3>1. job'[p].stage = 1
      BY <1>2 DEF IInv, TypeOK, WriterInv, Set, BeginImmediate, Job
    <3> QED BY <1>2, <2>1, <2>2, <3>1 DEF IInv, WriterInv
  <2> QED
    BY <1>2, <2>1, <2>3, <2>4
       DEF IInv, ReadyMeansCurrent, HistoryComplete, Sound, Distinct, Rows
<1> QED
  BY <1>1, <1>2 DEF BeginImmediate

LEMMA RereadKeeps ==
  ASSUME IInv, NEW p \in Processes, Reread(p)
  PROVE  IInv'
<1>1. CASE Fail(p, "invalid")
  BY <1>1, FailKeeps
<1>2. CASE /\ Known(db.versions)
           /\ Set(p, [job[p] EXCEPT !.pc = "stage"])
           /\ UNCHANGED <<db, draft, writer, crashes>>
  <2> DEFINE k == job[p].stage
  <2>1. job' \in [Processes -> Job] /\ job'[p].pc = "stage" /\ job'[p].stage = k
        /\ \A q \in Processes : q # p => job'[q] = job[q]
    BY <1>2 DEF IInv, TypeOK, Job, Set
  <2>2. job[p].pc = "reread"
    BY DEF Reread
  <2>3. \A q \in Processes : q # p => job'[q].pc \notin {"reread", "stage", "commit"}
    BY <2>1, <2>2 DEF IInv, TypeOK
  <2>4. TypeOK'
    BY <1>2, <2>1, <2>2 DEF IInv, TypeOK
  <2>5. draft = db /\ k = 1
    BY <2>2 DEF IInv, WriterInv
  <2>6. DraftAt(k)'
    <3>1. 1 .. k - 1 = {}
      BY <2>5
    <3>2. Complete(draft)
      BY <2>5 DEF IInv, HistoryComplete, Complete
    <3> QED BY <1>2, <2>5, <3>1, <3>2, <2>1
            DEF DraftAt, Complete, Distinct, Rows
  <2>7. WriterInv'
    BY <1>2, <2>1, <2>3, <2>6 DEF IInv, WriterInv
  <2> QED
    BY <1>2, <2>1, <2>4, <2>7
       DEF IInv, ReadyMeansCurrent, HistoryComplete, Sound, Distinct, Rows
<1> QED
  BY <1>1, <1>2 DEF Reread

\* What stage k makes of a draft it finds.
LEMMA AppliedIs ==
  ASSUME TypeOK, NEW k \in Stages
  PROVE  /\ Applied(k) \in Schema
         /\ Applied(k).versions = draft.versions \cup {k}
         /\ Applied(k).message = draft.message
         /\ Applied(k).history = HistoryAfter(k)
<1>1. draft \in Schema
  BY DEF TypeOK
<1>2. draft.versions \cup {k} \in SUBSET (0 .. Current + 1)
  BY <1>1 DEF Schema, Stages, Current
<1>3. DeliveriesAfter(k) \in {"absent", "original", "altered", "weak"}
  BY <1>1 DEF DeliveriesAfter, Schema
<1>4. HistoryAfter(k) \in Content
  BY <1>1 DEF HistoryAfter, Schema
<1>5. Created(draft.objects[k]) \in ObjectStates
  BY <1>1 DEF Schema, Created, ObjectStates
<1> QED
  BY <1>1, <1>2, <1>3, <1>4, <1>5 DEF Applied, Schema

\* Stage k, run or already there, leads to the draft of stage k + 1.
LEMMA StageAdvances ==
  ASSUME TypeOK, NEW k \in Stages, DraftAt(k), Misses(k) => CanApply(k),
         NEW next, next = IF Misses(k) THEN Applied(k) ELSE draft
  PROVE  /\ next \in Schema
         /\ next.versions = db.versions \cup (1 .. k)
         /\ next.message = db.message
         /\ Complete(next)
<1>1. PICK n \in 0 .. Current : db.versions = 1 .. n
  BY DEF DraftAt, Known
<1>2. k \in 1 .. 8 /\ n \in 0 .. 8
  BY DEF Stages, Current
<1>3. CASE Misses(k)
  <2>1. n < k
    BY <1>1, <1>2, <1>3 DEF Misses
  <2>2. next = Applied(k)
    BY <1>3
  <2>3. draft.versions = 1 .. k - 1
    BY <1>1, <1>2, <2>1 DEF DraftAt
  <2>4. next.versions = 1 .. k /\ db.versions \cup (1 .. k) = 1 .. k
    <3>1. (1 .. k - 1) \cup {k} = 1 .. k /\ 1 .. n \subseteq 1 .. k
      BY <1>2, <2>1
    <3> QED BY <1>1, <2>2, <2>3, <3>1, AppliedIs
  <2>5. Complete(next)
    <3>1. CASE k = 1
      BY <2>4, <3>1 DEF Complete
    <3>2. CASE k = 2
      BY <2>2, <2>4, <3>2, AppliedIs DEF Complete, HistoryAfter
    <3>3. CASE k >= 3
      <4>1. draft.history = draft.message /\ (k > 3 => Distinct(draft.history))
        BY <1>2, <2>3, <3>3 DEF DraftAt, Complete
      <4>2. Distinct(draft.history)
        BY <1>2, <1>3, <4>1, <3>3 DEF CanApply
      <4> QED BY <2>2, <3>3, <4>1, <4>2, AppliedIs DEF Complete, HistoryAfter
    <3> QED BY <1>2, <3>1, <3>2, <3>3
  <2> QED
    BY <2>2, <2>4, <2>5, AppliedIs DEF DraftAt
<1>4. CASE ~Misses(k)
  <2>1. n >= k
    BY <1>1, <1>2, <1>4 DEF Misses
  <2>2. next = draft
    BY <1>4
  <2>3. draft.versions = db.versions \cup (1 .. k)
    BY <1>1, <1>2, <2>1 DEF DraftAt
  <2> QED
    BY <2>2, <2>3 DEF DraftAt, TypeOK
<1> QED BY <1>3, <1>4

LEMMA RunStageKeeps ==
  ASSUME IInv, NEW p \in Processes, RunStage(p)
  PROVE  IInv'
<1> DEFINE k == job[p].stage
           next == IF Misses(k) THEN Applied(k) ELSE draft
           then == IF k < Current THEN [job[p] EXCEPT !.stage = k + 1]
                                  ELSE [job[p] EXCEPT !.pc = "commit"]
<1>1. CASE Fail(p, "invalid")
  BY <1>1, FailKeeps
<1>2. CASE /\ Misses(k) => CanApply(k)
           /\ Validates(p, next, k)
           /\ draft' = next
           /\ Set(p, then)
           /\ UNCHANGED <<db, writer, crashes>>
  <2>1. job[p].pc = "stage" /\ job[p] \in Job /\ k \in Stages
    BY DEF RunStage, IInv, TypeOK, Job
  <2>2. DraftAt(k) /\ TypeOK
    BY <2>1 DEF IInv, WriterInv
  <2> HIDE DEF next
  <2>3. /\ next \in Schema
        /\ next.versions = db.versions \cup (1 .. k)
        /\ next.message = db.message
        /\ Complete(next)
    BY <1>2, <2>1, <2>2, StageAdvances DEF next
  <2>4. then \in Job /\ then.pc \in {"stage", "commit"}
        /\ (then.pc = "stage" => then.stage = k + 1)
        /\ (then.pc = "commit" => k = Current)
    BY <2>1 DEF Job, Stages, Current
  <2> HIDE DEF then
  <2>5. job' \in [Processes -> Job] /\ job'[p] = then
        /\ \A q \in Processes : q # p => job'[q] = job[q]
    BY <1>2, <2>2, <2>4 DEF TypeOK, Set
  <2>6. \A q \in Processes : q # p => job'[q].pc \notin {"reread", "stage", "commit"}
    BY <2>1, <2>2, <2>5 DEF TypeOK
  <2>7. TypeOK'
    BY <1>2, <2>1, <2>2, <2>3, <2>4, <2>5 DEF TypeOK
  <2>8. then.pc = "stage" =>
          /\ Known(db'.versions)
          /\ draft'.versions = db'.versions \cup (1 .. then.stage - 1)
          /\ draft'.message = db'.message
          /\ Complete(draft')
    <3>1. (k + 1) - 1 = k
      BY <2>1 DEF Stages, Current
    <3> QED BY <1>2, <2>2, <2>3, <2>4, <3>1 DEF DraftAt
  <2>9. then.pc = "commit" =>
          Sound(draft', Current) /\ draft'.message = db'.message /\ Complete(draft')
    <3> SUFFICES ASSUME k = Current
                 PROVE  Sound(draft', Current) /\ draft'.message = db'.message
                           /\ Complete(draft')
      BY <2>4
    <3>1. next.versions = 1 .. Current
      BY <2>2, <2>3 DEF DraftAt, Known, Current
    <3>2. next.objects = [j \in Stages |-> IF j <= Current THEN "valid" ELSE "absent"]
      <4>1. \A j \in Stages : next.objects[j] = "valid" /\ j <= Current
        BY <1>2 DEF Validates, Stages, Current
      <4> QED BY <2>3, <4>1 DEF Schema
    <3>3. next.deliveries = WholeAt(Current, next.message).deliveries
      BY <1>2 DEF Validates, ExpectedDeliveries, WholeAt, Current
    <3> QED
      BY <1>2, <2>3, <3>1, <3>2, <3>3 DEF Sound
  <2>10. WriterInv'
    <3>1. \A q \in Processes \ {p} :
            job'[q].pc \in {"begin", "reread"} => job'[q].stage = 1
      BY <2>5 DEF IInv, WriterInv
    <3> QED
      BY <2>4, <2>5, <2>6, <2>8, <2>9, <3>1
         DEF WriterInv, DraftAt, Complete, Distinct, Rows, Sound
  <2>11. \A q \in Processes : job'[q].pc = "ready" => job[q].pc = "ready"
    BY <2>4, <2>5
  <2> QED
    BY <1>2, <2>7, <2>10, <2>11
       DEF IInv, ReadyMeansCurrent, HistoryComplete, Sound, Distinct, Rows
<1> QED
  BY <1>1, <1>2 DEF RunStage

LEMMA CommitKeeps ==
  ASSUME IInv, NEW p \in Processes, Commit(p)
  PROVE  IInv' /\ Sound(db', Current) /\ db'.message = db.message
<1>1. /\ job[p].pc = "commit" /\ db' = draft /\ draft' = draft
      /\ writer' = "none" /\ crashes' = crashes
      /\ job' = [job EXCEPT ![p] = [job[p] EXCEPT !.pc = "ready"]]
  BY DEF Commit, Set
<1>2. Sound(draft, Current) /\ draft.message = db.message /\ Complete(draft)
  BY <1>1 DEF IInv, WriterInv
<1>3. job' \in [Processes -> Job] /\ job'[p].pc = "ready"
      /\ \A q \in Processes : q # p => job'[q] = job[q]
  BY <1>1 DEF IInv, TypeOK, Job
<1>4. \A q \in Processes : job'[q].pc \notin {"reread", "stage", "commit"}
  BY <1>1, <1>3 DEF IInv, TypeOK
<1>5. TypeOK'
  BY <1>1, <1>3, <1>4, MigrationAssumption DEF IInv, TypeOK
<1>6. WriterInv'
  BY <1>3, <1>4 DEF IInv, WriterInv
<1>7. Sound(db', Current) /\ db'.message = db.message
  BY <1>1, <1>2
<1>8. ReadyMeansCurrent'
  BY <1>7 DEF ReadyMeansCurrent, Sound
<1>9. HistoryComplete'
  BY <1>1, <1>2 DEF HistoryComplete, Complete, Distinct, Rows
<1> QED BY <1>5, <1>6, <1>7, <1>8, <1>9 DEF IInv

LEMMA CreateKeeps ==
  ASSUME IInv, NEW p \in Processes, CreateMessage(p)
  PROVE  IInv' /\ job[p].pc = "ready" /\ db'.versions = db.versions
<1>1. PICK m \in Messages \ Rows(db.message), h \in Hashes :
        /\ \A n \in Messages : db.history[n] # h
        /\ db' = [db EXCEPT !.message[m] = h, !.history[m] = h]
  BY DEF CreateMessage
<1>2. job[p].pc = "ready" /\ writer = "none"
      /\ UNCHANGED <<draft, writer, job, crashes>>
  BY DEF CreateMessage
<1>3. db \in Schema /\ Sound(db, Current) /\ HistoryComplete
  BY <1>2 DEF IInv, TypeOK, ReadyMeansCurrent
<1>4. db' \in Schema /\ db'.versions = db.versions /\ db'.objects = db.objects
      /\ db'.deliveries = db.deliveries
      /\ db'.message = [db.message EXCEPT ![m] = h]
      /\ db'.history = [db.history EXCEPT ![m] = h]
  BY <1>1, <1>3 DEF Schema, Content
<1>5. db.history = db.message /\ Distinct(db.history)
  BY <1>3 DEF HistoryComplete, Sound, Current
<1>6. Sound(db', Current)
  BY <1>3, <1>4 DEF Sound, WholeAt, Current
<1>7. Distinct(db'.history)
  BY <1>1, <1>3, <1>4, <1>5 DEF Distinct, Rows, Schema, Content
<1>8. HistoryComplete'
  BY <1>4, <1>5, <1>7 DEF HistoryComplete, Distinct, Rows
<1>9. TypeOK'
  BY <1>2, <1>4 DEF IInv, TypeOK
<1>10. WriterInv'
  <2>1. \A q \in Processes : job[q].pc \notin {"reread", "stage", "commit"}
    BY <1>2, MigrationAssumption DEF IInv, TypeOK
  <2> QED BY <1>2, <2>1 DEF IInv, WriterInv
<1>11. ReadyMeansCurrent'
  BY <1>6 DEF ReadyMeansCurrent, Sound
<1> QED BY <1>2, <1>4, <1>8, <1>9, <1>10, <1>11 DEF IInv

LEMMA NextIInv == IInv /\ [Next]_vars => IInv'
<1> SUFFICES ASSUME IInv, [Next]_vars PROVE IInv'
  OBVIOUS
<1>1. CASE UNCHANGED vars
  BY <1>1 DEF vars, IInv, TypeOK, ReadyMeansCurrent, HistoryComplete, WriterInv,
              DraftAt, Complete, Sound, Distinct, Rows
<1>2. ASSUME NEW p \in Processes,
             Migrate(p) \/ CreateMessage(p) \/ Exit(p) \/ Crash(p)
      PROVE  IInv'
  BY <1>2, StartAndExitKeep, BeginKeeps, RereadKeeps, RunStageKeeps, CommitKeeps,
     CreateKeeps, CrashKeeps DEF Migrate
<1> QED BY <1>1, <1>2 DEF Next

LEMMA Invariance == Spec => []IInv
BY InitIInv, NextIInv, PTL DEF Spec

\* The write lock is held by the process that is between BEGIN IMMEDIATE and
\* its COMMIT or rollback, and by no second one, also when holders die, and the
\* database stays one of the schemas the stages lead through.
THEOREM MigrationTypesHold == Spec => []TypeOK
BY Invariance, PTL DEF IInv

\* However many processes start at the same time and die, none works on a
\* schema that migrate has not brought to the current version and validated.
THEOREM NobodyWorksOnAnOldSchema == Spec => []ReadyMeansCurrent
BY Invariance, PTL DEF IInv

\* Stage 2 and create_message keep the history of all messages, and stage 3
\* keeps it free of duplicates, over every interleaving of starts and writes.
THEOREM HistoryStaysComplete == Spec => []HistoryComplete
BY Invariance, PTL DEF IInv

\* The database changes by whole upgrades that keep its messages, and by the
\* calls of processes that are past migrate.
THEOREM MigrationIsAtomic == Spec => WholeOrNothing
<1> DEFINE A == \/ db' = db
                \/ Sound(db', Current) /\ db'.message = db.message
                \/ \E p \in Processes :
                     job[p].pc = "ready" /\ db'.versions = db.versions
<1>1. IInv /\ [Next]_vars => [A]_vars
  <2> SUFFICES ASSUME IInv, Next PROVE A
    BY DEF vars
  <2>1. PICK p \in Processes :
          Migrate(p) \/ CreateMessage(p) \/ Exit(p) \/ Crash(p)
    BY DEF Next
  <2>2. CASE Commit(p)
    BY <2>2, CommitKeeps
  <2>3. CASE CreateMessage(p)
    BY <2>3, CreateKeeps
  <2>4. CASE Start(p) \/ BeginImmediate(p) \/ Reread(p) \/ RunStage(p)
               \/ Exit(p) \/ Crash(p)
    BY <2>4 DEF Start, BeginImmediate, Reread, RunStage, Exit, Crash, Fail
  <2> QED BY <2>1, <2>2, <2>3, <2>4 DEF Migrate
<1> HIDE DEF A
<1>2. (Spec => [][A]_vars)
  BY <1>1, Invariance, PTL DEF Spec
<1> QED BY <1>2 DEF WholeOrNothing, A

(***************************************************************************)
(* A start that says "invalid" is right.  The outcome of a start is fixed  *)
(* by the database it finds, so when one start failed on it no other can   *)
(* commit an upgrade of it, unless v7_reached was stale for the first.     *)
(***************************************************************************)

\* A database past version 7 that every start with a fresh v7_reached takes.
Good(s) ==
  /\ Known(s.versions)
  /\ \A j \in 1 .. 7 : s.objects[j] = "valid"
  /\ s.objects[8] = "valid" \/ (s.objects[8] = "absent" /\ 8 \notin s.versions)
  /\ s.deliveries = "altered"

\* The objects of an upgradable database of version n before stage k.
Prepared(n, k) ==
  LET top == IF n > k - 1 THEN n ELSE k - 1 IN
  /\ \A j \in Stages : draft.objects[j] = IF j <= top THEN "valid" ELSE "absent"
  /\ draft.deliveries = CASE top = 0 -> "absent"
                           [] top >= 7 -> "altered"
                           [] OTHER -> "original"

\* The versions a process read are the present ones, or it was overtaken by an
\* upgrade, which only a known set of versions allows.
SeenInv(p) ==
  job[p].pc # "idle" =>
    \/ job[p].seen = db.versions
    \/ Sound(db, Current) /\ Known(job[p].seen)

\* What the writer has found out about the database.
FoundInv(p) ==
  /\ job[p].pc \in {"stage", "commit"} => Known(db.versions)
  /\ (job[p].pc = "stage" /\ 7 \in job[p].seen) =>
       /\ draft = db
       /\ \A j \in 1 .. job[p].stage - 1 : db.objects[j] = "valid"
       /\ job[p].stage > 1 => db.deliveries = "altered"
  /\ (job[p].pc = "commit" /\ 7 \in job[p].seen) => Good(db)
  /\ (job[p].pc = "stage" /\ Upgradable) =>
       \A n \in 0 .. 6 : db.versions = 1 .. n => Prepared(n, job[p].stage)

\* What a failure says.
FailedInv(p) ==
  job[p].cause = "invalid" =>
    /\ job[p].pc = "failed"
    /\ 7 \in job[p].seen => ~Good(db)
    /\ 7 \notin job[p].seen => 7 \in db.versions \/ ~Upgradable

CauseInv ==
  \A p \in Processes : SeenInv(p) /\ FoundInv(p) /\ FailedInv(p)

LEMMA SoundIsGood ==
  ASSUME TypeOK, Upgradable, 7 \in db.versions
  PROVE  Good(db)
<1>1. PICK n \in 0 .. Current : Sound(db, n)
  BY DEF Upgradable
<1>2. n \in {7, 8} /\ db.versions = 1 .. n
  BY <1>1 DEF Sound, Current
<1>3. \A j \in 1 .. 8 :
        db.objects[j] = IF j <= n THEN "valid" ELSE "absent"
  BY <1>1 DEF Sound, Stages, Current
<1>4. db.deliveries = "altered"
  BY <1>1, <1>2 DEF Sound, WholeAt
<1>5. Known(db.versions)
  BY <1>2 DEF Known, Current
<1>6. \A j \in 1 .. 7 : db.objects[j] = "valid"
  BY <1>2, <1>3
<1>7. db.objects[8] = "valid" \/ (db.objects[8] = "absent" /\ 8 \notin db.versions)
  BY <1>2, <1>3
<1> QED BY <1>4, <1>5, <1>6, <1>7 DEF Good

LEMMA CurrentIsUpgradable ==
  ASSUME NEW s, s = db, Sound(s, Current)
  PROVE  Upgradable /\ 7 \in db.versions
BY DEF Upgradable, Sound, Current

\* A step of somebody else that leaves the database.
LEMMA OthersKnowTheSame ==
  ASSUME NEW q \in Processes, SeenInv(q), FoundInv(q), FailedInv(q),
         job'[q] = job[q], db' = db, job[q].pc = "stage" => draft' = draft
  PROVE  SeenInv(q)' /\ FoundInv(q)' /\ FailedInv(q)'
<1>1. (Upgradable' <=> Upgradable) /\ (Sound(db, Current)' <=> Sound(db, Current))
      /\ (Good(db)' <=> Good(db))
  BY DEF Upgradable, Sound, Distinct, Rows, Good
<1> QED
  BY <1>1 DEF SeenInv, FoundInv, FailedInv, Prepared

\* Stage k as such: what it does to the objects.
LEMMA AppliedObjects ==
  ASSUME TypeOK, NEW k \in Stages
  PROVE  /\ \A j \in Stages : Applied(k).objects[j] =
               IF j = k THEN Created(draft.objects[k]) ELSE draft.objects[j]
         /\ Applied(k).deliveries = DeliveriesAfter(k)
<1>1. draft.objects \in [Stages -> ObjectStates] /\ draft \in Schema
  BY DEF TypeOK, Schema
<1>2. Applied(k).objects = [draft.objects EXCEPT ![k] = Created(draft.objects[k])]
      /\ Applied(k).deliveries = DeliveriesAfter(k)
  BY <1>1 DEF Applied, Schema
<1> QED BY <1>1, <1>2

\* A start that fails on a database it was made for was overtaken.
LEMMA StageFailsForCause ==
  ASSUME IInv, CauseInv, NEW p \in Processes, RunStage(p), Fail(p, "invalid"),
         LET k == job[p].stage
             next == IF Misses(k) THEN Applied(k) ELSE draft
         IN  ~((Misses(k) => CanApply(k)) /\ Validates(p, next, k))
  PROVE  /\ 7 \in job[p].seen => ~Good(db)
         /\ 7 \notin job[p].seen => 7 \in db.versions \/ ~Upgradable
<1> DEFINE k == job[p].stage
           next == IF Misses(k) THEN Applied(k) ELSE draft
<1>1. /\ job[p].pc = "stage" /\ k \in 1 .. 8 /\ k \in Stages /\ TypeOK
      /\ ~((Misses(k) => CanApply(k)) /\ Validates(p, next, k))
      /\ DraftAt(k)
  BY DEF RunStage, IInv, TypeOK, Job, Stages, Current, WriterInv
<1>2. SeenInv(p) /\ FoundInv(p)
  BY DEF CauseInv
<1>3. PICK n \in 0 .. 8 : db.versions = 1 .. n
  BY <1>1, <1>2 DEF FoundInv, Known, Current
<1>4. Misses(k) <=> n <= k - 1
  <2>1. n \in 1 .. n \/ n = 0
    BY <1>3
  <2> QED BY <1>1, <1>3, <2>1 DEF Misses
<1>5. ASSUME 7 \in job[p].seen
      PROVE  ~Good(db)
  <2> SUFFICES ASSUME Good(db) PROVE FALSE
    OBVIOUS
  <2>1. n \in {7, 8} /\ draft = db
    BY <1>1, <1>2, <1>3, <1>5 DEF SeenInv, FoundInv, Sound, Current
  <2>2. ExpectedDeliveries(p, k) = "altered"
    BY <1>5 DEF ExpectedDeliveries
  <2>3. CASE k <= n
    <3>1. next = db /\ ~Misses(k)
      BY <1>1, <1>4, <2>1, <2>3
    <3>2. \A j \in 1 .. k : db.objects[j] = "valid"
      <4>1. n = 8 => 8 \in db.versions
        BY <1>3
      <4> QED BY <1>1, <2>1, <2>3, <4>1 DEF Good
    <3> QED BY <1>1, <2>2, <3>1, <3>2 DEF Validates, Good
  <2>4. CASE k > n
    <3>1. k = 8 /\ n = 7 /\ Misses(k) /\ next = Applied(8) /\ 8 \in Stages
      BY <1>1, <1>4, <2>1, <2>4
    <3>2. CanApply(8)
      BY DEF CanApply
    <3>3. \A j \in 1 .. 8 : next.objects[j] = "valid"
      <4>1. \A j \in Stages : next.objects[j] =
              IF j = 8 THEN Created(draft.objects[8]) ELSE draft.objects[j]
        BY <1>1, <3>1, AppliedObjects
      <4>2. Created(draft.objects[8]) = "valid"
        BY <2>1 DEF Good, Created
      <4> QED BY <2>1, <4>1, <4>2 DEF Good, Stages, Current
    <3>4. next.deliveries = "altered"
      BY <1>1, <2>1, <3>1, AppliedObjects DEF DeliveriesAfter, Good
    <3> QED BY <1>1, <2>2, <3>1, <3>2, <3>3, <3>4 DEF Validates
  <2> QED BY <1>1, <2>1, <2>3, <2>4
<1>6. ASSUME 7 \notin job[p].seen, 7 \notin db.versions, Upgradable
      PROVE  FALSE
  <2>1. n \in 0 .. 6 /\ Prepared(n, k)
    <3>1. n \in 0 .. 6
      BY <1>3, <1>6
    <3> QED BY <1>1, <1>2, <1>3, <1>6, <3>1 DEF FoundInv
  <2>2. ExpectedDeliveries(p, k) = IF k >= 7 THEN "altered" ELSE "original"
    BY <1>6 DEF ExpectedDeliveries
  <2>3. CASE k <= n
    <3>1. next = draft /\ ~Misses(k) /\ n > k - 1 /\ k < 7 /\ n >= 1
      BY <1>1, <1>4, <2>1, <2>3
    <3>2. /\ \A j \in Stages : j <= k => draft.objects[j] = "valid"
          /\ draft.deliveries = "original"
      <4>1. (IF n > k - 1 THEN n ELSE k - 1) = n /\ n # 0 /\ ~(n >= 7)
        BY <1>1, <2>1, <3>1
      <4>2. \A j \in Stages :
              draft.objects[j] = IF j <= n THEN "valid" ELSE "absent"
        BY <2>1, <4>1 DEF Prepared
      <4>3. draft.deliveries = "original"
        BY <2>1, <4>1 DEF Prepared
      <4>4. Stages = 1 .. 8
        BY DEF Stages, Current
      <4> QED BY <1>1, <2>1, <2>3, <4>2, <4>3, <4>4
    <3>3. 1 .. k \subseteq Stages
      BY <1>1 DEF Stages, Current
    <3> QED BY <1>1, <2>2, <3>1, <3>2, <3>3 DEF Validates
  <2>4. CASE k > n
    <3>1. next = Applied(k) /\ Misses(k) /\ ~(n > k - 1)
      BY <1>1, <1>4, <2>1, <2>4
    <3>2. /\ \A j \in Stages :
               draft.objects[j] = IF j <= k - 1 THEN "valid" ELSE "absent"
          /\ draft.deliveries = IF k = 1 THEN "absent"
                                ELSE IF k = 8 THEN "altered" ELSE "original"
      BY <1>1, <2>1, <3>1 DEF Prepared
    <3>3. CanApply(k)
      <4>1. CASE k = 3
        <5>1. Distinct(db.message)
          <6>1. PICK m \in 0 .. Current :
                  Sound(db, m) /\ (m < 3 => Distinct(db.message))
            BY <1>6 DEF Upgradable
          <6>2. 1 .. m = 1 .. n
            BY <1>3, <6>1 DEF Sound
          <6>3. m = n
            BY <1>3, <6>2 DEF Current
          <6> QED BY <2>4, <4>1, <6>1, <6>3
        <5>2. draft.history = draft.message /\ draft.message = db.message
          BY <1>1, <4>1 DEF DraftAt, Complete
        <5>3. Distinct(draft.history)
          BY <5>1, <5>2 DEF Distinct, Rows
        <5> QED BY <4>1, <5>3 DEF CanApply
      <4>2. CASE k # 3
        BY <3>2, <4>2 DEF CanApply
      <4> QED BY <4>1, <4>2
    <3>4. \A j \in 1 .. k : next.objects[j] = "valid"
      <4>1. \A j \in Stages : next.objects[j] =
              IF j = k THEN Created(draft.objects[k]) ELSE draft.objects[j]
        BY <1>1, <3>1, AppliedObjects
      <4>2. Created(draft.objects[k]) = "valid"
        BY <1>1, <3>2 DEF Created
      <4>3. 1 .. k \subseteq Stages
        BY <1>1 DEF Stages, Current
      <4> QED BY <1>1, <3>2, <4>1, <4>2, <4>3
    <3>5. next.deliveries = IF k >= 7 THEN "altered" ELSE "original"
      <4>1. next.deliveries = DeliveriesAfter(k)
        BY <1>1, <3>1, AppliedObjects
      <4> QED BY <1>1, <3>2, <4>1 DEF DeliveriesAfter
    <3> QED BY <1>1, <2>2, <3>1, <3>3, <3>4, <3>5 DEF Validates
  <2> QED BY <1>1, <2>1, <2>3, <2>4
<1> QED BY <1>5, <1>6

\* A process that fails leaves the database, and the work of another writer.
LEMMA FailureIsKnown ==
  ASSUME IInv, CauseInv, NEW p \in Processes, NEW cause \in {"invalid", "locked"},
         Fail(p, cause), job[p].pc # "idle", job[p].cause # "invalid",
         cause = "invalid" =>
           /\ 7 \in job[p].seen => ~Good(db)
           /\ 7 \notin job[p].seen => 7 \in db.versions \/ ~Upgradable
  PROVE  CauseInv'
<1>1. job' = [job EXCEPT ![p] = [job[p] EXCEPT !.pc = "failed", !.cause = cause]]
      /\ db' = db /\ draft' = draft
  BY DEF Fail, Set
<1>2. job[p] \in Job /\ job \in [Processes -> Job]
  BY DEF IInv, TypeOK
<1>3. /\ job'[p].pc = "failed" /\ job'[p].cause = cause
      /\ job'[p].seen = job[p].seen
      /\ \A q \in Processes : q # p => job'[q] = job[q]
  BY <1>1, <1>2 DEF Job
<1>4. (Upgradable' <=> Upgradable) /\ (Sound(db, Current)' <=> Sound(db, Current))
      /\ (Good(db)' <=> Good(db))
  BY <1>1 DEF Upgradable, Sound, Distinct, Rows, Good
<1>5. SeenInv(p)' /\ FoundInv(p)' /\ FailedInv(p)'
  BY <1>1, <1>3, <1>4 DEF CauseInv, SeenInv, FoundInv, FailedInv
<1>6. \A q \in Processes : q # p => SeenInv(q)' /\ FoundInv(q)' /\ FailedInv(q)'
  BY <1>1, <1>3, OthersKnowTheSame DEF CauseInv
<1> QED BY <1>5, <1>6 DEF CauseInv

\* A process that begins, idles or dies knows nothing yet.
LEMMA FreshKnows ==
  ASSUME IInv, CauseInv, NEW p \in Processes, Start(p) \/ Exit(p) \/ Crash(p)
  PROVE  CauseInv'
<1>1. PICK locals : /\ job' = [job EXCEPT ![p] = locals]
                    /\ \/ locals = Outside
                       \/ locals = At("begin", db.versions)
  BY DEF Start, Exit, Crash, Set
<1>2. db' = db /\ draft' = draft /\ job \in [Processes -> Job]
  BY DEF Start, Exit, Crash, IInv, TypeOK
<1>3. /\ job'[p] = locals /\ locals.cause = "none"
      /\ \/ locals.pc = "idle"
         \/ locals.pc = "begin" /\ locals.seen = db.versions
      /\ \A q \in Processes : q # p => job'[q] = job[q]
  BY <1>1, <1>2 DEF Outside, At
<1>4. SeenInv(p)' /\ FoundInv(p)' /\ FailedInv(p)'
  BY <1>2, <1>3 DEF SeenInv, FoundInv, FailedInv
<1>5. \A q \in Processes : q # p => SeenInv(q)' /\ FoundInv(q)' /\ FailedInv(q)'
  BY <1>2, <1>3, OthersKnowTheSame DEF CauseInv
<1> QED BY <1>4, <1>5 DEF CauseInv

\* Unknown versions are a cause of their own.
LEMMA UnknownVersionsAreACause ==
  ASSUME ~Known(db.versions)
  PROVE  ~Good(db) /\ ~Upgradable
BY DEF Good, Upgradable, Sound, Known

LEMMA BeginIsKnown ==
  ASSUME IInv, CauseInv, NEW p \in Processes, BeginImmediate(p)
  PROVE  CauseInv'
<1>1. job[p].pc = "begin" /\ SeenInv(p) /\ FailedInv(p) /\ job[p].cause # "invalid"
  BY DEF BeginImmediate, CauseInv, FailedInv
<1>2. CASE Fail(p, "locked")
  BY <1>1, <1>2, FailureIsKnown
<1>3. CASE ~Known(job[p].seen) /\ Fail(p, "invalid")
  <2>1. ~Known(db.versions)
    BY <1>1, <1>3 DEF SeenInv
  <2> QED BY <1>1, <1>3, <2>1, UnknownVersionsAreACause, FailureIsKnown
<1>4. CASE /\ writer = "none" /\ draft' = db /\ db' = db
           /\ Set(p, [job[p] EXCEPT !.pc = "reread"])
  <2>1. job[p] \in Job /\ job \in [Processes -> Job]
    BY DEF IInv, TypeOK
  <2>2. /\ job'[p].pc = "reread" /\ job'[p].seen = job[p].seen
        /\ job'[p].cause = job[p].cause
        /\ \A q \in Processes : q # p => job'[q] = job[q]
    BY <1>4, <2>1 DEF Set, Job
  <2>3. \A q \in Processes : job[q].pc # "stage"
    BY <1>4, MigrationAssumption DEF IInv, TypeOK
  <2>4. Sound(db, Current)' <=> Sound(db, Current)
    BY <1>4 DEF Sound
  <2>5. SeenInv(p)' /\ FoundInv(p)' /\ FailedInv(p)'
    BY <1>1, <1>4, <2>2, <2>4 DEF SeenInv, FoundInv, FailedInv
  <2>6. \A q \in Processes : q # p => SeenInv(q)' /\ FoundInv(q)' /\ FailedInv(q)'
    BY <1>4, <2>2, <2>3, OthersKnowTheSame DEF CauseInv
  <2> QED BY <2>5, <2>6 DEF CauseInv
<1> QED BY <1>2, <1>3, <1>4 DEF BeginImmediate

LEMMA RereadIsKnown ==
  ASSUME IInv, CauseInv, NEW p \in Processes, Reread(p)
  PROVE  CauseInv'
<1>1. /\ job[p].pc = "reread" /\ SeenInv(p) /\ FailedInv(p)
      /\ job[p].cause # "invalid"
      /\ draft = db /\ job[p].stage = 1
  BY DEF Reread, CauseInv, FailedInv, IInv, WriterInv
<1>2. CASE ~Known(db.versions) /\ Fail(p, "invalid")
  BY <1>1, <1>2, UnknownVersionsAreACause, FailureIsKnown
<1>3. CASE /\ Known(db.versions) /\ draft' = draft /\ db' = db
           /\ Set(p, [job[p] EXCEPT !.pc = "stage"])
  <2>1. job[p] \in Job /\ job \in [Processes -> Job]
    BY DEF IInv, TypeOK
  <2>2. /\ job'[p].pc = "stage" /\ job'[p].seen = job[p].seen
        /\ job'[p].cause = job[p].cause /\ job'[p].stage = 1
        /\ \A q \in Processes : q # p => job'[q] = job[q]
    BY <1>1, <1>3, <2>1 DEF Set, Job
  <2>3. (Upgradable' <=> Upgradable) /\ (Sound(db, Current)' <=> Sound(db, Current))
    BY <1>3 DEF Upgradable, Sound, Distinct, Rows
  <2>4. ASSUME Upgradable, NEW n \in 0 .. 6, db.versions = 1 .. n
        PROVE  Prepared(n, 1)
    <3>1. PICK m \in 0 .. 8 : Sound(db, m)
      BY <2>4 DEF Upgradable, Current
    <3>2. m = n
      BY <2>4, <3>1 DEF Sound
    <3>3. (IF n > 1 - 1 THEN n ELSE 1 - 1) = n /\ ~(n >= 7)
      OBVIOUS
    <3> QED BY <1>1, <3>1, <3>2, <3>3 DEF Sound, WholeAt, Prepared
  <2>5. FoundInv(p)'
    <3>1. \A n : Prepared(n, 1)' <=> Prepared(n, 1)
      BY <1>3 DEF Prepared
    <3> QED BY <1>1, <1>3, <2>2, <2>3, <2>4, <3>1 DEF FoundInv
  <2>6. SeenInv(p)' /\ FailedInv(p)'
    BY <1>1, <1>3, <2>2, <2>3 DEF SeenInv, FailedInv
  <2>7. \A q \in Processes : q # p => SeenInv(q)' /\ FoundInv(q)' /\ FailedInv(q)'
    BY <1>3, <2>2, OthersKnowTheSame DEF CauseInv
  <2> QED BY <2>5, <2>6, <2>7 DEF CauseInv
<1> QED BY <1>2, <1>3 DEF Reread

\* What a stage that goes through tells the writer.
LEMMA StageFindsOut ==
  ASSUME IInv, CauseInv, NEW p \in Processes, job[p].pc = "stage",
         NEW k, k = job[p].stage, NEW next,
         next = IF Misses(k) THEN Applied(k) ELSE draft,
         Misses(k) => CanApply(k), Validates(p, next, k)
  PROVE  /\ (7 \in job[p].seen /\ k < 8) =>
               /\ next = db /\ \A j \in 1 .. k : db.objects[j] = "valid"
               /\ db.deliveries = "altered"
         /\ (7 \in job[p].seen /\ k = 8) => Good(db)
         /\ (Upgradable /\ k < 8) => \A n \in 0 .. 6 : db.versions = 1 .. n =>
              LET top == IF n > k THEN n ELSE k IN
              /\ \A j \in Stages :
                   next.objects[j] = IF j <= top THEN "valid" ELSE "absent"
              /\ next.deliveries = CASE top = 0 -> "absent"
                                     [] top >= 7 -> "altered"
                                     [] OTHER -> "original"
<1>1. k \in 1 .. 8 /\ k \in Stages /\ TypeOK /\ SeenInv(p) /\ FoundInv(p)
  BY DEF IInv, TypeOK, Job, Stages, Current, CauseInv
<1>2. PICK n \in 0 .. 8 : db.versions = 1 .. n
  BY <1>1 DEF FoundInv, Known, Current
<1>3. Misses(k) <=> n <= k - 1
  <2>1. n \in 1 .. n \/ n = 0
    BY <1>2
  <2> QED BY <1>1, <1>2, <2>1 DEF Misses
<1>4. Stages = 1 .. 8
  BY DEF Stages, Current
<1>5. ASSUME 7 \in job[p].seen
      PROVE  /\ n \in {7, 8} /\ draft = db /\ ExpectedDeliveries(p, k) = "altered"
             /\ \A j \in 1 .. k : next.objects[j] = "valid"
             /\ next.deliveries = "altered"
  <2>1. n \in {7, 8}
    <3>1. 7 \in db.versions
      BY <1>1, <1>5 DEF SeenInv, Sound, Current
    <3> QED BY <1>2, <3>1
  <2> QED BY <1>1, <1>5, <2>1 DEF FoundInv, ExpectedDeliveries, Validates
<1>6. ASSUME 7 \in job[p].seen, k < 8
      PROVE  /\ next = db /\ \A j \in 1 .. k : db.objects[j] = "valid"
             /\ db.deliveries = "altered"
  <2>1. next = db
    BY <1>1, <1>3, <1>5, <1>6
  <2> QED BY <1>5, <1>6, <2>1
<1>7. ASSUME 7 \in job[p].seen, k = 8
      PROVE  Good(db)
  <2>1. CASE n = 8
    <3>1. next = db
      BY <1>3, <1>5, <1>7, <2>1
    <3> QED BY <1>2, <1>5, <1>7, <2>1, <3>1 DEF Good, Known, Current
  <2>2. CASE n = 7
    <3>1. next = Applied(8) /\ 8 \notin db.versions
      BY <1>2, <1>3, <1>7, <2>2
    <3>2. /\ \A j \in 1 .. 8 : next.objects[j] =
               IF j = 8 THEN Created(db.objects[8]) ELSE db.objects[j]
          /\ next.deliveries = db.deliveries
      BY <1>1, <1>4, <1>5, <1>7, <3>1, AppliedObjects DEF DeliveriesAfter
    <3>3. /\ db.objects[8] \in {"valid", "absent"}
          /\ \A j \in 1 .. 7 : db.objects[j] = "valid"
      BY <1>5, <1>7, <3>2 DEF Created
    <3>4. Known(db.versions)
      BY <1>2 DEF Known, Current
    <3> QED BY <1>5, <1>7, <3>1, <3>2, <3>3, <3>4 DEF Good
  <2> QED BY <1>5, <1>7, <2>1, <2>2
<1>8. ASSUME Upgradable, k < 8, n \in 0 .. 6
      PROVE  LET top == IF n > k THEN n ELSE k IN
             /\ \A j \in Stages :
                  next.objects[j] = IF j <= top THEN "valid" ELSE "absent"
             /\ next.deliveries = CASE top = 0 -> "absent"
                                    [] top >= 7 -> "altered"
                                    [] OTHER -> "original"
  <2>1. Prepared(n, k)
    BY <1>1, <1>2, <1>8 DEF FoundInv
  <2>2. CASE n >= k
    <3>1. next = draft
      BY <1>1, <1>3, <2>2
    <3>2. (IF n > k - 1 THEN n ELSE k - 1) = n /\ (IF n > k THEN n ELSE k) = n
      BY <1>1, <2>2
    <3> QED BY <2>1, <3>1, <3>2 DEF Prepared
  <2>3. CASE n < k
    <3>1. next = Applied(k)
      BY <1>1, <1>3, <2>3
    <3>2. (IF n > k - 1 THEN n ELSE k - 1) = k - 1 /\ (IF n > k THEN n ELSE k) = k
      BY <1>1, <2>3
    <3>3. /\ \A j \in Stages :
               draft.objects[j] = IF j <= k - 1 THEN "valid" ELSE "absent"
          /\ draft.deliveries = CASE k - 1 = 0 -> "absent"
                                  [] k - 1 >= 7 -> "altered"
                                  [] OTHER -> "original"
      BY <2>1, <3>2 DEF Prepared
    <3>4. \A j \in Stages : next.objects[j] =
            IF j = k THEN Created(draft.objects[k]) ELSE draft.objects[j]
      BY <1>1, <3>1, AppliedObjects
    <3>5. \A j \in Stages :
            next.objects[j] = IF j <= k THEN "valid" ELSE "absent"
      BY <1>1, <1>4, <3>3, <3>4 DEF Created
    <3>6. next.deliveries = DeliveriesAfter(k)
      BY <1>1, <3>1, AppliedObjects
    <3>7. draft.deliveries = IF k = 1 THEN "absent" ELSE "original"
      BY <1>1, <1>8, <3>3
    <3>8. next.deliveries = IF k = 7 THEN "altered" ELSE "original"
      BY <1>1, <1>8, <3>6, <3>7 DEF DeliveriesAfter
    <3>9. k # 0 /\ (k >= 7 <=> k = 7)
      BY <1>1, <1>8
    <3> QED BY <3>2, <3>5, <3>8, <3>9
  <2> QED BY <1>1, <2>2, <2>3
<1>9. \A m \in 0 .. 6 : db.versions = 1 .. m => m = n
  BY <1>2
<1> QED BY <1>6, <1>7, <1>8, <1>9

LEMMA RunStageIsKnown ==
  ASSUME IInv, CauseInv, NEW p \in Processes, RunStage(p)
  PROVE  CauseInv'
<1> DEFINE k == job[p].stage
           next == IF Misses(k) THEN Applied(k) ELSE draft
           then == IF k < Current THEN [job[p] EXCEPT !.stage = k + 1]
                                  ELSE [job[p] EXCEPT !.pc = "commit"]
<1>1. /\ job[p].pc = "stage" /\ job[p] \in Job /\ k \in 1 .. 8 /\ TypeOK
      /\ SeenInv(p) /\ FoundInv(p) /\ job[p].cause # "invalid"
  BY DEF RunStage, IInv, TypeOK, Job, Stages, Current, CauseInv, FailedInv
<1>2. CASE /\ ~((Misses(k) => CanApply(k)) /\ Validates(p, next, k))
           /\ Fail(p, "invalid")
  <2>1. /\ 7 \in job[p].seen => ~Good(db)
        /\ 7 \notin job[p].seen => 7 \in db.versions \/ ~Upgradable
    BY <1>2, StageFailsForCause
  <2> QED BY <1>1, <1>2, <2>1, FailureIsKnown
<1>3. CASE /\ Misses(k) => CanApply(k)
           /\ Validates(p, next, k)
           /\ draft' = next
           /\ Set(p, then)
           /\ UNCHANGED <<db, writer, crashes>>
  <2>1. /\ (7 \in job[p].seen /\ k < 8) =>
             /\ next = db /\ \A j \in 1 .. k : db.objects[j] = "valid"
             /\ db.deliveries = "altered"
        /\ (7 \in job[p].seen /\ k = 8) => Good(db)
        /\ (Upgradable /\ k < 8) => \A n \in 0 .. 6 : db.versions = 1 .. n =>
              LET top == IF n > k THEN n ELSE k IN
              /\ \A j \in Stages :
                   next.objects[j] = IF j <= top THEN "valid" ELSE "absent"
              /\ next.deliveries = CASE top = 0 -> "absent"
                                     [] top >= 7 -> "altered"
                                     [] OTHER -> "original"
    BY <1>1, <1>3, StageFindsOut
  <2> HIDE DEF next
  <2>2. /\ then.seen = job[p].seen /\ then.cause = job[p].cause
        /\ \/ k < 8 /\ then.pc = "stage" /\ then.stage = k + 1
           \/ k = 8 /\ then.pc = "commit"
    BY <1>1 DEF Job, Current
  <2> HIDE DEF then
  <2>3. job'[p] = then /\ \A q \in Processes : q # p => job'[q] = job[q]
    BY <1>1, <1>3 DEF TypeOK, Set
  <2>4. \A q \in Processes : q # p => job[q].pc # "stage"
    BY <1>1 DEF TypeOK
  <2>5. (Upgradable' <=> Upgradable) /\ (Sound(db, Current)' <=> Sound(db, Current))
        /\ (Good(db)' <=> Good(db))
    BY <1>3 DEF Upgradable, Sound, Distinct, Rows, Good
  <2>6. (k + 1) - 1 = k
    BY <1>1
  <2> DEFINE Ready(n, stage) ==
               LET top == IF n > stage - 1 THEN n ELSE stage - 1 IN
               /\ \A j \in Stages :
                    draft'.objects[j] = IF j <= top THEN "valid" ELSE "absent"
               /\ draft'.deliveries = CASE top = 0 -> "absent"
                                         [] top >= 7 -> "altered"
                                         [] OTHER -> "original"
  <2>7. ASSUME k < 8, Upgradable, NEW n \in 0 .. 6, db.versions = 1 .. n
        PROVE  Ready(n, k + 1)
    <3> DEFINE top == IF n > k THEN n ELSE k
    <3>1. (IF n > (k + 1) - 1 THEN n ELSE (k + 1) - 1) = top
      BY <2>6
    <3>2. /\ \A j \in Stages :
               next.objects[j] = IF j <= top THEN "valid" ELSE "absent"
          /\ next.deliveries = CASE top = 0 -> "absent"
                                 [] top >= 7 -> "altered"
                                 [] OTHER -> "original"
      BY <2>1, <2>7
    <3> HIDE DEF top
    <3> QED BY <1>3, <3>1, <3>2
  <2>8. FoundInv(p)'
    <3>1. Known(db.versions)
      BY <1>1 DEF FoundInv
    <3>2. (then.pc = "stage" /\ 7 \in then.seen) =>
            /\ draft' = db
            /\ \A j \in 1 .. then.stage - 1 : db.objects[j] = "valid"
            /\ db.deliveries = "altered"
      BY <1>3, <2>1, <2>2, <2>6
    <3>3. (then.pc = "commit" /\ 7 \in then.seen) => Good(db)
      BY <2>1, <2>2
    <3>4. (then.pc = "stage" /\ Upgradable) =>
            \A n \in 0 .. 6 : db.versions = 1 .. n => Ready(n, then.stage)
      BY <2>2, <2>7
    <3> QED BY <1>3, <2>3, <2>5, <3>1, <3>2, <3>3, <3>4 DEF FoundInv, Prepared
  <2>9. SeenInv(p)' /\ FailedInv(p)'
    BY <1>1, <1>3, <2>2, <2>3, <2>5 DEF SeenInv, FailedInv
  <2>10. \A q \in Processes : q # p => SeenInv(q)' /\ FoundInv(q)' /\ FailedInv(q)'
    BY <1>3, <2>3, <2>4, OthersKnowTheSame DEF CauseInv
  <2> QED BY <2>8, <2>9, <2>10 DEF CauseInv
<1> QED BY <1>2, <1>3 DEF RunStage

\* An upgrade overtakes every other start, and none of them found the database
\* invalid.
LEMMA CommitIsKnown ==
  ASSUME IInv, CauseInv, NEW p \in Processes, Commit(p)
  PROVE  CauseInv'
<1>1. /\ job[p].pc = "commit" /\ job[p] \in Job /\ TypeOK
      /\ job' = [job EXCEPT ![p] = [job[p] EXCEPT !.pc = "ready"]]
      /\ SeenInv(p) /\ FoundInv(p) /\ FailedInv(p)
  BY DEF Commit, Set, IInv, TypeOK, CauseInv
<1>2. /\ job'[p].pc = "ready" /\ job'[p].seen = job[p].seen
      /\ job'[p].cause = job[p].cause /\ job[p].cause # "invalid"
      /\ \A q \in Processes : q # p => job'[q] = job[q]
  BY <1>1 DEF TypeOK, Job, FailedInv
<1>3. Sound(db', Current) /\ 7 \in db'.versions
  BY CommitKeeps DEF Sound, Current
<1>4. Sound(db, Current)'
  BY <1>3 DEF Sound
<1>5. \A q \in Processes : SeenInv(q)'
  <2>1. Known(db.versions)
    BY <1>1 DEF FoundInv
  <2> QED BY <1>1, <1>2, <1>4, <2>1 DEF CauseInv, SeenInv
<1>6. \A q \in Processes : FoundInv(q)'
  <2>1. \A q \in Processes : job'[q].pc \notin {"stage", "commit"}
    BY <1>1, <1>2, OneWriter
  <2> QED BY <2>1 DEF FoundInv
<1>7. ASSUME NEW q \in Processes, q # p, job[q].cause = "invalid"
      PROVE  7 \notin job[q].seen
  <2> SUFFICES ASSUME 7 \in job[q].seen PROVE FALSE
    OBVIOUS
  <2>1. ~Good(db) /\ SeenInv(q) /\ job[q].pc = "failed"
    BY <1>7 DEF CauseInv, FailedInv
  <2>2. ~Sound(db, Current)
    BY <1>1, <2>1, CurrentIsUpgradable, SoundIsGood
  <2>3. job[q].seen = db.versions /\ job[p].seen = db.versions
    BY <1>1, <2>1, <2>2 DEF SeenInv
  <2> QED BY <1>1, <2>1, <2>3 DEF FoundInv
<1>8. \A q \in Processes : FailedInv(q)'
  BY <1>2, <1>3, <1>7 DEF CauseInv, FailedInv
<1> QED BY <1>5, <1>6, <1>8 DEF CauseInv

LEMMA CreateIsKnown ==
  ASSUME IInv, CauseInv, NEW p \in Processes, CreateMessage(p)
  PROVE  CauseInv'
<1>1. /\ job[p].pc = "ready" /\ writer = "none" /\ job' = job
      /\ TypeOK /\ Sound(db, Current) /\ 7 \in db.versions
  BY DEF CreateMessage, IInv, ReadyMeansCurrent, Sound, Current
<1>2. PICK m \in Messages, h \in Hashes :
        db' = [db EXCEPT !.message[m] = h, !.history[m] = h]
  BY DEF CreateMessage
<1>3. db'.versions = db.versions /\ db'.objects = db.objects
      /\ db'.deliveries = db.deliveries
  BY <1>1, <1>2 DEF TypeOK, Schema
<1>4. Sound(db, Current)' /\ Good(db)
  <2>1. Sound(db', Current)
    BY <1>1, <1>3 DEF Sound, WholeAt, Current
  <2> QED BY <1>1, <2>1, CurrentIsUpgradable, SoundIsGood DEF Sound
<1>5. \A q \in Processes : job[q].pc \notin {"stage", "commit"}
  BY <1>1, MigrationAssumption DEF TypeOK
<1>6. ASSUME NEW q \in Processes
      PROVE  SeenInv(q)' /\ FoundInv(q)' /\ FailedInv(q)'
  <2>1. SeenInv(q)'
    BY <1>1, <1>3, <1>4 DEF CauseInv, SeenInv
  <2>2. FoundInv(q)'
    BY <1>1, <1>5 DEF FoundInv
  <2>3. FailedInv(q)'
    BY <1>1, <1>3, <1>4 DEF CauseInv, FailedInv
  <2> QED BY <2>1, <2>2, <2>3
<1> QED BY <1>6 DEF CauseInv

LEMMA InitCauseInv == Init => CauseInv
BY DEF Init, Outside, At, CauseInv, SeenInv, FoundInv, FailedInv

LEMMA NextCauseInv == IInv /\ CauseInv /\ [Next]_vars => CauseInv'
<1> SUFFICES ASSUME IInv, CauseInv, [Next]_vars PROVE CauseInv'
  OBVIOUS
<1>1. CASE UNCHANGED vars
  BY <1>1, OthersKnowTheSame DEF vars, CauseInv
<1>2. ASSUME NEW p \in Processes,
             Migrate(p) \/ CreateMessage(p) \/ Exit(p) \/ Crash(p)
      PROVE  CauseInv'
  BY <1>2, FreshKnows, BeginIsKnown, RereadIsKnown, RunStageIsKnown,
     CommitIsKnown, CreateIsKnown DEF Migrate
<1> QED BY <1>1, <1>2 DEF Next

\* A start that ends with the error of an invalid database is right, for any
\* number of processes that start, fail and die together, unless an upgrade of
\* another overtook it between its two reads of the versions.
THEOREM InvalidIsRight == Spec => []InvalidForCause
<1>1. IInv /\ CauseInv => InvalidForCause
  <2> SUFFICES ASSUME IInv, CauseInv, NEW p \in Processes,
                      job[p].cause = "invalid", Upgradable
               PROVE  7 \notin job[p].seen /\ 7 \in db.versions
    BY DEF InvalidForCause
  <2>1. SeenInv(p) /\ FailedInv(p) /\ TypeOK /\ job[p].pc = "failed"
    BY DEF CauseInv, FailedInv, IInv
  <2>2. 7 \in db.versions => Good(db)
    BY <2>1, SoundIsGood
  <2>3. Sound(db, Current) => 7 \in db.versions
    BY DEF Sound, Current
  <2>4. 7 \notin job[p].seen
    BY <2>1, <2>2, <2>3 DEF SeenInv, FailedInv
  <2> QED BY <2>1, <2>4 DEF FailedInv
<1> QED
  BY <1>1, InitCauseInv, NextCauseInv, Invariance, PTL DEF Spec
=============================================================================
