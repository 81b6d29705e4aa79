--------------------------- MODULE SchemaMigration ---------------------------
(***************************************************************************)
(* Database.migrate (database.py), run by every process that starts, on a  *)
(* database of any earlier version.  A process reads the versions, takes   *)
(* the write lock with BEGIN IMMEDIATE, reads them again, applies and      *)
(* validates the stages it misses in one transaction, and commits.  SQLite *)
(* is external: other connections see what was committed, one writer holds *)
(* the lock, and the lock of a dead process is gone.                       *)
(*                                                                         *)
(* The objects a stage creates are one element of `objects`, except the    *)
(* deliveries table, which stage 1 creates and stage 7 alters.             *)
(***************************************************************************)
EXTENDS Naturals, FiniteSets

CONSTANTS
  Processes,   \* processes that open the database
  Messages,    \* rows of messages
  Hashes,      \* normalized hashes of their texts
  MaxCrashes   \* bound: processes that die

ASSUME MigrationAssumption ==
  "none" \notin Hashes \cup Processes /\ MaxCrashes \in Nat

VARIABLES
  db,       \* what is committed
  draft,    \* what the writer's transaction made of it
  writer,   \* the process that holds the write lock, or "none"
  job,      \* the locals of each process
  crashes

vars == <<db, draft, writer, job, crashes>>

Current == 8

Stages == 1 .. Current

ObjectStates == {"absent", "valid", "weak"}

\* message[m] and history[m] are the hashes of the row and of its history row.
Content == [Messages -> Hashes \cup {"none"}]

Schema ==
  [versions : SUBSET (0 .. Current + 1), objects : [Stages -> ObjectStates],
   deliveries : {"absent", "original", "altered", "weak"},
   message : Content, history : Content]

Rows(c) == {m \in Messages : c[m] # "none"}

Distinct(c) == \A m, n \in Rows(c) : c[m] = c[n] => m = n

NoRows == [m \in Messages |-> "none"]

\* The database an upgrade to version n left.
WholeAt(n, message) ==
  [versions |-> 1 .. n,
   objects |-> [k \in Stages |-> IF k <= n THEN "valid" ELSE "absent"],
   deliveries |-> CASE n = 0 -> "absent"
                    [] n >= 7 -> "altered"
                    [] OTHER -> "original",
   message |-> message,
   history |-> IF n >= 2 THEN message ELSE NoRows]

\* A database some version left, before stage 3 perhaps with duplicates.
Left(n) ==
  {WholeAt(n, c) : c \in {d \in Content : /\ n = 0 => Rows(d) = {}
                                         /\ n >= 3 => Distinct(d)}}

\* A damaged one: an unknown set of versions, or an object that was dropped,
\* weakened or made by somebody else.
Damaged(n) ==
  {[WholeAt(n, NoRows) EXCEPT !.versions = v] : v \in {{0}, 1 .. Current + 1, {2}}}
  \cup {[WholeAt(n, NoRows) EXCEPT !.objects[k] = o] :
          k \in Stages, o \in ObjectStates}
  \cup {[WholeAt(n, NoRows) EXCEPT !.deliveries = o] :
          o \in {"original", "altered", "weak"}}

StartingPoints == UNION {Left(n) \cup Damaged(n) : n \in 0 .. Current}

At(step, versions) ==
  [pc |-> step, seen |-> versions, stage |-> 1, cause |-> "none"]

Outside == At("idle", {})

Init ==
  /\ db \in StartingPoints
  /\ draft = db
  /\ writer = "none"
  /\ job = [p \in Processes |-> Outside]
  /\ crashes = 0

Job ==
  [pc : {"idle", "begin", "reread", "stage", "commit", "ready", "failed"},
   seen : SUBSET (0 .. Current + 1), stage : Stages,
   cause : {"none", "invalid", "locked"}]

Known(versions) == \E n \in 0 .. Current : versions = 1 .. n

Set(p, locals) == job' = [job EXCEPT ![p] = locals]

\* Fault: the statements that went through stay.
FaultFailCommits(p, cause) ==
  /\ Set(p, [job[p] EXCEPT !.pc = "failed", !.cause = cause])
  /\ db' = IF writer = p THEN draft ELSE db
  /\ writer' = IF writer = p THEN "none" ELSE writer
  /\ UNCHANGED <<draft, crashes>>

\* migrate raises: rollback and close, and the process ends with the error.
Fail(p, cause) ==
  /\ Set(p, [job[p] EXCEPT !.pc = "failed", !.cause = cause])
  /\ writer' = IF writer = p THEN "none" ELSE writer
  /\ UNCHANGED <<db, draft, crashes>>

\* A process starts: the versions at entry, outside of any transaction.
Start(p) ==
  /\ job[p].pc = "idle"
  /\ Set(p, At("begin", db.versions))
  /\ UNCHANGED <<db, draft, writer, crashes>>

BeginImmediate(p) ==
  /\ job[p].pc = "begin"
  /\ \/ /\ Known(job[p].seen)
        /\ writer = "none"
        /\ writer' = p
        /\ draft' = db
        /\ Set(p, [job[p] EXCEPT !.pc = "reread"])
        /\ UNCHANGED <<db, crashes>>
     \/ Known(job[p].seen) /\ writer # "none" /\ Fail(p, "locked")
     \/ ~Known(job[p].seen) /\ Fail(p, "invalid")

\* The versions again, now that nobody else can change them.
Reread(p) ==
  /\ job[p].pc = "reread"
  /\ \/ /\ Known(db.versions)
        /\ Set(p, [job[p] EXCEPT !.pc = "stage"])
        /\ UNCHANGED <<db, draft, writer, crashes>>
     \/ ~Known(db.versions) /\ Fail(p, "invalid")

\* Fault: the existing messages get no history row.
FaultNoBackfill(k) == draft.history

\* Stage 2 computes the history row of every message there is.
HistoryAfter(k) == IF k = 2 THEN draft.message ELSE draft.history

\* CREATE TABLE IF NOT EXISTS leaves alone what is there.
Created(object) == IF object = "absent" THEN "valid" ELSE object

DeliveriesAfter(k) ==
  CASE k = 1 /\ draft.deliveries = "absent" -> "original"
    [] k = 7 -> "altered"
    [] OTHER -> draft.deliveries

\* Fault: the version of stage 5 is not recorded.
FaultForgetsVersion(k) ==
  [draft EXCEPT !.versions = IF k = 5 THEN @ ELSE @ \cup {k},
                !.objects[k] = Created(@),
                !.deliveries = DeliveriesAfter(k), !.history = HistoryAfter(k)]

\* The statements of stage k and its row in schema_migrations.
Applied(k) ==
  [draft EXCEPT !.versions = @ \cup {k}, !.objects[k] = Created(@),
                !.deliveries = DeliveriesAfter(k), !.history = HistoryAfter(k)]

\* The local `versions` follows the stages; the transaction started from them.
Misses(k) == db.versions \subseteq 1 .. k - 1

\* The statements go through: stage 3 makes a unique index of the hashes, and
\* SQLite refuses to add a column a table has.
CanApply(k) ==
  /\ k = 3 => Distinct(draft.history)
  /\ k = 7 => draft.deliveries # "altered"

\* Fault: the stages before 7 expect the table as stage 1 creates it.
FaultExpectsOriginal(p, k) == IF k >= 7 THEN "altered" ELSE "original"

\* _stage_schema_objects, with v7_reached from the versions at entry.
ExpectedDeliveries(p, k) ==
  IF k >= 7 \/ 7 \in job[p].seen THEN "altered" ELSE "original"

\* Fault: the recorded versions are trusted.
FaultTrustsVersions(p, schema, k) == TRUE

\* _validate_schema over the objects of stages 1 to k.
Validates(p, schema, k) ==
  /\ \A j \in 1 .. k : schema.objects[j] = "valid"
  /\ schema.deliveries = ExpectedDeliveries(p, k)

\* One stage of the transaction: apply it if it is missing, then validate.
RunStage(p) ==
  LET k == job[p].stage
      next == IF Misses(k) THEN Applied(k) ELSE draft
  IN
  /\ job[p].pc = "stage"
  /\ \/ /\ Misses(k) => CanApply(k)
        /\ Validates(p, next, k)
        /\ draft' = next
        /\ Set(p, IF k < Current THEN [job[p] EXCEPT !.stage = k + 1]
                                 ELSE [job[p] EXCEPT !.pc = "commit"])
        /\ UNCHANGED <<db, writer, crashes>>
     \/ /\ ~((Misses(k) => CanApply(k)) /\ Validates(p, next, k))
        /\ Fail(p, "invalid")

\* Fault: the connection is not closed.
FaultCommitKeepsLock(p) ==
  /\ job[p].pc = "commit"
  /\ db' = draft
  /\ Set(p, [job[p] EXCEPT !.pc = "ready"])
  /\ UNCHANGED <<draft, writer, crashes>>

Commit(p) ==
  /\ job[p].pc = "commit"
  /\ db' = draft
  /\ writer' = "none"
  /\ Set(p, [job[p] EXCEPT !.pc = "ready"])
  /\ UNCHANGED <<draft, crashes>>

Migrate(p) == Start(p) \/ BeginImmediate(p) \/ Reread(p) \/ RunStage(p) \/ Commit(p)

\* create_message by a process that is past migrate, in a transaction of its own.
CreateMessage(p) ==
  /\ job[p].pc = "ready"
  /\ writer = "none"
  /\ \E m \in Messages \ Rows(db.message), h \in Hashes :
       /\ \A n \in Messages : db.history[n] # h
       /\ db' = [db EXCEPT !.message[m] = h, !.history[m] = h]
  /\ UNCHANGED <<draft, writer, job, crashes>>

\* A process ends, and the next tick starts another in its place.
Exit(p) ==
  /\ job[p].pc \in {"ready", "failed"}
  /\ Set(p, Outside)
  /\ UNCHANGED <<db, draft, writer, crashes>>

Crash(p) ==
  /\ crashes < MaxCrashes
  /\ job[p].pc # "idle"
  /\ crashes' = crashes + 1
  /\ writer' = IF writer = p THEN "none" ELSE writer
  /\ Set(p, Outside)
  /\ UNCHANGED <<db, draft>>

Next ==
  \E p \in Processes : Migrate(p) \/ CreateMessage(p) \/ Exit(p) \/ Crash(p)

Spec == Init /\ [][Next]_vars

\* Ticks are started again and again, and a process that runs runs on.
FairSpec == Spec /\ \A p \in Processes : WF_vars(Migrate(p) \/ Exit(p))

(***************************************************************************)
(* Properties                                                              *)
(***************************************************************************)

TypeOK ==
  /\ db \in Schema /\ draft \in Schema
  /\ writer \in Processes \cup {"none"}
  /\ job \in [Processes -> Job]
  /\ crashes \in 0 .. MaxCrashes
  /\ \A p \in Processes : writer = p <=> job[p].pc \in {"reread", "stage", "commit"}

Sound(schema, n) ==
  /\ schema.versions = 1 .. n
  /\ schema.objects = [k \in Stages |-> IF k <= n THEN "valid" ELSE "absent"]
  /\ schema.deliveries = WholeAt(n, schema.message).deliveries

\* The database migrate was made for.
Upgradable ==
  \E n \in 0 .. Current : Sound(db, n) /\ (n < 3 => Distinct(db.message))

\* A process never works on a schema of another version or with an object that
\* is not as the code expects it, although others migrate, fail and die around
\* it ("fails closed": an incomplete or weakened schema ends the start).
ReadyMeansCurrent ==
  \A p \in Processes : job[p].pc = "ready" => Sound(db, Current)

\* A start leaves the database as it is, or with a complete current schema and
\* the messages it had: a failed one "fails without altering database" (the
\* migration tests), and a crash between two stages leaves no trace.
WholeOrNothing ==
  [][\/ db' = db
     \/ Sound(db', Current) /\ db'.message = db.message
     \/ \E p \in Processes : job[p].pc = "ready" /\ db'.versions = db.versions]_vars

\* Once the history exists it has the hash of every message, and from version
\* 3 on each hash once: what duplicate detection reads.  It is made by stage 2
\* for the messages of version 1 and by create_message for the later ones.
HistoryComplete ==
  2 \in db.versions =>
    /\ db.history = db.message
    /\ 3 \in db.versions => Distinct(db.history)

\* A start that calls the database invalid is right, unless another process
\* took it past version 7 between the two reads of the versions: v7_reached is
\* computed from the first.
InvalidForCause ==
  \A p \in Processes :
    job[p].cause = "invalid" =>
      \/ ~Upgradable
      \/ 7 \notin job[p].seen /\ 7 \in db.versions

\* Every database it was made for gets to the current version, over crashes,
\* locks and overtaken starts, because each tick tries again.
GetsCurrent == Upgradable ~> Sound(db, Current)
=============================================================================
