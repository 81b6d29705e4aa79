# A TLA+ model of the personal voice message service

The repository is a Python program that sends one voice note a day, from one
person's cloned voice to one enrolled Telegram chat. This directory holds TLA+
modules translated from its source, TLC configurations that check them on small
instances, and TLAPS proofs about them. Source paths below are relative to
`src/src/personal_voice_msg/` unless they begin with another directory.

## 1. Inventory

| Part | State | Operations | Used by | What makes it correct |
|---|---|---|---|---|
| Delivery tables (`database.py`) | `messages`, `message_rejections`, `deliveries`, `delivery_attempts` | create, transition, reject, approve, reserve, transition delivery, mark audio ready, record attempt, clear audio | refill, daily send | the two rows of a delivery agree, a message is spent once, the audit log ends with the success |
| Sending control (`database.py`) | `sending_control`, `sending_control_events` | disable, enable, read | poll, daily send, administrator, owner | the trail replays to the switch |
| Inbound STOP (`consent.py`) | `telegram_inbound_offset` | `poll_inbound_stop` | every tick | no STOP is lost, every STOP is seen in the end |
| Daily send (`daily_send_entrypoint.py`, `delivery.py`, `scripts/run_daily_entrypoint.py`) | locals of a tick, the tables above | one tick | scheduler, every minute | at most one note a date, truthful outcomes, no note after STOP |
| Sender (`sender.py`) | `sender_auth_nonces` | `send_voice_note` | daily send | no replay; an outcome only when it is certain |
| Scheduling (`scheduling.py`) | none | window of each trigger | daily send | half-open windows in Pacific time |
| Audio (`audio_pipeline.py`) | two temporary files per delivery | synthesise, convert, validate, read, delete, store | daily send | a whole note or none, no file left behind |
| Queue refill (`queue_refill.py`) and judging (`judging/`) | none | judge candidates until the target is met | weekly run | only accepted text is queued |
| History (`history.py`, `normalization.py`) | `message_history` | duplicate test, record | generation | no two equal or near-equal texts |
| Migration (`database.py`) | schema versions, the schema itself | `migrate` | every start | all stages or none, nobody works on another schema, the history complete |
| Daily runs (`database.py`) | `daily_runs` | claim, complete | no production caller | one claim per date |
| Discovery (`discovery/`, `discovery_worker_entrypoint.py`) | result capabilities, the fetch in progress | search, fetch, analyse, close | weekly worker | capabilities used once, fetches bounded and pinned, records with a source |
| Generation (`generation/`) | none | one model request | pipeline | validated text |
| Enrollment, configuration, redaction | files | one-time commands, load | start | set once; no secret printed |

How they meet: the scheduler (`scripts/crontab`, supercronic, which starts a
job only after its previous run ended) runs one process a minute. Inside the
window 07:00 to 07:05 the process polls for STOP, reads the control, and moves
the day's delivery on. Database calls are separate `BEGIN IMMEDIATE`
transactions; HTTP requests are awaited between them. The program itself holds
no lock across a tick, so a second process, started by hand or by another
deployment over the same file, can interleave at every transaction.

What is hard: a request that times out and is delivered later; a process that
dies between marking SENDING and recording an outcome; two ticks that read a
state and act on it later; a STOP between fetch and acknowledgement; the kill
switch between reading the control and using it; two starts that migrate one
database; generators, refills and the daily send over one table of messages;
ticks over one pair of temporary files; redirects and changing DNS answers
within one fetch. `PROJECT.json` lists these hazards at their lines with the
properties that cover them.

## 2. Modules

| Module | Models | Correspondence |
|---|---|---|
| `DeliveryStore` | the tables, under an arbitrary client | one operator per method of `Database`, each a whole transaction. A method that raises rolls back, so it is a disabled operator; callers that survive the exception test `CanTransition` and the like. A row is named by its slot, the unique pair of recipient key and Pacific date; 0, `"none"` and `"absent"` stand for missing rows and NULL |
| `SendingControl` | the control and its events | `DisableSending`, `EnableSending`, both idempotent |
| `InboundStop` | `poll_inbound_stop` | `poll[w].pc` is the next statement: the request, `disable_sending`, the stored offset. Telegram's side (`inbox`, `forgotten`) is external: it keeps updates until a request carries an offset past them, and answers with at most `BatchLimit` of them. Two history variables record what no statement reads: `fetched`, the updates some poll was answered with, and `obeyed`, for each STOP a poll disabled sending for, the place in the audit trail of the disabling then in force |
| `DailySend` | one tick on top of the other three | `job[w].pc` is the next statement of `run_daily_entrypoint`, `run_daily_send` or `send_voice_note`; a step is one transaction, one request, or the end of one. `wire` is every request that left, with what Telegram made or will make of it |
| `DailyNote` | what the daily send promises; `LearningSpec` is what is left of it when ticks overlap | copies that arrived for a date and the verdict about it |
| `SentenceGeneration` | `generate_sentence` and `MessageHistory.evaluate_and_record`, on top of `DeliveryStore` | `draft[g]` is the answer a generator is about to record; comparison and insertion are one transaction and one action. A generator asks only while there is a message left for its answer, the bound of the model |
| `QueueRefill` | `refill_queue` and the decision of the judge, on top of `SentenceGeneration` | `refill[w].pc` is the next statement of the loop; generators add messages and the daily send reserves them in between |
| `SchemaMigration` | `Database.migrate` by processes that start together, with crashes and the writes of those that are past it | `job[p].pc` is the next statement: the versions at entry, `BEGIN IMMEDIATE`, the versions again, one stage at a time, the commit. `db` is what is committed, `draft` the writer's transaction |
| `VoiceNotes` | `produce_voice_note` over the shared temporary paths of one delivery | `job[p].pc` is the next call; a file records who writes it and whether what was written is one whole piece |
| `DiscoverySession` | `DiscoveryWebSession` and `_fetch_url` with its resolver | the code between two awaits is one step; `fetch[c]` are the locals of a caller's fetch |
| `DiscoveryWorker` | `run_discovery_worker` and `DeterministicDiscovery`, on top of the session | `worker.pc` is where the two loops are; another task may hold the same session: it fetches and closes, but does not search, as only the worker's loop does |
| `ResultCapability` | what the session promises about its ids | the state of each id, and whether the session is open |
| `MC*` | TLC instances | sets, windows and symmetry |
| `*Proofs` | theorems and their proofs | |

Operators called `Fault...` are faulty variants of the definition below them.
Nothing uses them; putting one in place of its original shows that the property
it belongs to can fail.

Abstractions. Text, audio bytes, ids and HTTP bodies are reduced to what the
properties tell apart: an update is a STOP, something else, or unacceptable; a
request is accepted, refused, refused because the bot is blocked, or still
pending. An instant is one value of the `now` a process captures when it starts
(whole seconds, the resolution of the nonce). The three reads of `Lookup` are
one step: only the state can change in between and it is read last. The message
row a delivery reserves is found by its id, not by its text. A missing
`sending_control` row and an enabled one are one value, since every method
treats them alike. Signature and freshness checks are left out: the only caller
signs with its own key at its own `now`. UNIQUE `deliveries.message_id` is left
out; `MessageSpentOnce` shows it is never hit. Which texts the local gates
reject, which are similar and which copy their source are the constants
`Prohibited`, `Similar` and `Copied`; the model and the judge answer anything,
each time anew. The `RefillResult` of a refill, for which there is no caller
yet, is left out. The objects a migration stage creates are one element, valid,
weak or absent, except `deliveries`, which stages 1 and 7 both shape. A search
hit is a URL; a page is the URL it came from. ffmpeg is taken to die with the
tick that started it.

## 3. Runs

`CHECK_DEADLOCK FALSE` stands where the bounded system comes to rest: the
clock, the inbox, the interventions, the messages and the result ids are
bounded, ticks after a stored note have nothing to do, and the discovery worker
ends. `migrations` checks deadlock: a process can always start again.

| Run | Question | Bounds, and why they do |
|---|---|---|
| `store_calls` | are the tables consistent after any calls? | two messages, two slots: two slots compete for a message and two messages for a slot; two attempts per delivery: a failure and its retry |
| `stop_polls` | is a STOP ever lost, is the trail true, is every STOP seen in the end? | two polls, three updates in batches of up to two, interventions until the trail has two entries (polls may add more): a STOP before, in and after another batch, and after a re-enable; offsets overtake each other |
| `daily_alone` | do ticks that do not overlap send at most one note a date, none after a STOP, and implement `DailyNote`? | two days, two ticks in the first window and one in the second, two recipient keys, one update, two interventions (so the STOP may come after a re-enable), a crash anywhere, late answers |
| `daily_overlap` | what survives overlapping ticks, and does an attempt get its outcome? | two workers, one day, two ticks in its window, two recipient keys, one crash |
| `refills` | does a refill judge each message once, keep out what it rejects or the gates prohibit, stop at its target, and end? | two refills that may overlap, two generators that may hold two alike answers at one time, five texts (two alike, one prohibited, one copied), three messages, target 1 so that the second refill can overshoot, one reservation |
| `discovery` | what may a fetch reach, what does a record stand on, are ids good for one fetch, does the worker end? | the worker and one other task, five URLs (two hosts, two schemes, one not public), four DNS answers, two redirects, two queries of up to two hits with a cap of two: the second search meets a full session if results were left |
| `migrations` | is an upgrade whole, does anybody work on another schema, does every database get there? | two processes, one crash, every version from 0 to 8 with two messages alike or not, and every single damage to it |
| `voice_notes` | is a stored note whole, does a file stay behind? | three ticks, two crashes: a tick alone after two that met and died |

What some of these say needs care:

- `StopNeverLost` and `NoSendAfterStop` speak of each STOP by itself: the owner's
  re-enable counts only when it comes after the disabling the STOP led to
  (`Overruled`), so one re-enable excuses no later STOP. A STOP that finds
  sending disabled already took effect at that disabling.
- `SendingIsConcluded`: a crash after the SENDING transition is made good by the
  next tick of the same window. After the last one nothing does: the recovery
  branch (`delivery.py:82`) is inside the window.
- `InvalidForCause`: `migrate` computes `v7_reached` from the versions it read
  before `BEGIN IMMEDIATE`. A start that another process overtook past version 7
  raises `MigrationError` on a sound database; the next start succeeds
  (`GetsCurrent`). The property shows that this is the only spurious failure.
- `NotesAreWhole` is about a tick that was alone. With two ticks on one delivery
  the shared path lets one read what the other is still writing, and a cut-off
  recording that passes the signal checks is stored.
- `CandidateOpen` and `RejectedNeverQueued` except the messages two refills had
  at hand at one time (`shared`): `approve_message` does not look at
  `message_rejections`, so one of the two may queue what the other rejected.
- `CapNeverReached`: the cap on search results (`web.py:502`) counts results not
  yet fetched, and the worker fetches or drops all of them between searches.
  Only a session closed by another task, or another task's fetch in the way,
  makes it refuse; a task that searched beside the worker could fill the cap,
  but there is none.
- A search hit whose title cannot be sanitised ends the whole run
  (`SearchRaises`): `_sanitize_metadata` raises an error the worker does not
  catch. `WorkerEnds` counts that as an end.

Four more runs check a sentence of a document or comment that the code does not
keep; TLC finds the counterexample:

- `overlap_retries_unknown`: "an ambiguous outcome is terminal for the Pacific
  day: never auto-retried" (`delivery.py:117`). Tick A reads FAILED; tick B
  retries, times out and records DELIVERY_UNKNOWN; A's transition to
  AUDIO_READY is still legal and A sends. This step is the only way to a second
  note (`OnceUnderTheRule`, section 5). It takes overlapping ticks, which the
  shipped scheduler does not produce and the code does not prevent.
- `late_send`: "never begin a new attempt at or after 07:05"
  (`IMPLEMENTATION_PLAN.md:791`). The window is tested when the process starts.
- `undecodable_rejection`: `_describe_rejection` "never raises" and the body
  "doesn't change the outcome" (`sender.py:92`). Bytes that are not text raise
  a `UnicodeDecodeError`, and a certain refusal ends as DELIVERY_UNKNOWN.
- `audio_kept`: "the blob is cleared once a delivery reaches SENT" (T16
  design). The function that clears it has no caller.

One more gap was met while modelling and has no run of its own: the control is
read in one transaction and the reservation made in the next (`delivery.py:64`),
so the kill switch between them does not stop the reservation.

## 4. Fairness

`PollFairness`: ticks keep coming (weak fairness of `BeginPoll`), and the
statements of a poll are strongly fair, that is, requests that can be answered
are answered infinitely often and not every poll is cut off by a crash or a
failed request. An unacceptable update (over `MAX_RESPONSE_BYTES`, or
malformed) fails its whole batch, every time, so `StopEventuallyConsumed`
excepts it; that is how the code behaves.

`FairSpec`: weak fairness of a tick's own steps only. A running process runs
on, and both HTTP requests end with their total timeout. Nothing is assumed of
the scheduler, Telegram or people. `SendingIsConcluded` needs answers that are
text (the one undecodable answer is `undecodable_rejection`), and counts from
the last crash.

`FairRefillSpec`: weak fairness of the steps of a running refill; the judge's
request has a total timeout. Nothing makes refills start.

`FairWorkerSpec`: weak fairness of the worker's steps; a search ends after
`SEARCH_TIMEOUT_SECONDS`, a fetch after its total timeout. The budget may or may
not run out, servers may do anything, the other task need not move.

`SchemaMigration!FairSpec`: weak fairness of each process: a tick that runs runs
on, ends, and the scheduler starts the next. It is on `Migrate(p) \/ Exit(p)`, so
crashes and writes are never assumed.

## 5. Proofs

All theorems hold for every value of the constants. The assumptions are the
named ASSUMEs of the modules: message ids, instants and provider ids are
naturals, the enrolled key is a key, every instant has a date.

`DeliveryStoreProofs`: `StoreCorrect`, every call keeps `StoreTypeOK`,
`RowsInStep` and `MessageSpentOnce`. The conjunction is inductive as it stands:
`RowsInStep` says that a carried message is in its delivery's state and so is
not QUEUED, which is why a reservation takes a message nobody carries; and
`MessageSpentOnce` is what lets a transition move one message without putting
another delivery out of step. `NothingIsOrphaned` and `SuccessIsFinal` need only
that invariant besides their own property: a message leaves its carrier's state
together with it, and SENT has no way out, so nothing is recorded behind it.

`InboundStopProofs`: `StopIsNeverLost` and `AuditIsTrue`. `StopNeverLost` is
not inductive. `StopInv` calls an offset safe when it lies within the server's
numbering, every update below it is in the answer to some poll, and every STOP
among them is in `obeyed`. It says that three kinds of offset are safe: the stored
one, the one the server has been told, and those a poll holds, namely the one
it asks with and the one it will store, once the STOPs it found itself are in
`obeyed` too. `ObeyedInv` says that the place kept for a STOP is that of a
disabling. The shape of the trail is part of the invariant: while sending is
enabled the trail ends with an enabling, which then comes after every place in
`obeyed` (`EnabledOverrules`), so every STOP was overruled since.

`DailySendProofs`: `TypesHold` and `TablesHold`. The two invariants above
survive their composition in a tick, with any number of workers, because each
step is an operation of the store or of the poll with arguments of the right
type; the new part is the typing of the locals, nonces and wire.
`AudioSurvives`, `SentIsTrue` and `NothingIsReplayed` hold for any number of
overlapping ticks. Each invariant adds to the property what a tick carries from
one statement to the next: `AudioInv`, that a row a tick read as FAILED never
goes back to RESERVED; `NoteInv`, that the request a tick awaits is one of its
delivery and, before a success is recorded, was accepted; `ReplayInv`, that
the pair of key and timestamp of a tick about to POST is recorded, on no request
and held by no other tick.

`ExactlyOnceProofs` has two halves. The first is about any number of
overlapping ticks under `DocumentedSpec`, which rules one step out: a retry of a
delivery that is DELIVERY_UNKNOWN by then, the step of `overlap_retries_unknown`
that the comment at `delivery.py:117` excludes and `DELIVERY_TRANSITIONS` allows.
What follows is `OnceUnderTheRule`, `CertainUnderTheRule` and
`OverlapOnlyLearns`: that step is the only one that leads to a second note, and
all that overlapping ticks otherwise add to `DailyNote` is one action, `Learn`
(a tick that finds SENDING records DELIVERY_UNKNOWN while the sender still waits,
and the sender may then record SENT).
`AtMostOneNote` only looks at notes that arrived; a note that is late is a
request that may still be accepted, so `OnceInv` counts requests that arrived or
still may (`Live`). `WireOnce` says that a delivery in a state from which a
request can leave has none, that no delivery ever has two, and that every
request belongs to the enrolled recipient (so that a date has one delivery that
can send). `OwnInv` is why overlapping ticks do not break it: a tick owns a
delivery from its SENDING transition until it knows its outcome is ambiguous; the
transition needs AUDIO_READY, an owned row is SENDING or (recovered by a tick
beside it) DELIVERY_UNKNOWN, and only a retry of the latter could make it
AUDIO_READY again under its owner: the step the rule excludes. The rule is used
there, and for an ambiguous attempt that nobody owns any more. `TickOnce` is what an owner knows: no live request before the POST,
at most its own afterwards, none where it is about to record a definite failure.
`OverlapOnlyLearns` maps each step to a step of `LearningSpec`: a note arrives
late only while its date is open or unknown, because a SENT date has a single
request that can be accepted and it already was (`OnceInv`, `NoteInv`); an
outcome is recorded for a SENDING row, which is a verdict, or SENT for an
ambiguous one, which is `Learn`.

The second half assumes `OneTickAtATime` (all workers are the same one), which
is what supercronic does for the shipped crontab. `AuditInv` says that a request
is in the log, or its row is still SENDING with the timestamp it was sent with,
and that a tick finds the row as it read it; so a tick that retries finds FAILED
and `SequentialTicksKeepTheRule` follows. With it the theorems of the first half
hold without their premise (`ExactlyOnce`, `RetryIsCertain`), and since no
outcome is overdue there is nothing to learn: `DailySendKeepsItsPromise` is the
refinement of `DailyNote` as it stands. `EveryRequestIsLogged`: whoever concludes
a delivery records the timestamp of its request. `StopIsHeeded`: `HeedInv` says
that a tick on its way to the POST read `enabled` after its poll, when every STOP
so far was overruled, and none is consumed or takes effect until the next tick
polls. These two are false when ticks overlap, under
`DocumentedSpec` too: a recovery that is slow to record closes the next attempt,
a retry after the one it found, under the timestamp of the old one; and a poll
beside a sender consumes the STOP.

`QueueRefillProofs`: `RefillTypesHold`, `MessagesStayDistinct`,
`ProhibitedStayOut`, `QueueStaysBounded` and `RefillsDecideOnce`, for any number
of refills, generators and texts. The bound is proved from a stronger one that
counts the refills that passed the loop condition as if they had approved
already (`BoundInv`). The last one needs both of its properties at once, since
an approval must meet a message that awaits a decision and such a message must
not be a rejected one, and that every message two refills hold is recorded in
`shared` (`SharingRecorded`).

`MigrationProofs`: `NobodyWorksOnAnOldSchema`, `HistoryStaysComplete`,
`MigrationIsAtomic` and `InvalidIsRight`, for any processes, messages and
hashes. A commit is only as good as the draft, so `WriterInv` says what the
draft is at each stage: the committed versions and the stages run so far, the
committed messages, and a history as complete as its versions demand; at the
commit every object has been validated. The mutual exclusion of writers is in `TypeOK`. The last one needs that
the outcome of a start is fixed by the database it finds (`CauseInv`): the
versions it read are the present ones or an upgrade overtook it, a writer that
has read a 7 has found the stages so far whole, one that upgrades has an exact
prefix of the stages in its draft, and a failure rules out that another start
commits the same database later.

`VoiceNotesProofs`: `LoneTicksMakeWholeNotes` and `FilesAreRemoved`, for any
number of ticks and crashes. `AloneInv` says what a tick that is alone finds in
the two files at each of its steps (its own, open or whole), `OpenInv` that only
a tick at a writing step has a file open, so that no other one disturbs it, and
`OwnedInv` that a file that is there has a tick that has yet to remove it, or
was left by one that died.

`DiscoveryProofs`: `FetchesStayPinned`, `RecordsNameTheirSources`,
`TheCapEndsNoRun` and the refinement `SessionImplementsCapability`, for any
tasks, URLs, servers and limits. `Pinned` says what the locals of a fetch
remember about its earlier requests: their URLs are among the visited ones,
their addresses still in the resolver, and none was https unless the present one
is; the bounded, distinct, pinned requests follow. `SInv` adds that one fetch is
in progress at most, on an id that was taken out of the results, which with
`Grows` (no id comes back) makes ids good for one fetch and records unique.
`CapInv` says which results are still open where in the loops. `Urls` is
assumed finite, because the code bounds their length.

The type invariants of migration, voice notes and discovery
(`MigrationTypesHold`, `VoiceTypesHold`, `WorkerTypesHold`) are part of these
invariants. The last one holds the cap on open results, a cardinality: it is
proved with `RecordFits`, that the hits of a search fit under the cap
because a search whose hits would not fit is refused.

Only model-checked is what is out of the prover's reach, liveness:
`StopEventuallyConsumed`, `SendingIsConcluded`, `RefillEnds`, `GetsCurrent` and
`WorkerEnds`. Only proved is `LearnsDailyNote`.

## 6. Plan

Done: the daily path, the queue, generation and history, migration, the voice
note files, discovery; every safety property the passing runs check is proved.
What is left are larger compositions: refills that take their sources from the
discovery worker, and starts that migrate while an older tick is still at work.

## 7. Not modelled, and why

- Daily run claims (`claim_daily_run`, `get_daily_run`, `complete_daily_run`):
  nothing but the tests calls them, and the daily send does not consult them.
  Each is one transaction on a row of its own, so no other step can disturb it.
- Scheduling beyond the send window: `classify_trigger` keeps no state and
  compares a time after zoneinfo's conversion. Telegram drops updates after 24
  hours while polls happen only inside the window; the gap is known
  (`IMPLEMENTATION_PLAN.md:934`) and no property claims it closed.
- Enrollment of the recipient and the voice: commands one operator runs once,
  each ending in one `os.replace`.
- Inspiration cards, configuration, redaction, prompts, phrase patterns, URL and
  HTML parsing, signal processing: validation or text matching without state
  that a step of another component could disturb.
- Evaluations, deployment files and the repository policy script: tooling around
  the program. `scripts/crontab` and `docker-compose.yml` are the source of the
  scheduling assumptions.
