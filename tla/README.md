# Formal models of Mycorrhizal (meerkat-crm)

Mycorrhizal is a personal CRM: a Go backend (gin, GORM, SQLite), a React
frontend, and an Android app that keeps working offline.  This directory holds
TLA+ models of the parts of the system in which order, concurrency or failure
decide whether the program is right, TLC configurations that check them on small
instances, and TLAPS proofs for every size of them.

Source paths below are relative to the repository; `ADR n` is
`docs/adrs/00nn-*.md`.  Names in `code` are Go or Kotlin names when they are
mapped to the source, and TLA+ names otherwise.

* [The system](#the-system): the inventory
* [What the code lets us assume](#what-the-code-lets-us-assume)
* [The modules](#the-modules): what models what
* [The runs](#the-runs): what is checked, within which bounds
* [The proofs](#the-proofs)
* [What the models found](#what-the-models-found)
* [What is only model-checked, and what is not modelled](#what-is-only-model-checked-and-what-is-not-modelled)
* [The plan](#the-plan)

## The system

One SQLite database is written by one or more server processes.  Every HTTP
handler runs in its own goroutine; background work runs in goroutines of the
scheduler and in fire-and-forget goroutines.  Clients are the web frontend, the
Android app, CardDAV and CalDAV clients, and outbound there are webhooks, mail,
push, subscribed address books and calendars.

| Part | State | Operations | What is hard | What makes it correct |
|---|---|---|---|---|
| **Conditional writes** (`models/revision_cas.go`, `controllers/helpers.go`, the `AfterSave` hooks) | the row, its `revision`, its tombstone | load, `checkIfMatch`, save with `bumpRevisionCAS`, toggles, delete; the same over CardDAV | handlers load outside the transaction that saves, so any number of writers interleave between the two; GORM's `Save` becomes an insert when the row is gone | no lost update, no resurrection, `If-Match` honoured, a revision is a strong validator, a refusal is true |
| **Contact graph** (`relationship_edge_controller.go`, `note_controller.go`, `contact_merge_service.go`, `household_service.go`) | edges, notes, tombstones | create, update, accept, delete of edges; suggestions; notes; contact deletion; merge | stale copies saved after a merge or a deletion; bulk updates that pass the hooks by; unique index in the middle of a merge | edges are facts between two contacts and told once; a merge loses nothing; what was deleted is not referred to again; deleted notes stay deleted |
| **Idempotency keys** (`middleware/idempotency.go`) | `idempotency_keys` | claim, look up, replay, settle, purge | racing retries, a crash or a failed statement between the commit of the handler and the settlement, purge by age | one handler at a time, one effect while remembered, faithful replays, no key blocked for ever |
| **Scheduled jobs** (`services/job_lock.go`, `main.go`) | one `job_executions` row a job | `acquireJobLock`, `releaseJobLock`, the `deduped` outcome | several instances, start-up catch-up against the scheduler, dead holders, late releases, panics | no run inside the window of a success, a fresh lock is kept, the job keeps starting |
| **Android outbox** (`CallLogSyncWorker`, `SmsBackfillWorker`, `InteractionSyncWorker`) | watermark, `pending_interactions`, the server's keys | read the log, stage, advance the watermark, post, drop a stale link, delete synced rows | overlapping work chains, a read that returns the newest entries only, the process killed at any point, lost answers, a contact deleted on the server | nothing lost, one activity a row, every call reported in the end |
| **Activities** (`activity_controller.go`) | activity, participants | create, update, delete | participants are written outside the transaction of the activity | as above, and participants agree with the version saved |
| **Webhooks** (`webhook_service.go`) | `webhooks`, `webhook_deliveries` | trigger, test, deliver in a goroutine, retry with back-off, purge | a retry is taken off its row before its outcome is stored; rows purged under the job; failing statements | one delivery of an event at a time, a bounded number of posts, none after a final answer, no retry forgotten silently |
| **Reminders and notifications** (`reminder_controller.go`, `reminder_service.go`, `notification_service.go`) | reminders, completions, deliveries, suggestions | complete, skip, update, delete; the daily run over the channels | handlers write statement by statement without a transaction; the run sends from copies it read earlier, beside another run perhaps; a message cannot be taken back | an occurrence is told once on a channel, none is swallowed, a suggestion goes with its reminder, the timeline is true |
| **Contact subscriptions** (`contact_sync_service.go`, `sync_conflict_service.go`) | imported contacts, links with hash and baseline, sync-token, conflicts | list changes, get them, reconcile, store the token; edit, restore, delete; change the subscription | the server, the user and the subscription change between the requests of a run; truncated answers | a local edit is never overwritten unrecorded; a stored token hides no change |
| **Calendar sync** (`calendar_sync_service.go`) | activities, links with hash and path, terminal failure | fetch, import with adoption of links, push, mark | both sides change; a push ends half way; an edit meets its own push | an edit the calendar has not seen is kept, and reaches it |
| **CardDAV and CalDAV servers** (`carddav/`, `caldav/`) | none of their own | GET, PUT, DELETE by UID and ETag | a second write path to the contacts | the guarantees of the REST path |
| **Sessions, devices, two-factor** (`session_service.go`, `device_grant_service.go`, `twofactor_replay.go`) | sessions, token versions, last accepted step | login, refresh, revoke, poll a grant | two logins with one code, a revocation racing a request | a code is used once, a revoked session stays revoked |
| **Rate limiting and lockout** (`middleware/`) | counters in memory | count, lock, expire | boundaries of windows, restart | limits hold inside a window |
| **Migrations and backups** (`database/`) | schema version, dirty flag, snapshots | snapshot, migrate, force, roll back, restore | a crash between the version row and the body, a read of the version that fails, a snapshot that is used again, two starts on one file | what is served is complete; what is migrated can be undone |
| **Audit log** (`models/audit_chain.go`, `audit_purge_service.go`) | hash chain | append, purge, verify | appending and purging at once | the chain verifies after every legal history |
| **Alerting and system events** (`alerting_service.go`) | alert states | evaluate, open, resolve | reads what the jobs write | an alert opens and closes once |
| **Cadence and suggestions** (`cadence_service.go`, `reach_out_trigger_service.go`) | policies, suggestions | compute the next date, suggest, dismiss | date arithmetic at the boundaries | as its tests state |
| **Source imports** (`monica_import_session.go`, `meerkat_import_session.go`, `import_source.go`) | wizard sessions in memory, `import_source_links` | connect or upload, fetch, preview, confirm, cancel, expire; one import transaction; pictures afterwards | two confirmations or two wizards at once, cancellations and expiry under a running goroutine, a merge target that is deleted | every source row is imported once, no contact is dropped unnamed, a wizard ends in a phase that tells the truth |
| **File imports and contact shares** (`import_session.go`, `import_service.go`, `contact_share_controller.go`) | sessions and results in memory, `contact_shares` | upload or accept, preview, confirm, decline, expire, purge | confirmations repeated at once or after a lost answer, a share declined under its confirmation, roll backs | an import is applied once, a repeated confirmation hears its result, a share reads accepted only if its data landed |
| **Contact formats** (`contactmodel/`, `vcard3/`, `vcard4/`, `jscontact/`) | none | parse, project, write | fields that one format has and another lacks | round trips, golden fixtures |
| **Attachments and photos** (`photostore/`, `attachments/`) | files next to the database | store, replace, remove | file and row change separately | no live row points to a missing file |
| **Households, circles, tags; search and duplicates; integrity checks; health; users; encryption at rest; external services; frontend; other Android screens** | rows behind plain CRUD, or none | | | |

How they interact.  Every keyed `POST` passes the idempotency middleware before
its handler; the Android outbox relies on it for retries.  All writers of a
contact, note, activity, life event or reminder pass the revision hooks, except
the bulk updates of merge and deletion.  Merge and deletion write to the rows of
every other part inside their own transaction.  The scheduler starts purges,
reminders, syncs and alerts under a job lock; the purge of the idempotency keys
is one of them.  Triggers of webhooks follow the commit of a handler.

`PROJECT.json` lists every part under `components`, and under `hazards` the
places in the code where these difficulties bite.

## What the code lets us assume

* **Write transactions are serial.**  The DSN sets `_txlock=immediate`
  (`database/migrate.go:68`), and SQLite has one writer.  A transaction is one
  step of a model.  A statement outside a transaction is a step of its own, and
  so is a read: between the `First` of a handler and its transaction anything may
  happen.
* **Committed means durable.**  A crash ends what runs and keeps the database.
  The models with a crash let it happen between any two steps.
* **Clients are arbitrary.**  They send any verb with any precondition, retry or
  not, hear the answer or not.
* **Clocks move and do not jump back.**  Ages replace timestamps.  Handlers end
  within the retention window of the idempotency keys, which is hours while a
  request is bounded by the server's timeouts; this is the guard of `Expire`.

## The modules

`AtomicRow`, `KeyedRequest`, `Delivery` and `RepeatableImport` are abstract specifications: what a component promises, without
the mechanism.  Every other `*.tla` without an `MC` prefix or a `Proofs` suffix models code.  `MC<M>` gives `<M>` an instance
for TLC (symmetry sets, `InverseOf` of the graph, `Ends` of the account).  The theorems are in the modules
named `...Proofs`, some of which are about two components that belong together; then the definitions of the second
bear its name (`GraphInit`, `GraphSpec`, `GraphTypeOK`, and likewise `Migration...`, `Sync...`, `Calendar...`).  Operators
marked "Mutant" are plausible mistakes in the definition
they precede; nothing uses them, and each has been seen to break the property
it is listed with in `PROJECT.json`.

### `ConditionalWrites`, which implements `AtomicRow`

One contact and the requests on it.

| Module | Code |
|---|---|
| `content`, `deleted` | the row (`models/contact.go`), reduced to its revision, what a PUT replaces (`body`) and the archived or favourite flag (`mark`) |
| `seen`, `request` | what a client read, and what it sends: verb and `If-Match` |
| `base` | the copy a handler holds after `First` |
| `Load` = `LoadMissing`, `LoadStale` or `LoadCurrent` | the head of `UpdateContact`, of the toggles, of `DeleteContact` and of the CardDAV backend, with `checkIfMatch` |
| `Save`, `SaveConflict` | `db.Save` with `Contact.AfterSave` and `bumpRevisionCAS`: a zero row count rolls the transaction back; `handleRevisionConflict` tells 404 from 412 |
| `Delete` | the tombstone of `DeleteContact` and of `DeleteAddressObject` |
| `Crash` | the process dies; whatever had no commit is lost |

`AtomicRow` has no requests at all: an edit keeps the mark, a toggle keeps the
body, each takes the next revision, a deletion is final.  The refinement mapping
(`Atomic == INSTANCE AtomicRow WITH ...`) reads its four variables off the row:
`revision`, `body` and `mark` are the columns, and a row is live as long as it has no
tombstone.  Loads, conflicts, refusals and crashes are stutters.

`IfMatchHonoured` is about writes and deletions, and does not promise the same of the two: `Delete` follows the code, whose
statement does not name the revision that was checked.

### `ContactGraph`

`fate` records how each contact came to its tombstone, because the code has
three ways: `DeleteContact` with its sweep ("deleted"), `CommitContactMerge`
("merged"), and `DeleteAddressObject`, which sweeps nothing ("bare").  `op` holds
a request between two statements: what `AcceptRelationshipEdge`,
`UpdateRelationshipEdge`, `UpdateNote`, `CreateNote`, `DeleteContact` and
`suggestEdgeIfNew` remember from the reads that precede their write.

* GORM's `Save` of a copy whose row is gone inserts it again (`SavedEdge`); edges
  have no revision, so nothing stops that.
* Notes do have one.  Revisions are only ever compared for equality, so a request
  keeps `fresh`: whether the note has still the revision it was loaded with.
  `SaveNote` outdates all other copies; the bulk update of a merge does not, as in
  the code.
* `Survive` is `repointRelationshipEdges` without its order: of the edges that
  tell one relationship it keeps one, whichever, and drops self-loops.
* `held` is a history variable: the contacts that were swept while a request had found them live (`Carries`).  What such a
  request writes afterwards is the exception in `NothingRefersToTheDeleted`.
* The bulk delete (`bulk_operation_controller.go`) is `LoadContact` and
  `DeleteContact` for each contact.

### `Idempotency`, which implements `KeyedRequest`

The attempts that carry one key.  Every statement of the middleware and of
`CreateActivity` is a step: `Claim` (`INSERT ... ON CONFLICT DO NOTHING`), `ReadStored`
(what the loser finds, or does not find any more), `InsertActivity` (committed on
its own), `AppendContacts` (may fail, then the answer is an error), `Settle`
(completed or dropped by id; may fail, which is only logged).  `Panic` skips the
settlement as the unwinding skips the code behind `c.Next()`, `Crash` ends every
attempt at any point, `Expire` and `Purge` are time and
`PurgeExpiredIdempotencyKeys`.  `effects` is a history variable: which attempts
committed an activity.

`KeyedRequest` has no table and no clock: of the requests with one key, `Admit` lets in one at a time, and none while the key is
held; `Keep`, `Release` and `Leave` are what can become of it, `Refuse` and `Repeat` what the others hear, `Forget` the end of
the memory.  `Keyed == INSTANCE KeyedRequest WITH ...` reads the holder off the row, and who runs and who is over off the phases.
The claim that fails, the second look and the passing of time are stutters.

### `JobLock`

One `job_executions` row, the instances of the server, and in each the start-up
trigger and the scheduled one.  Timestamps are ages that stop growing where no
comparison distinguishes them any more (`Older`), so behaviours are infinite and
no clock needs a bound.  `Window` is `JobCatchupWindow(period)`; twice the window
makes a run "caught_up".  A run that is taken over goes on in the model as it does
in the code, and releases late.  `Panic` followed by `Release` is the deferred
release of a job whose panic `execJob` recovers further up; `Abandon` is a
release that fails, or the reminder job, which releases without a `defer`.

### `Outbox`

The device: `calls` in the log, those of a `withheld` number, the `watermark`, two work chains (`ReadLog`, `Stage`,
`AdvanceWatermark` each), the table (`row`, `linked`) and the sync worker
(`StartSync`, `Post`, `DropLink`, `CloseRow`, `FinishSync`).  `ReadLog` takes the newest entries after the watermark, `Limit` of
them (`readSince`), and `AdvanceWatermark` passes them and the ones left out; `missed` is a history variable and remembers these.
`Stage` takes one entry, the newest first, and passes over one without a number.  The server behind it is
`Idempotency` seen from outside: one row is posted at a time, so a keyed POST is
one step whose outcomes are those of that module (completed, left pending,
dropped after a commit, refused, replayed, key reused), and whose answer may be
lost.  `posted` counts the activities made under the key of the row that is in the table, up to "more than one"; `reported` says
whether a call was ever made into one.

### `Webhooks`, which implements `Delivery`

The events of one webhook.  `chain` is the goroutine of an event (`TriggerWebhooks`
or `TestWebhookDelivery`, then `deliverWebhook`), `delivery` the rows of
`webhook_deliveries` by event and attempt, reduced to `next_retry_at`: none, in the
future, due, or NULL.  `batch` is what `ProcessWebhookRetries` has loaded.  For each
row of it the job looks the webhook up, clears `next_retry_at` and starts a
goroutine (`StartRetry`); it drops the retry when the lookup finds nothing or fails
(`DropRetry`), and skips it when the UPDATE fails (`SkipRetry`).  The goroutine
stores its outcome in a new row (`SaveDelivery`), which may fail too.  `Purge` deletes
rows by age, also under a running job; `Crash` ends any of the goroutines,
the job, or both.  One retry job runs at a time: a run issues only short statements and is over
long before its lock times out (`JobLock`).

`sent`, `settled` and `lost` are history variables: how often an event was posted,
whether an answer came that ends its deliveries, and whether it was dropped in one of the
ways the code has for that.

`Delivery` has neither goroutines nor rows: an event is posted, waits, and is posted again, as one sequence of attempts.  An
event waits (`Awaits`) if a goroutine is about to store a retry for it, a row holds one, or the job has one in its
batch.  What goes wrong with rows, statements and processes is one action there, `Lose`: whoever is dropped is named in `lost`.

### `Reminders`

One reminder.  `request` is a handler of `reminder_controller.go` with the copy it
loaded; each of its writes is a step (`RecordCompletion`, `ClearBeforeDelete`,
`DeleteRow`, `Save`, `Dismiss`, `ClearAfterReschedule`), and those whose failure is only
logged may fail; `CutShort` ends it anywhere.  `run` is what each trigger has under way of `sendRemindersAt`: `ReadRows` and
`ReadDeliveries` are its two queries, and from then on it works with what it has read (`Send`, `SaveMirror`,
`RecordSent`), up to `EndRun` or `RunDies`.  Runs of different triggers overlap: the boot and the clock start the job in one
process (`main.go:352-353`), whose lock does not turn its own instance away (`job_lock.go:123`), and a run that takes
longer than the timeout loses its lock.  `DismissSuggestion` is the user's own dismissal, which leaves the reminder.

* An occurrence is a value of `remind_at`.  `sent` holds the channels with a `sent` row in
  `notification_deliveries`, which name the reminder and not the occurrence; that is
  what the properties turn on.
* `messages` counts what the user got, by channel and occurrence.  A failed send may have got through.
* `excused`, `contested` and `blamed` are history variables: the causes the code leaves open
  for a second message, a second entry in the timeline, a silent occurrence.  A property
  says that nothing else causes it.  Of two runs the one that reads the records while the other has still to send on a
  channel, or to record that it did (`Rivals`), is the cause of a second message on that channel.

### `ContactSync`

One subscription.  A run is `Load` (the row, before the mutex), `Begin` (the mutex, and
`capturePreSyncBaselines`), `ListChanges` and `GetChanged`, or `GetBook`, then
`Reconcile` (one transaction) and `StoreToken` (one `UPDATE` by id, afterwards).  Between any two
of them other clients write cards (`RemoteChange`), the user edits, restores or
deletes a contact (`Edit`, `DropContact`), and `UpdateContactSubscription` loads and saves the
row (`OpenForm`, `SaveForm`).  `Fail` ends a run anywhere.

* What a sync-token stands for is kept as the hrefs changed since it was issued.
  Each copy of the row carries its own.
* A card, its hash and the fields taken from it are one value; a contact differs from its
  baseline when its value does.  The fields are compared one by one in the code, so one value stands for one field.
* `Kept` is the truncation at `maxContactsPerSync`, whichever cards it hits; `skipped` are cards
  that do not parse.

### `CalendarSync`

One calendar.  The order of `activity.updated_at` and `link.updated_at` is all the code looks at,
so a link has a flag `pending` instead of two times.  `Import` is one transaction; it
chooses which link each new UID adopts (`Adoptions`), as the loop over the candidates
does.  The push is a step per statement: `TakeLink` loads the activity, `Put` is the request, with the
repetition after a 412, `MarkPushed` is `db.Save(link)`, which sets `updated_at` to now
(GORM's convention) and not to the time the line before it gives.  `terminal` is
`TerminalFailureAt`, which only the scheduler respects.

### `Migrations`

One database file and the processes on it: server starts (`Boot`) and the commands `up`,
`force` and `down`.  `db.schema` is the set of migrations whose bodies were committed,
`db.version` and `db.dirty` what the version row says: `SetVersion(n, dirty)`, the body,
`SetVersion(n, clean)` are `Mark`, `Apply`, `Clean`.  `golang-migrate` drives the three; its lock is the driver's
`isLocked`, a flag in the process, so two processes are not excluded.  `ReadVersion`,
`Reuse` or `Copy` and `Place`, and `Preflight` are `migrateFileWithPreBackup` up to `m.Up()`.
`End` is a crash, a stop, or a refusal of any step.

A start reads the version three times: for the backup (`ReadVersion`), in `RunMigrations` (`Preflight`) and in `m.Up()`
(`StartUp`).  The driver answers "no version" when its query fails (`sqlite_driver.go:284-287`), so each of them sees the row as it is or none
(`Readings`), independently of the others.  `was` is a history variable: the version there was at the first of them.

`data` counts changes of the user data.  `outdated` are snapshot names whose data may no
longer be that of their version; `overlap` and `blind` record that two processes met, and
that the operator forced a version the schema does not have.

### `SourceImport`

An account of another system and the wizards that import it.  `session` is the manager's map in memory,
`job` the requests and goroutines under way, with what they hold: `Confirm` looks at the session, resolves the user's
choices (`StartImport`), and starts `runImport`, whose transaction is `Apply` and whose last words are `FinishImport`
and `FinishPhotos`.  `StartFetch`, `FetchReady` and `FetchFails` are the Monica fetch; the Meerkat assistant has none of it in
the background and no pictures (`Photos = {}`).

* A session has one cancel function, that of the goroutine that started last; `Forget` is what the ends of the
  goroutines do with it.  A goroutine whose session is gone goes on and writes where nobody reads.
* The account is a set of rows: contacts, and records that refer to contacts by `Ends`.  `ContactsOf`, `EdgesOf`,
  `NotesOf`, `ActivitiesOf`, `GroupsOf` say which of them an import makes, given the choices, the ledger as it was
  loaded (`seen`, empty if the query fails) and the rows that turn out not to be acceptable (`bad`).
* `links` is the ledger with its unique index; `landed` counts creations and merges.
* `report` is what the engine says of a committed import, by row and category (`ReportOf`), `result` what the wizard shows of
  it: `FinishImport` keeps the rows that were rejected (`Errors`), as `sourceImportResultFromReport` does, and drops the rest.

### `FileImports`, which implements `RepeatableImport`

The sessions of `ImportSessionManager`, for files and for shared contacts.  `request` is what a handler is at:
`Confirm`, `ConfirmVCF` and `ConfirmContactShare` go through "belongs" (shares only), "get", "lock" or "replay", "apply" (the
transaction), "record", "forget" and "accept" (shares only), each a step, since each takes and returns a mutex or makes
a statement of its own.  `Upload`, `AcceptShare` and `CreateSession` are the way in, `DeclineContactShare` and `SaveDeclined`
the other response.

* A session outlives its entry in the map, for handlers hold a pointer to it and wait for its lock: it is "live" in the
  map, "gone" out of it, or "lost" with its process.  `confirmedResults` are the tombstones.
* Time is `aged`: the ids whose session or result has expired or was lost.
* `marked` says that rows of a session carry ids of a transaction that was rolled back; `dropped` that the import which came of
  it left out such a row.
* A share is loaded once and saved as it was loaded; `SaveAccepted` and `SaveDeclined` may follow a purge or another response.

`RepeatableImport` has no sessions, locks or tombstones: who asks for an import makes it land (`Land`), once, and hears its
result (`Hear`); a refusal (`Refuse`) is possible only while it has not landed, "not found" (`Miss`) only when its time is over.
A request asks from `Get` on; a share confirmation that names a session which is not of this share, or not there any more, has
not begun to ask.

## The runs

| Run | Instance | States | Shows |
|---|---|---|---|
| `conditional_writes` | 3 requests, 2 bodies, 2 marks | 300 985 | optimistic concurrency of one row, and its refinement of `AtomicRow` |
| `contact_graph` | 3 contacts, 2 edges, 1 note, 2 requests in flight | 1 809 582 | edges stay facts, merges lose nothing, the deleted are not referred to again, deleted notes stay so |
| `idempotency` | 3 attempts, 2 request bodies | 153 046 | the attempts are one keyed request (`KeyedRequest`); faithful replays, one effect while remembered, no key blocked for ever |
| `job_lock` | 2 instances, 2 triggers | 82 215 | exclusion up to the timeout, the window, the job keeps starting |
| `outbox` | 2 calls, 1 a read, 2 chains, 1 kill | 389 148 | nothing lost but what a read leaves out or has no number, one activity a row, every other call is reported in the end |
| `webhooks` | 2 events, 2 attempts | 21 600 | goroutines and rows are one delivery with retries (`Delivery`); one delivery of an event at a time, no retry forgotten, every delivery ends |
| `reminders` | 2 requests, 2 channels, 2 triggers, 3 requests and runs | 1 478 576 | who is told twice or not at all, what becomes of suggestion and timeline |
| `contact_sync` | 2 cards, 1 a run, 3 contents, 1 change on the server | 1 486 151 | no edit overwritten unrecorded, no change hidden by a token |
| `calendar_sync` | 2 UIDs, 2 paths, 3 contents | 620 994 | a pending edit is kept and reaches the calendar |
| `migrations` | 2 processes, 3 migrations, 2 releases, 1 mishap | 4 440 327 | complete schemas, rollback points, whole snapshots |
| `source_import` | 1 wizard, 2 goroutines, 2 contacts, a record of each kind, a picture | 443 706 | rows imported once, no orphans, no contact dropped unnamed, an import that was begun ends in a phase that says so |
| `file_imports` | 1 session, 1 share, 2 handlers | 60 164 | an import lands once and may be asked for again (`RepeatableImport`), the status of a share is true, nobody waits for ever for a lock |

Each module has a type invariant (`TypeOK`, or `GraphTypeOK`, `MigrationTypeOK`, `SyncTypeOK`, `CalendarTypeOK`), which is in
no run: it is proved for each.  So are some invariants and action properties that are in no run either (`OneOwner`,
`SettledIsFinal` and `FoundInTime`, which the refinements of these runs contain; `StrongValidator`, `RefusalsAreTrue`,
`NoResurrection`, `EveryAckHasItsRevision`, `LockNotStolen`, `AttemptsBounded`, `LedgerIsTrue`,
`NoResurrection` of the imports, `ResultIsTrue`, `CopyTrue` of all copies).  They hold on the instances when they are added to
the configurations; what a run would show on a small instance, the proof shows for every one.

### Bounds

* Three requests, because the hazards of conditional writes involve at most a
  reader, a writer that wins and a deletion; the proofs drop the bound.  Two
  values of a column are enough to tell "kept" from "replaced".
* Three attempts: an owner, a loser, and one that arrives after the key was
  settled, dropped or purged.  Two bodies, so that a key can be reused.
* Three contacts and two edges: the smallest graph in which a merge makes two
  edges tell one relationship (both ends' edges to the third contact) or a
  self-loop.  The relation of the instance is symmetric, so that an edge told the
  other way round is the reciprocal one.  One note, two requests in flight: each
  race of the module is between one stale request and the transactions of the
  others, which need no slot.
* `Window = 3`, `LockTimeout = 2`: as in the code a lock goes stale (5 minutes) inside
  the window (hours), and an off-by-one in either comparison shows.
* `LastCall = 2` and `Limit = 1`: the smallest log that one read does not exhaust, so that the watermark passes a call which was
  not read, and two chains store watermarks of different calls in either order.  `MaxKills` is a bound of the model, not of
  Android; the proof takes any number of calls, kills and any limit.
* Two events and two attempts: two events share the batch of the job and the
  webhook, and nothing else.  `maxDeliveryAttempts` is 3; a retry that is neither the first nor the last adds
  nothing that the proofs, for any number of attempts, leave open.
* `MaxWork = 3` requests and runs on a reminder, of two requests and two triggers: a request races another one or two runs, and
  two runs, one after the other or side by side, are what makes a second message.  Two channels, because email alone has the
  legacy mirror in the row.  `Occurrences` is one more than the requests, since each
  makes at most one.
* Two cards, of which a run takes one (`MaxPerSync`), so that the truncation happens; three
  contents: what was synced, what the user wrote, what the server holds.  One change on the server
  may fall before, between or after the requests of a run; the proofs take any number.
* Two events with two paths, so that a UID can be replaced by a new one that
  adopts its link; `MaxFails = 1` failed run (`MaxRemote`, `MaxEdits` bound the other actors), after which the
  server answers.
* Three migrations and releases 2 and 3, with the floor at 2: an upgrade of one step, one of
  several, one from below the floor.  One change of the data and one repair of the operator are
  enough to make a snapshot stale.  `MaxMishaps` bounds repairs and failing reads together; with two of them the properties hold
  on some 29 million states, too many for the run, and the proofs take any number.
* One wizard and two goroutines: a confirmation that meets its repetition, a cancellation or a fetch.  Two contacts give
  a relationship its ends, and one of them looks like a local one.  With `MaxPerUser = 1` and one session the limit says no more
  than the ids.  Several wizards on one account meet in the database only, where the proofs speak of any number.
* One session and two handlers: a confirmation meets its repetition, or a response to its share.  The proofs drop these bounds.
* Deadlock is checked where the system goes on for ever (`JobLock`, `CalendarSync`,
  `ContactSync`, `Migrations`, `SourceImport`, `FileImports`).  In the other
  modules a behaviour ends when each request, attempt, identity or call of the
  instance has been used up.
* Symmetry is used in runs without liveness only, so the runs with liveness have the smaller instances.

### Fairness

`Spec` is used for safety.  `FairSpec` (in `CalendarSync`, `CalendarFairSpec`) adds what the code's scheduling justifies:

* `Idempotency`: the server gets on with a request it has accepted (a goroutine that
  is runnable runs), time passes (`Expire`) and the purge job runs every six hours.
  Retention is positive; a retention of zero disables the purge, and then a key
  left pending stays so.  Clients need not send anything, and a
  settlement may fail each time: only the purge makes `PendingIsResolved` hold.
* `JobLock`: time passes; a run ends in some way; an instance that again and again
  could start the job does (strong fairness, since the window and the lock
  disable the start again and again): its scheduler keeps ticking.  Crashes are
  not limited in number, but an instance that stays down for ever is no longer
  fair, and `Crash` leaves at least one.
* `Outbox`: WorkManager starts each chain and the sync worker over until they have
  run (weak fairness), a key left pending is purged, and a device that posts a row
  again and again gets through at some time (strong fairness on a post that does not
  fail).  Nothing is assumed about the contact, the kills below their bound, or
  which answers are lost before that.
* `Webhooks`: goroutines run on and posts time out (the HTTP client has a timeout), time passes,
  the job ticks every five minutes, and a statement of the job that is tried again
  and again succeeds at some time (strong fairness, since a failing one puts the row
  back).  Crashes are not limited.
* `CalendarSync`: the hourly scheduler starts a run when none is under way and the subscription is not in
  terminal failure, and a run gets on, for its requests have timeouts (weak fairness on
  both).  "Sync now" is not assumed to happen.
* `SourceImport`: goroutines run to their end, for requests to the other system have timeouts and a picture that does not
  come is passed over.  The user need not come back.
* `FileImports`: a handler gets on (weak fairness), and one that waits for the lock of a session gets it if the lock is
  free again and again (strong fairness: Go's mutex hands itself over to a waiter that has starved for a millisecond).

## The proofs

All theorems are about every value of the constants: any number of requests,
attempts, instances, triggers, events, contacts, edges, cards, migrations; any bodies, marks, fingerprints; any positive
window and timeout.  Every safety invariant and action property of the runs is a theorem, and so are the four refinements.

The assumptions are those the modules name:

* Special values such as `NoRow`, `AnyMatch` or `Nil` are not ordinary ones (`MatchAssumption`, `NoRowAssumption`,
  `NobodyAssumption`, `NamesAssumption`, `NilAssumption`, `EmailAssumption`, `NullAssumption`, and in part
  `SyncAssumption`, `CalendarAssumption`).
* Times, attempts and versions are positive (`TimeAssumption`, `AttemptsAssumption`, `ReleaseAssumption`).
* The bounds of the models are numbers, and the requests of `Reminders` finitely many (`BoundAssumption`,
  `LimitAssumption`, the rest of `SyncAssumption` and `CalendarAssumption`).
* The kinds of source rows do not overlap (`AccountAssumption`); the inverse of a relation's inverse is the relation
  (`InverseAssumption`; `relationTypeRegistry` is such a table).

For each model there is an invariant that holds initially, is preserved by each action, and implies the properties.
TLC checked it on the instance of the model before it was proved.

| Proof module | Model | Inductive invariant | Properties of the runs |
|---|---|---|---|
| `ContactsProofs` | `ConditionalWrites` | `IInv` | `NoLostUpdate`, `IfMatchHonoured`, `AtomicSpec` |
| | `ContactGraph` | `GraphIInv`, `Alone` | `EdgesAreFacts`, `MergeLosesNothing`, `NothingRefersToTheDeleted`, `NotesStayDeleted` |
| `IdempotencyProofs` | `Idempotency` | `IInv` | `ReplaysAreFaithful`, `OneEffectWhileRemembered`, `KeyedSpec` |
| `SharedFileProofs` | `JobLock` | `IInv`, `Owned` | `WindowRespected`, `InstancesExclude` |
| | `Migrations` | `MigrationIInv` | `RollbackPoint`, `SnapshotsAreWhole`, `ServedIsComplete` |
| `SyncProofs` | `Outbox` | `IInv` | `NothingLost`, `OneActivityWhileRemembered` |
| | `ContactSync` | `SyncIInv` | `OverwritesAreRecorded`, `TokenTellsNoLie` |
| `WebhooksProofs` | `Webhooks` | `IInv` | `OneChain`, `NoRetryForgotten`, `DeliverySpec` |
| `RemindersProofs` | `Reminders` | `IInv`, in five parts | `NoticedOnce`, `NothingSwallowed`, `SuggestionFollowsReminder`, `TimelineIsTrue` |
| `RemoteDataProofs` | `SourceImport` | `DataInv`, `Typed`, `Accounted` | `ImportedOnce`, `NoOrphans`, `NoContactIsDropped` |
| | `CalendarSync` | `CalendarIInv` | `EditsWait` |
| `FileImportsProofs` | `FileImports` | `IInv` | `AppliedOnce`, `ShareTellsTruth`, `RepeatableSpec` |

**`ContactsProofs`, `ConditionalWrites`.**  The properties speak of what a client read, the
code compares what a handler loaded.  `Current` connects them: a copy is never
ahead of the row, and is the row when their revisions agree; it is inductive since
`Save` alone changes columns and takes a new revision with them.  `Checked` says that
a handler loads after its client read, and that an accepted precondition names the
revision it loaded; `Open` that an answer is given once.  From them follow
`StrongValidator`, `RefusalsAreTrue`, `NoLostUpdate`, `IfMatchHonoured`,
`NoResurrection` and `EveryAckHasItsRevision` (with a counting argument over a finite set of
requests), and `Linearizable`: `Spec => AtomicSpec`, each step of a handler being a step of
`AtomicRow` or a stutter.

**`ContactsProofs`, `ContactGraph`.**  `EdgesAreFacts` lacks what waits to be written: an acceptance saves the copy it has
loaded, whatever became of the row, and a suggestion inserts what it has looked up.  `RowsApart` says that those relate two
contacts; that they do not tell a confirmed relationship a second time is seen by `KeyFree` (the unique index) when they
are written, so nothing has to be known of it before.  In `MergeLosesNothing` an edge may survive as its reciprocal one:
to be told the other way round is symmetric because of `InverseAssumption`.  `NothingRefersToTheDeleted`
is about what is stored; that it lasts rests on what waits to be written: `Alone` adds that no request in flight carries
(`Carries`) a contact that was deleted or merged away, unless it did so when the contact was swept.  A request that begins later finds
its contact live or does not go on; an edge or note that it loads does not refer to a dead contact, by `Alone` itself; and a merge
moves rows to a contact that it has found live.  `NotesStayDeleted` is an action property that needs types, and of each action
which notes it writes.

**`IdempotencyProofs`.**  `OneOwner` fails to be inductive because of the purge: what
if it frees the key of a handler that still runs?  `Young` excludes that (a row old
enough to be purged belongs to an attempt that is over).  `Complete` says what a
completed row stands for, `Told` that an attempt answers once and an attempt that
is over keeps its answer; together they carry `ReplaysAreFaithful`.  `OneEffectWhileRemembered` counts activities, and a
count is not inductive: `Remembered` says instead that while nothing was purged and no handler reported the failure of what it
had done, every attempt that made an activity owns the row.  A row has one owner, so a set of owners has one member.
`KeysNameOperations` (`Spec => KeyedSpec`) puts these together: each statement of the middleware and of the handler is a
step of `KeyedRequest` or none.  That nobody is admitted beside a handler at work is `OneOwner`; that an attempt has done nothing
before it owns the row is `NotYet`; that a replay is one of the same request is `Complete`.

**`SharedFileProofs`, `JobLock`.**  `Lag`: within the window of the last recorded success there is a
row and its `last_run_at` is no older than that success.  With `Made` (a trigger at
work has a row) it is inductive, since a success and `last_run_at` are written by one
transaction, and only if the lock is still the releaser's.  `WindowRespected` follows: the
first acquisition needs a missing row, any other one an old `last_run_at`.
`LockNotStolen` follows from the guards of acquisition and release.
`InstancesExclude` rests on `Owned`, the lock's history: a run that has not outlived
the timeout and did not lose its lock to the other trigger of its instance still has its
instance's name in the row, and there is one name.

**`SharedFileProofs`, `Migrations`.**  `Complete` holds whatever crosses: a clean file has all migrations up to its version, for a
body is committed before the version is marked clean, and nothing takes it away but a rollback, beside which nothing is at
work (`RollsBackAlone`).  So a server that serves has all it needs (`ServedIsComplete`).  The rest
is promised as long as no two processes have met (`overlap`).  `Alone` says what that means; then a process finds the file
where it left it at each of its steps (`Undisturbed`), the schema is
exactly that of the version (`Exact`), and a copy taken is the file that is going to change: `SnapshotsAreWhole`.  A start whose last
read failed takes the file for a fresh one (`cur = 0`); it marks the first version, whose body then fails on the tables there are, which
is why `InPlace` says nothing of it before that.  `RollbackPoint` asks
for more, as the snapshot may be an older one that is used again.  `Fresh` says that it holds the
data of now, or its name is `outdated`; `Secured` that from the preflight on there is one to go back to if one is owed (`Owed`):
the file was of an earlier release, and the read for the backup did not fail.

**`SyncProofs`, `Outbox`.**  `NothingLost` is not inductive: two chains move the watermark back and forth between what each has
read.  `Read` says of each chain that what is below its top, not to be staged any more and not left out is seen to (`SeenTo`): it is in
the table or reported, or it is without a number or missed before; then whichever chain stores its watermark, stores a true
one.  A sent call stays so because of `Honest`: a row
leaves the table only as synced, and a synced row, an answer "ok" and a completed key all stand for an activity.
`OneActivityWhileRemembered` needs `Keyed`: a row whose key is free has made no activity that is remembered.

**`SyncProofs`, `ContactSync`.**  `OverwritesAreRecorded` needs `MineHasBase`: an edit nobody has recorded differs from what the
reconciliation will compare it with, which is the link's value, or the baseline the run has captured.  So
when it is overwritten the three-way comparison sees a conflict.  `TokenTellsNoLie` speaks of the row; but a run and a form store
copies of it, so `TokensTrue` says it of all copies, that of a run under way with what it has still to import (`InWork`).
The hard step is the reconciliation, which works with answers that may be old: `ChangesAreTold` says that a card which
changed after the answer (`Overtaken`) is still to be told of by every token there is.  `InOrder` says what a
run has gathered at each point, `SameBook` that all copies are of one book unless the URL was changed under a
run (`crossed`, which the property excepts), `LeftLinks` that a link without a contact is of one the user deleted.

**`WebhooksProofs`.**  That an event is posted at most `MaxAttempts` times needs that
no two goroutines deliver it: `OneChain` says that a row with a retry, or one in the
batch, is that of the latest attempt and that no goroutine is at work beside it.  It is inductive
with `Paced` (an event that begins has attempt 0, a post raises `sent` to at most
the attempt) and `InHand` (what is loaded has attempts left).  `Heard` and `Decided`
carry a final answer from the goroutine to the rows, for `SettledIsFinal`; `InHand` and
`NoRetryForgotten` together survive a purge between the job's reads and its writes.
`RetriesAreOneDelivery` (`Spec => DeliverySpec`): wherever a retry is held (`Held`), it is that of the latest attempt, so that
moving it from the goroutine to its row, from the row to the batch, and from there to the next goroutine changes nothing for
the event (`NothingBeside`, `OthersAwait`); and every step after which nobody holds it any more has said so in `lost` (`EndsAreLosses`).

**`RemoteDataProofs`, `SourceImport`.**  `DataInv` speaks of the database alone, whatever sessions and goroutines do: a row that has
landed once is in the ledger and the other way round, so an import that saw the ledger leaves those rows out, and
one that did not see it fails on the unique index if it brings any of them again; what is made by one import has its contacts in
the same import.  It is preserved by `Apply` for each `seen` and `bad`, and every other action leaves its variables alone.
`ImportedOnce`, `LedgerIsTrue`, `NoOrphans` and `NoResurrection` follow.  `NoContactIsDropped` speaks of the wizard, so it needs the
types of sessions and goroutines (`Typed`), and `Reported`: what a committed import was asked for is in the ledger or in its
report, from `Apply` until `FinishImport` shows it; a goroutine between the two is not asked for anything else (`Settled`).

**`RemoteDataProofs`, `CalendarSync`.**  `EditsWait` follows from `Waits`: an edit the remote has not got is in its activity and its
link is pending.  Only `MarkPushed` ends that, so `InHand` follows a push: what it has loaded is the last
edit until its `PUT` is answered, and an edit that comes in between makes the event `raced`, which the property excepts (see
below, "Local edits win").

**`FileImportsProofs`.**  `AppliedOnce` rests on the lock and on what is read under it: `GoodRow` says what a handler
knows at each point (past the lock it is the holder; about to apply, nothing was applied; about to record or forget, it was),
and `GoodSessions` that a session which was imported says so, or died with its process, or has its holder
about to record it (`Recorder`).  So who finds a session unconfirmed under a free lock may import it.  `FoundInTime` follows
from an id that is not live being in `aged` or in `confirmedResults`, which is the order of `rememberConfirmed` and
`Delete`; `ShareTellsTruth` from a handler knowing, since `SessionBelongsToShare`, what its session is bound to.  `RowMoves`,
`LookupMoves` and `RowsMove` carry all steps that change no more than a handler's own row.
`ConfirmationsAreRepeatable` (`Spec => RepeatableSpec`) needs one fact beyond these, `NotLanded`: who finds a session unconfirmed
under a free lock is looking at an import that has not landed, so the refusals that follow are true.

**`RemindersProofs`.**  The handlers and the run work on copies, and write without a transaction around it.  `CopyInv`
says what a copy is worth: one that bears the revision of the live row is the row, since every write but the deletion
raises the revision.  So `Save`, `Update` and `SaveMirror`, where they succeed, change the row itself.  It also counts: every
request moves the reminder on once at most, so the occurrences of the model suffice for any number of requests.  On `CopyInv`
stand four invariants, none of which needs another:

* `TimelineInv`: two completions of one occurrence contest it, a completion that has not written yet finds the timeline empty,
  and an occurrence that is not over has an entry only from a completion under way.  Hence `TimelineIsTrue`.
* `SuggestionInv`: a request that has written deleted the reminder, or kept it; the user's own dismissal is `blamed`.  Hence
  `SuggestionFollowsReminder`.
* `ToldInv`: a run that is about to record has told; a run whose occurrence is not the row's any more was overtaken; a record
  that tells of an earlier occurrence has a request behind it that will clear it (`Clearing`).  Hence `NothingSwallowed`,
  and more: only a request that rescheduled the reminder can be awaited.
* `OnceInv`: of a day that has not come nobody is told (`NotYetTold`), and where a message is there is a record, or one is
  being written, or a cause (`Accounted`).  A deletion of records breaks that unless the row has moved on to a day that has not come,
  which is what `DayAhead` says of rescheduling; a run keeps what it read (`AccountedForRun`), and one that is about to read will find
  a record, a run that is telling, or a cause (`AccountedForReader`).  Two runs that have the same message in hand are excused
  (`RivalsExcused`), since the later of them read the records beside the other.  Hence `NoticedOnce`.

## What the models found

Places where code and documents part, seen while modelling.  The models follow the code.  No run is
about them; where a module states the claim, the property is named here, and TLC finds the counterexample when the
property is added to the module's configuration (`SessionsBounded` takes a second wizard).

The eleven that say most, by the name of the property:

* **`OnlyNewDataIsLost`**: `docs/operations/migration-recovery.md:124-127` says that going back to
  release N by the snapshot taken before the upgrade loses the data written while N+1 was up.
  `findReusablePreMigrationBackup` (`premigration_backup.go:128`) takes any snapshot of the same pair
  of versions that passes the integrity check.  A first upgrade is stopped before it changes anything (or is rolled back by
  the operator), release N serves and writes, the upgrade is started again: it relies on the
  snapshot of the first attempt, and what was written under N in between is lost too.
  The idempotence is meant for a container that crash-loops (`:80-85`), which the file name cannot tell
  from a second upgrade.  `RollbackPoint` states the weaker promise that is kept: there always is a
  snapshot of that schema.
* **`EveryUpgradeIsSecured`**: "the mandatory pre-migration backup is never silently skipped" (`docs/development/fault-injection.md:99`;
  "non-disableable", "fail-closed", `docs/deployment.md:477`).  `sqliteDriver.Version` answers "no version" when its query
  fails (`sqlite_driver.go:284-287`), so `MigrationVersion` says that there is none (`migrate.go:902-905`) and the snapshot is left out
  (`:790-792`); the next read succeeds (`:517`), nothing is refused, and the upgrade goes on.  The refusal of a populated file without a
  version looks at that second read only.  `RollbackPoint` names the case (`TakenForFresh`).
* **`StaleDeleteRefused`**: a conditional `DELETE` gets 412 if anyone wrote the row in between, for "a stale delete ... is a lost
  update too" (ADR 8, lines 98-99 and 124-126).  `DeleteContact` checks the copy it has loaded and deletes by id
  (`contact_controller.go:877-889`), so an edit between the two is deleted unseen.  ADR 18 (section 5, line 105) leaves this
  open on purpose; `IfMatchHonoured` states what is kept: the revision was right when it was checked.
* **`CatchUpRecovers`**: the periodic call-log sync is "the recovery path for broadcasts that never fired"
  (`TrackingWorkerScheduler.kt:17-18`).  `readSince` returns the newest 50 entries (`CallLogReader.kt:37-52`), and the worker stores the
  newest time it saw (`CallLogSyncWorker.kt:54-56,78`): of more calls since the last run, the older ones are never staged.
  `SmsHistoryReader` and its worker have the same shape.  A call without a number is passed over as well (`:57`), as is meant.
* **`RecordSuppressesSends`**: a `sent` record of a reminder and a channel "suppresses any further send for that pair"
  (`docs/int-01-integration-classification-matrix.md:76-80`).  A run reads the records once, and two runs may overlap: the boot's and
  the clock's in one process (`main.go:352-353`, `job_lock.go:123`), or one that has outlived its lock.  Each sends what the other
  records meanwhile.
* **`SessionsBounded`**: `MaxMonicaImportSessionsPerUser` "bounds concurrent Monica wizards per user"
  (`monica_import_session.go:48`).  The handler counts (`monica_import_controller.go:30`), `Connect` probes the other server for up to
  150 seconds and stores the session: requests that overlap all pass.
* **`CancelledCommitsNothing`**: "the whole import rolls back" when it is cancelled in `importing` or `importing_photos`
  (`monica_import_session.go:195-197`).  The pictures come after the commit: the wizard reads "cancelled", and
  everything stays imported.
* **`CancelledIsRetryable`**: the cancelled session is kept "so the user can retry from the review step"
  (`monica_import_session.go:196-197`).  Its phase stays "cancelled", and `Preview`, `Confirm` and `StartFetch` all
  require another one.
* **`LossesAreShown`**: a source import "reports every loss/degradation per record" (`docs/import/README.md:14`).  The engine does, in
  part: a record whose contact this run did not import is an issue of category `unsupported` (`import_source.go:478-488`).  But the
  wizard keeps the category `invalid` alone (`source_import_session.go:145-150`, called at `monica_import_session.go:553`), since "the
  rest belong to the loss report shown before confirm", when it is not known what will fail.  So a relationship between two
  contacts of which one came with an earlier import is missing, and nothing says so.  A household, circle or tag that an earlier import made is
  passed over whole (`import_source.go:806`), so a later contact is not its member; of that the engine says nothing either.
* **`NothingLandsAfterResponse`**: confirming a share that was responded to is a conflict (`openapi.yaml:2911`, `:2942` for declining).
  `ConfirmContactShare` and `DeclineContactShare` look at a copy loaded when they begin
  (`contact_share_controller.go:317,370`): a share declined during its confirmation is imported, and the later `Save` overwrites the
  earlier response.
* **`RetryBringsAll`**: after a roll back "a retry works" (`import_session.go:24-26`).  `Confirm` writes the ids of the new
  contacts into the rows of a vCard session before the commit (`:472`, `:515`); when the commit fails, the retry inserts with those ids
  and a row may be refused.  `ConfirmVCF` does not write them.

The others:

* A missed watermark "can only under-report" (`TrackingRepositories.kt:61-63`).  `recordIfNew` compares with
  rows still in the table; a row already synced and deleted is staged again by the
  other chain (`NeverStagedAgain` of `Outbox`).
* A failed purge is recorded as failed (`purge_service.go:189-191`).  Its deferred release reads an
  `err` that is still nil while a panic unwinds: a job that panics each time is a success
  each time (`PanicIsNotSuccess` of `JobLock`).
* No confirmed edge has a deleted endpoint (ADR 12, lines 256-258, INV-D7).  Accepting a suggestion saves a copy
  loaded before its contact was deleted, and the save inserts it again
  (`DeletedIsNotATarget` of `ContactGraph`).
* Every persisted write bumps the revision (ADR 6, line 37).  A merge moves notes in bulk and bumps
  none, so an update that loaded the note before overwrites the move (`UpdateSeesTheNote`).
* Local edits win (`calendar_sync_service.go:797-812`).  An edit made between the load and the mark of a
  push is not pending afterwards, because `db.Save(link)` sets `updated_at` to now and not to
  `activity.UpdatedAt` (`:981-982`); the same is true of an edit whose link is adopted by a
  new UID (`:693-694`).  The next remote change then discards it (`LocalEditsWin`).
* The user's deletion of a synced contact is respected (`contact_sync_service.go:501-505`).  `DeleteContact`
  removes the link with the contact, so a later change of the card finds no link and
  creates the contact anew (`DeletionIsRespected` of `ContactSync`).
* A rescheduled occurrence is "a fresh reminder" (`reminder_controller.go:394-396`).  That holds of
  completions; `UpdateReminder` moves the date and clears neither the delivery records nor the mirror
  (`:135`), so a reminder that was sent and postponed is silent.  And a run that
  overtakes the completion records its delivery behind the clearing.  `NothingSwallowed` names both.
* "A retry after an ambiguous send ... does not double-notify" (`docs/int-01-integration-classification-matrix.md:76-80`).
  `NoticedOnce` names what the code leaves open besides overlapping runs: an unknown outcome, a record that is lost, and records
  deleted ahead of a reminder whose deletion fails.
* ADR 10 (lines 58-59) says a failed create left nothing durable to replay.  `CreateActivity`
  commits the activity (`activity_controller.go:57`) before it appends the participants
  outside a transaction (`:65`); when that fails the client hears 500, the key is dropped, and
  the retry creates a second activity.  `OneEffectWhileRemembered` excepts that answer.
* "Pending retries survive" a restart (`integrations/retry.go:81`): the retry that is under
  way does not.  Its `next_retry_at` is cleared (`webhook_service.go:493`) before the
  goroutine has saved an outcome, and a crash in between leaves no row to retry;
  so does an INSERT that fails (`:445`).  A lookup of the webhook that fails for any
  reason drops the retry as well (`:486-488`).
* The purge takes a row past its window for past every retry
  (`webhook_delivery_purge_service.go:30-32`, "~20-minute backoff window"); a
  `Retry-After` of the receiver is honoured without a bound (`integrations/retry.go:169-175`).
* `UpdateWebhook` saves the copy it loaded (`webhook_controller.go:167`): a webhook
  deleted in between is inserted again and goes on being delivered to.
* ADR 10 (line 63) takes a pending key for a first call still in flight.  After a failed
  settlement (`idempotency.go:147,156`), a panic or a crash the key stays pending too,
  and "retry shortly" is answered 409 until the purge.
* The sync worker relies on the key for any later retry (`InteractionSyncWorker.kt:35-37`);
  after a retention of 24 hours the server has forgotten it
  (`idempotency_purge_service.go:42`), and the retry makes a second activity.
  `OneEffectWhileRemembered` and `OneActivityWhileRemembered` name that limit.
* ADR 11 (line 44) promises one run a period; an instance is not excluded by its own
  lock (`job_lock.go:123`), so its start-up run and a scheduled tick can run the job
  together, and the release of one clears the lock under the other.
  `InstancesExclude` names that case.
* The first run writes `last_run_at = now` when it starts (`job_lock.go:98`), not when it
  succeeds (`:44-45`): if it fails, the next window is skipped.
* The `deduped` outcome is written outside the transaction that decided it
  (`job_lock.go:157-159`) and may replace the `running` marker (`:167-169`) of another run.
* A CardDAV DELETE leaves the edges and notes of the contact (`carddav/backend.go:451`,
  INV-D3), and `CreateNote` may attach a note to a contact deleted since it was loaded
  (`note_controller.go:33,58`).
* `DeleteContact` removes photo files by the names of a copy it loaded earlier
  (`contact_controller.go:910`); a merge may have moved the photo to the keeper
  (`contact_merge_controller.go:204-212`, INV-D4).

## What is only model-checked, and what is not modelled

Liveness (`PendingIsResolved`, `JobKeepsStarting`, `EveryCallIsReported`, `ChainsEnd`, `EditsArePushed`, `ImportSettles`, `ConfirmsEnd`) is
checked by TLC only, since the provers handle neither fairness nor `ENABLED`.

Left out of the modules above:

* `ConditionalWrites`: the participants of an activity, which `UpdateActivity`
  replaces before the compare-and-swap (`activity_controller.go:306`).
* `ContactGraph`: reminders, memberships, life events, gifts and field values move
  and go with the statements next to those for notes; thin contacts made with an
  edge; files.
* `Outbox`: the SMS workers, the eviction at `OUTBOX_UNSYNCED_CAP`; two calls of one time and number, which `recordIfNew`
  takes for one; message bodies and durations.
* `JobLock`: what the jobs do; `JobCatchupWindow` is a constant here.
* `Webhooks`: payloads and signatures, the semaphore that limits parallel posts, creation and
  secrets, the operational event raised on the last failure.
* `Reminders`: birthdays in the digest, stale push subscriptions, the configuration of channels, the arithmetic of
  the next date, the deletion with the contact.
* `ContactSync`: the dismissal of a conflict (whether a conflict is recorded is modelled, its later status is not),
  two instances that sync one subscription at once, which the mutex of a process does not exclude (`contact_sync_service.go:189-198`),
  the archived flag, the scheduler, credentials.
* `CalendarSync`: plain `.ics` feeds, the rolling window, contacts matched by attendee; several occurrences in one object
  (`calendar_sync_service.go:406-410,571-583`): an object holds one event and a UID is on one path at a time.
* `Migrations`: routine backups, disk space, the bodies themselves, rolling back the first migration.
* `SourceImport`: how the other system's records are mapped, which fields a merge writes, search for matches, HTTP, the
  options that leave relationships or further records out of a fetch (`monica_import_session.go:329-330,382,408`).
* `FileImports`: parsing and matching, the rows of a preview (so not the race between `PreviewCSV` and `Confirm`, which hold
  different mutexes), the merge of a row, pictures, a panic between the commit and the record of it (`import_session.go:721-775`), which gin
  recovers and after which the session is live and unconfirmed, `import_runs`, the sender's side of a share.
* In all: text, formats, validation of fields, authentication.  Rows of different
  users never meet, for every statement names the user.

The parts of the inventory without a module are listed in `PROJECT.json` with the
reason.  Conversions of large records and text matching are tested by
fixtures and round trips and are no subject for a bounded state space.  Login, two-factor, session and
lockout code is left to its tests: its questions are of secrets and guessing, which these models do not have.  The rest is
planned.

## The plan

`ConditionalWrites`, `ContactGraph`, `Idempotency`, `JobLock`, `Outbox`, `Webhooks`, `Reminders`, `ContactSync`,
`CalendarSync`, `Migrations`, `SourceImport` and `FileImports` are done.  Left, in this order:

1. **`AuditChain`** - append, purge from the front, verify: the chain verifies after each
   legal history, and after no other in the bounds.
2. **Photos and participants** - files beside rows, as an extension of `ContactGraph`;
   participants, as an extension of `ConditionalWrites`; a bounded outbox.
3. **Composition** - `Outbox` over `KeyedRequest`.  A post of `Outbox` is one step, and several of `KeyedRequest`, so the
   mapping needs a variable that stutters.
