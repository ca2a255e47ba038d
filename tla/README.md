# PRTS: verification project

TLA+ models, model-checking runs and machine-checked proofs for the PRTS
translation platform (Rust API server and workers over PostgreSQL, Redis and an
object store, Vue front end). Every definition is translated from the source at
one commit; `PROJECT.json` maps each one to the lines it stands for.

## 1. The system

One binary, `prts-api`, runs any number of times against one PostgreSQL
database and one Redis. Each process serves HTTP and WebSocket requests and
starts a set of background loops (`main.rs`): a job worker, the
authentication outbox, the embedding sweep, the search-settings writer and the
realtime relay. All coordination between processes goes through PostgreSQL (row
locks, advisory locks, unique indexes, CHECK constraints, triggers); Redis holds
caches, challenges, counters, previews, presence and pub/sub, and the database
has the last word.

| component | state it keeps | operations | talks to | what is hard | what makes it correct |
|---|---|---|---|---|---|
| Durable job queue (`prts-db/jobs.rs`, `job_worker.rs`, `job_retry.rs`) | table `jobs`: state, attempts/budget, worker, lease, pause reason, stage, progress | create, claim (pause gate + exhausted sweep + lease), renew, complete, fail, manual retry, pause, resume, cancel, detach | every module that creates jobs | leases that expire under a live worker, stale snapshots, crashes between commit and record | outcomes recorded only under the lease and never undone, every job settles |
| Project deletion (`routes/projects.rs`, `jobs/purge_project.rs`) | deletion columns of `projects`, the bound purge job, media objects | challenge, schedule, cancel, purge rows, clean up objects | queue, media store | two clocks, cancel against lease, crash between the database and the object store | one purge, not before its deadline, rows before objects, the cleanup of objects owed until its job has spent its budget |
| Primary source rebuild (`reindex_project.rs`, `embed_worker.rs`) | search columns of `projects`, `entries.source_text` and vectors, job cursor | change, lexical batches, spawn, embedding batches, sweep, retry | queue, embedding provider | late attempts, texts rewritten while vectors are computed, look-up/insert gaps | search says "ready" only of a complete index, no vector outlives its text |
| Language repair (`repair_languages.rs`, `language_resolution.rs`) | tags of the originals, issues, repair state of `projects` | repair, decide, retry | queue, the lexical rebuild | reads outside the transaction that writes, attempts that are used up | a project is released only with canonical tags, somebody can always go on |
| Uploads (`uploads.rs`, `process_upload.rs`, `cleanup_uploads.rs`, `upload_replacement.rs`) | batches, files, attempts, temporary objects | create, put, queue, process, cancel, expire, retry, reconcile, sweep | queue, disk, entries | expiry and cleanup against streams and processing, jobs that serve several attempts | file, attempt, batch and disk agree; no received object is lost |
| File history (`file_history.rs`, `purge_deleted_files.rs`) | folders, files, tombstones, change sets with snapshots, `visible_total` | create, move, delete, restore, roll back, replace by upload, purge after retention | queue, entries | long sequences: a restore below a deleted folder, a roll back over a move, a purge between | the tree stays a tree, counts equal a recount, a version stays what it was |
| Entries, editor, tasks (`entries.rs`, `stats.rs`, `tasks.rs`, `contributions.rs`) | rows with version and flags, counts per bucket, history, task progress, CP ledger | save, set flags, replace by upload, delete, restore, task changes, join and leave | file history, realtime | optimistic concurrency, counters kept by differences in five writers | a version names one content, counters equal their definition, the history names the author |
| People (`project_join.rs`, `projects.rs`, `admin.rs`, `permission.rs`, `api_keys.rs`, `entry_comments.rs`, `messages.rs`, `audit.rs`) | members, platform roles, applications, counters of failed passwords, keys, comments, notices, audit log | join by each door, leave, apply, withdraw, decide, add, remove, grant, settings, comment, poke, send, keys | Redis | rights that are revoked between the check of a request and its transaction | rank is never exceeded, one verdict per application, the log replays to the tables |
| Terms and parts of speech (`terms.rs`, `pos.rs`, `term_import.rs`) | terms with immutable versions, presets, one-shot previews | create, update, delete, restore, preview and commit an import, switch language | Redis, the primary source | restored versions of another language, presets renamed under a preview | the glossary is in the primary source language, an import does what was previewed, once |
| AI assistance (`ai.rs`, `ai_settings.rs`) | settings with encrypted keys, cache of explanations and of searches, transport probes, one stream per request | put and delete settings, explain: prepare, cache, search, call, stream, answer | provider, search service, client | caches shared by everybody, silent providers, clients that stop reading | an answer fits its question, a key stays with its provider, every request ends |
| Sessions (`auth_sessions.rs`, `auth/session.rs`) | session rows, outbox intents, Redis session cache | issue, refresh (rotate), revoke, expire, change of the password, outbox | Redis | a response lost after a rotation, populate after invalidate | one active session per family, a key that was invalidated does not come back |
| Session in the browser (`api/http.ts`, `stores/auth.ts`) | stored pair of tokens, lock across tabs | refresh single-flight, sign in, log out | HTTP | answers that arrive after the pair has changed | tabs do not log each other out |
| Search settings (`search_settings_worker.rs`) | settings row, runtime configuration, bounded queue | submit, apply, publish, drain | search engine | shutdown while requests are queued | what is answered is what runs |
| Realtime and presence (`prts-realtime`, `ws.rs`) | Redis sets with expiry, local subscribers | join, touch, leave, snapshot, relay | Redis | expiry against refresh, snapshots out of order | a snapshot holds nobody who left |

## 2. Modules

| module | models | extends | proofs | runs |
|---|---|---|---|---|
| `JobQueue` | the queue and the deletion of a project | | `JobQueueProofs` | `JobQueue_safety`, `JobQueue_settle` |
| `JobLifecycle` | what the queue promises of one job: the transitions of `JobState` and the budget | | refined by `JobQueue` (`LifeSpec`) | |
| `PrimarySource` | change of the primary source, both rebuild handlers, the sweep | | `PrimarySourceProofs` | `PrimarySource_safety` |
| `LanguageRepair` | the repair of a project older than canonical tags | `PrimarySource` | in `PrimarySourceProofs` | `LanguageRepair_ends` |
| `AuthSessions` | rows of `auth_sessions`, their transactions and trigger | | `SessionProofs` | `AuthSessions_safety` |
| `SessionFamily` | what a sign-in promises: a family has one holder and no former one comes back | | refined by `AuthSessions` (`FamilySpec`) | |
| `SessionOutbox` | the outbox and the Redis cache | `AuthSessions` | in `SessionProofs` | `SessionOutbox_converge` |
| `BrowserSession` | the tabs of one browser | `AuthSessions` | `SessionProofs` | `BrowserSession_refresh` |
| `Uploads` | a batch with its receivers, jobs, cleanup handler and temporary objects | | `UploadsProofs` | `Uploads_safety` |
| `FileHistory` | the tree, change sets, restore, roll back and retention | | `FileHistoryProofs` | `FileHistory_safety` |
| `Permissions` | roles, nodes, ranks and the two authorisation matrices (no state) | | | |
| `EntryEditing` | saves, flags, counts, history, tasks, contributions | `Permissions` | `EntryEditingProofs` | `EntryEditing_safety` |
| `Collaboration` | one project and the people around it | `Permissions` | `CollaborationProofs` | `Collaboration_safety` |
| `Terms` | glossary, parts of speech, import | `Permissions` | in `AssistanceProofs` | in `Assistance_safety` |
| `Assistance` | AI settings and explanations over that glossary | `Terms` | `AssistanceProofs` | `Assistance_safety` |

A module that EXTENDS another composes with it: each step of `SessionOutbox` and
`BrowserSession` is a transaction of `AuthSessions` together with what it does to
the cache or to the tabs; `LanguageRepair` adds the steps of the repair to those
of `PrimarySource`, whose lexical rebuild it starts; `Assistance` reads the
glossary and the primary source while `Terms` changes both. `MC*` modules
name model values, mixes of requests and symmetric sets.

### How a model corresponds to the code

An action is one database transaction, or one step of a handler between two
points at which something else may run (an `await` outside a transaction, a
call to Redis, the disk or the provider). Rows are records; rows that were not
inserted have state `"absent"`, or a distinguished value. Time is never a number: a
lease is live or expired, `run_after` is due or not, a deadline or a window has
passed or not, and each passes at any moment. A process that dies drops what it
executes (`Vanish`, `Die`); a restart is a worker that starts again from `Idle`.
Audit records are left out except in `Collaboration`, where they are the subject:
one that cannot be written aborts the transaction, which is the behaviour in which
the action is not taken. Definitions commented `Slip:`, the ones of `mutants`,
are not part of any specification; they are plausible bugs with which the
properties are tested.

**JobQueue.** `ReadPending` reads the pending projects, `Claim`/`ClaimNothing` are the
one statement of `claim_next_inner` (pause, exhausted sweep, lease) on that
snapshot; `Complete`, `FailAttempt`, `LoseLease` are the ends of `run_once`
behind the fence `Owns`. `ScheduleDeletion`, `CancelDeletion`, `ManualRetry` are
the routes; the purge handler is two actions (`PurgeDatabase`,
`CleanupExternal`), because it commits the database part before it deletes
objects. `Spawn` (the embedding job of the lexical handler) looks up and inserts
in one step here; `PrimarySource` separates the two, which is where the gap
matters.

**PrimarySource.** A text is a pair (revision of the originals, primary
source), a batch is one entry, a vector is the text it was computed from. The
handlers are split at every `await` that separates a read from the write that
uses it. `CooldownEnds` assumes that the seven days of the cooldown outlast an
execution that has lost its lease (a worker notices within one renewal
interval).

**LanguageRepair.** The handler reads the languages of the project and the rows,
then rewrites or reports each entry in a transaction of its own, then ends in
another, and its failure is flagged in yet another; all of them are separate
steps. What the spelling of a tag is, is abstracted to three facts: which
languages an original has under a spelling other than the canonical one, which
under two with different texts, and whether a tag names no language. `Resolve`
decides all issues at once, as the route demands. `Withdraw` is an upload or a
roll back that takes an entry away or brings it back.

**AuthSessions.** One action per transaction; within it the statements are
written one after the other, since the trigger of migration 0002 judges each on
the rows left by the one before. `TransactionsAccepted` says that none is refused.

**SessionOutbox.** A session causes at most one populate and one invalidate, so
an intent is named by session and kind. The budget of an intent is `i32::MAX`
and is left out. Each process has a worker, so any number of them serve the
outbox; `Look` reads the session and `WriteCache` calls Redis, and anything may
happen in between. A command nobody waits for any longer (it timed out, or its
process died) is lost or executed later (`wire`, `LateSet`). `overlap` is an
observer: the sessions revoked while a set of their key was under way.

**BrowserSession.** A pair of tokens is named by its session. `webLocks` is
chosen initially: browsers with `navigator.locks` and without. When the ids of
the run are used up the server answers with an error (`ServerFails`).

**Uploads.** Requests hold the row lock of the project, so they are single
steps, except the retry of a file: it reads its batch without a lock, then locks
its file (`BeginRetry`, `FinishRetry`), and the expiry or the failure of a job
may commit in between. Receiving is split at each disk operation; the commit
that ends it may fail, or be taken for a failure (`FinalizeFails`). The cleanup
handler sweeps the batches of all projects, so nothing about this project
delays or triggers it: it may start at any time and end after each operation.
Processing is one transaction that holds project, batch, file and attempt; its
intermediate states (`processing`) are never seen from outside. The failure of a
job is two steps: its transaction locks the rows of job, file and attempt, but
not that of the batch, and counts the files in the snapshot of a statement that
may then have to wait for the batch (`BeginFail`, `Counts`); what it writes
follows from those counts and the batch as it is by then (`EndFail`,
`Reconciled`). Whoever needs a row the failure holds waits (`Locked`); a retry
of another file does not. A retry of the same file that commits first leaves the
failure with the job alone (`FailJobOnly`). One handler at a time sweeps. A pause
by a worker with a stale list of pending projects is left to `JobQueue`. The row
lock order of completion, cancellation and expiry (batch, then files) and of a
job's failure (file, then batch) differs, so PostgreSQL may abort one of them;
the model has that as a fault of the worker or a request not taken.

**FileHistory.** Every operation locks the project row, so it is one step; what
matters is what long sequences add up to. A change set carries the snapshot of
each row before it, as `snapshot_json` does; a roll back undoes later items from
the newest to the oldest. The one exception to single steps is an upload: its
change set has the time at which its transaction began (`now()` in PostgreSQL),
before it waited for the lock, so `BeginUpload` fixes the position in the order
and `ReplaceContents` commits. A file has one entry, and its state is live or
tombstone; the counts are `visible_total` only.

**EntryEditing.** A draft is what the editor has read; the save comes any number
of steps later and compares only the version. Counts are kept by differences
exactly as `stats.rs` does, in every writer; `strayed` records the files that were
written to while deleted, where the code loses count (below). Texts are numbers,
and 0 is the empty text.

**Collaboration.** A request is `Begin` (authentication, the platform role of
that moment, the checks before the transaction) and a transaction that reads
again what the code reads again, no more. The check of a password or quiz spans
two steps under the lock of the project (`checking`), because its counters are
in Redis and expire by themselves, and either of the two scripts that count may
fail. `audited` is what a reader of the audit log believes: each transaction
appends its event, and `Replay` applies it.

**Terms.** A handler decides everything again under the lock of the project, so
it is one action. An import is three: preview, the token taken from Redis, the
transaction. Documents are sequences of rows, matching is on sets of words.

**Assistance.** A request goes through phases, split where it waits: the entry and
its language, the setting, the glossary terms, the cache, the search, the
transport, the provider, the stream, the last event. The channel to the client
holds `Capacity` events, and a send waits while it is full. What a provider does
is a choice: an answer, an error, a rejection of streaming, chunks that end or
go on for ever, silence. The caches are sets of records under the keys the code
computes (`CacheKey`, `SearchKeyOf`, `ProbeKey`), so that two requests with one
key share an answer, as they do in Redis. A search key is named by the provider
it was given for.

## 3. Runs

All bounds are CONSTANTS, each with its comment; the constants of a run are in
its `.cfg`. Symmetry is used only over model values that no constant singles
out, and never in a run with a liveness property.

| run | shows | bounds, and why they are enough |
|---|---|---|
| `JobQueue_safety` | an execution that holds its lease executes the latest attempt (`FencedExecution`); one purge (`OnePurge`), rows before objects and the cleanup owed until its job has spent its budget (`CleanupOwed`); no other job acts for a deleted project (`NoOrphans`); the life cycle is implemented (`LifeSpec`) | 3 jobs: a purge, one that is running and one that is spawned; 2 workers: the late and the new owner of a lease; 2 faults: a stall and a crash after it. 413,000 states; the proofs remove the bounds |
| `JobQueue_settle` | queued and running jobs settle or are paused (`JobsSettle`) | 2 jobs, 2 workers, 2 faults |
| `PrimarySource_safety` | search is served only when every entry carries the current text or the job that owes it is not over (`LexicalCurrent`); a vector is that of its text (`VectorCurrent`); a rebuild that is not over has a job, or a failed one that can be retried (`RebuildOwed`) | 4 jobs: two lexical and two embedding ones, i.e. a retry against its successor; 2 changes, 2 workers; an edit and an upload while batches run. 1.05 million states; all three are proved without bounds |
| `LanguageRepair_ends` | a project is released only with canonical originals, and whatever state it is in leaves a request that takes it further (`RepairSound`); search comes back or waits for a person (`SearchReturns`) | 2 entries, one a repair can rewrite and one it cannot; 2 workers: a late attempt beside its successor; 4 job ids: the repair, the one after the decision, the lexical and the embedding job; 1 fault. 788,000 states; `RepairSound` is proved without bounds |
| `AuthSessions_safety` | one active session per family (`OneActive`), every statement accepted by the trigger (`TransactionsAccepted`), refinement of `SessionFamily` (`FamilySpec`) | 4 sessions: two families, or a chain of three rotations and a competitor; 1 change of the password; proved without bounds |
| `SessionOutbox_converge` | the key an invalidate has deleted does not come back, whichever worker was at work, unless the session was revoked between the look of a populate and its set (`InvalidateLasts`); every intent is carried out (`IntentsDone`), through crashes, stalls, errors of Redis and commands that arrive late | 2 workers: the one that looked and the one that deletes, or the one that died and the one that takes over; 2 sessions (predecessor and successor); 1 fault. 906,000 states; `InvalidateLasts` is proved without bounds |
| `BrowserSession_refresh` | a refresh that is answered by the server is only refused when the sign-in is over (`DeniedIsOver`); the stored pair is the newest the browser was given (`StoredNewest`); a refresh ends (`RefreshEnds`) | 2 tabs, 3 sessions, a lost answer and two 401s: a rotation by the other tab before and after the lock; the first two are proved without bounds |
| `Uploads_safety` | a received file waits with its object on disk (`ReceivedKept`); a file has the state of its current attempt, earlier attempts are over, and a batch does not end over the head of an active file, unless that file is sent again (`BooksAgree`); a completed file keeps a job for its current attempt (`QueuedOwed`) | 2 files: the batch must tell one from all; one of them sent twice (an old attempt, and an old job, beside the current one); 2 workers: failures that count at once, or beside a processing, and the late and the new owner of a job; 2 faults, where a retry of a job by hand counts as one: a stall and a crash, or an old job beside either. 5.3 million states; all three are proved without bounds |
| `FileHistory_safety` | the folders form a tree whose paths follow the parents, and each deleted row is recorded in the operation that holds it (`TreeSound`); the count equals a recount (`StatsExact`); the version a change set stands for does not change afterwards (`VersionsStable`) | 2 folders: one inside, above or beside the other; 1 file; 2 names: a collision and its absence; 4 change sets: create, delete or move, upload, restore or roll back; depth 3; all three are proved without bounds. 140,000 states |
| `EntryEditing_safety` | every count shown is the number of rows listed, and a task's progress is that of its baseline (`CountsExact`); a version names one content, so that the save it lets through overwrites nothing unseen (`VersionNamesContent`); totals are the sums of the ledger (`LedgerAgrees`); the history lays each change at the door of who made it (`Attributed`) | 2 users: a translator who joins and leaves, and a platform administrator who needs no membership; 2 files with an entry each: one in and one out of the scope of a count or a task; 4 versions of the first: the one read, the one written meanwhile, the save and its successor. 324,000 states; all four are proved without bounds |
| `Collaboration_safety` | no window counts more failures than its limit (`AttemptsBounded`); one owner, no open door without its secret, no second open application (`ProjectSound`); the audit log replays to the tables (`AuditReplays`); nobody changes or gives a rank not below the one he has at the commit, but for the decision of an administrator who was demoted meanwhile, which may give his own and no more (`RankRespected`); a settled application stays settled, an approval makes the member it names (`VerdictsStand`) | 4 users: owner, manager, applicant, platform administrator; 2 requests in flight, since the properties are broken by a pair; limits 1 and 2; three mixes of requests (ranks, doors, talk), each with what may interfere. 789,000 states; all five are proved without bounds |
| `Assistance_safety` | a live term is in the primary source language, has no double and no lost part of speech (`GlossarySound`); the history has no gap (`HistoryTells`); a preview is committed at most once and in full (`ImportExact`); search keys stay with their provider (`SecretsStay`); an answer fits its question (`AnswersFit`); every request ends (`StreamEnds`) | 2 users: the owner and a member, with settings of their own and of the project; 2 terms, 4 versions each (written, archived, activated, restored), 2 parts of speech, 2 preview tokens; a channel of 2 events; 2 versions of the entry; six mixes of requests. 81,000 states; all but `StreamEnds` are proved without bounds |

`CHECK_DEADLOCK FALSE` appears where the system may really stop: all sessions
of the run are used up, all intents are done, a batch is over and swept, all
change sets or versions of the run are used up.

### Fairness

Liveness assumes what the code schedules and nothing of users or faults. Workers
poll in an endless loop with a timed wait, and a handler that runs returns:
weak fairness of each worker's loop and handler. Leases, back-offs and deadlines
are clocks: weak fairness of their passing, without the faults that would make
them pass early. In the browser, a tab's timers and promises run on, and each
request is answered or times out (15 s): weak fairness of each tab's progress.
In `LanguageRepair` nobody has to decide an issue or to retry a failed job, so
`SearchReturns` ends in `Waits` too; `OutOfIds` is the bound on job ids, reached
with a handler waiting for one. In `Assistance` the steps the server takes of its
own accord are fair, its timeout among them, and a client that is still connected
reads (`Drain`); the provider is never forced, and it may stay silent for ever.
The search and the call have timeouts of
their own; the look-up of a host name before them is assumed to return. Requests, retries by hand, crashes, stalls and errors are
never forced. No strong fairness is used.

## 4. Where the code departs from its documents

The models follow the code where it departs from what a document or a comment
says or a reader expects. The properties are stated so that they hold of the
code: where it fails what one would state, the property excepts exactly that case
and its comment names it (`CleanupOwed`, `InvalidateLasts`, `BooksAgree`,
`RankRespected`, `StatsExact`, `VersionsStable`, `CountsExact`). TLC
refutes each of the first four without its exception.

**Queue and deletion**
- A worker that read the pending projects before a cancellation pauses the jobs the
  cancellation has just resumed; nothing resumes them. Work on a pending project
  can be claimed, for the same reason, although only the purge should run.
- Purging a project with a paused job sets `cancelled` without clearing
  `pause_reason`; the CHECK aborts every attempt of the purge.
- A failed purge cannot be retried by hand: the retry route answers 404 for a
  pending project (`job_retry.rs:40`), and after the database purge, which sets the
  `project_id` of its own job to NULL, `manual_retry_tx` refuses the job
  (`jobs.rs:602`). When the last attempt of the budget fails in the external
  cleanup, the objects stay for good, although
  `2026-07-10-project-workspace-overhaul-design.md:285` says the job remains
  in a stage that can be retried. `CleanupOwed` excepts the spent job.
- A claim fails a job whose attempts are used up in SQL, without projecting the
  failure on the project or the upload: the project stays `rebuilding`, the file
  `queued`. A manual retry counts as an attempt: a job that failed for good on
  its first one has one less left afterwards (`jobs.rs:594`).
- The retention scan schedules its successor in a transaction apart from its own
  completion (`jobs.rs:157`).

**Primary source, embeddings, languages**
- Entries uploaded during a rebuild push `progress_current` beyond
  `progress_total`; the CHECK aborts the batch.
- A lexical attempt of an earlier change that lost its lease may still write
  `ready`; the job of the present change then still owes the rest.
- A lexical handler that runs again after its embedding job finished sets the
  embedding stage back to pending with no job left; its look-up and insertion of
  that job are separate, so two may be inserted (`reindex_project.rs:82`).
- The embedding sweep selects only projects without an embedding job id, and
  nothing clears the id: entries written after a rebuild are not embedded.
- `change_primary_source` does not check that the entries have the new language: the
  trigger (migration `0021:121`) then refuses every lexical batch and every save
  of such an entry, the job fails for good, and the failed job blocks the next change.
- An issue about a deleted entry makes the decision answer 404, since
  `lock_entry_original_tx` wants a live row while all issues must be decided at once.
- A late attempt of the repair writes the languages it read at its start, and
  originals read outside the transaction that rewrites them; issues it leaves stay
  open on a project that is ready. A roll back of a file does not ask whether
  the languages are ready.

**Sessions**
- With two outbox workers a populate that read the session before its revocation
  sets the key after the invalidate has deleted it (`session.rs:550`), and no intent
  is left to take it away before its TTL ends. A command Redis executes late does
  the same. `docs/architecture.md:76` says that the outbox makes the cache
  converge; that a stale key authenticates nobody, which it says too, holds:
  authentication reads the database. `InvalidateLasts` excepts this gap (`overlap`).
- A change of the password leaves the sessions it opened alive (`users.rs:216`).
- A tab whose refresh failed clears the stored pair without comparing it
  (`http.ts:68`), and a logout whose token another tab rotated meanwhile ends
  nothing on the server; a refresh whose answer was lost cannot be repeated.

**Uploads**
- `expire_due` handles the due batches of all projects in one transaction
  (`uploads.rs:644`); one paused upload job breaks the CHECK on `pause_reason`,
  and none expires.
- The failure of an old job (retried by hand, then overtaken by a retry of the
  file or of another file of the batch) turns a batch that is being sent into
  `processing`: what is received then can no longer be completed, and a stream
  that fails leaves the batch open until it expires.
- The failure of a job counts the files in the snapshot of its statement and holds
  no lock on the batch (`uploads.rs:991`). When the retry of another file commits
  between the count and the write, the batch ends `failed` or
  `partially_succeeded` although a file of it is sent again: `expire_due` does not
  look at it, and only its owner's cancellation ends it, although the design
  (`2026-07-10-project-workspace-overhaul-design.md:156`) lets every batch that is
  not finished expire. `BooksAgree` excepts files that are sent again. Two
  failures that count at once, or one beside a processing, each see the file
  of the other as active and leave the batch `processing` with nothing to do,
  until it expires.
- A batch cancelled while its last job is about to finish stays `cancelling`
  until it is cancelled again or expires: success does not reconcile it again
  (`uploads.rs:606`). A retried file has no cleanup job of its own; its batch
  expires when any cleanup job runs.

**Files and entries**
- A sub-folder restored below a folder that stays deleted leaves active files below
  a deleted folder; counts drift from then on, and the purge of the upper folder
  is refused by the foreign key (`prts-db/file_history.rs:708`), although
  `2026-07-10-project-workspace-overhaul-design.md:176` promises the end of the
  retention. `StatsExact` excepts the state after such a split. A move that
  comes after it can fail as well: `plan_folder_move` compares the new paths with
  those of other rows, but leaves out the paths of all rows it moves, deleted ones
  included (`prts-core/file_history.rs:571`), so that an active file may run into
  the path of another and the request into the unique index (migration
  `0010:99`), a database error. It takes 14 steps on 4 folders and 3 files, beyond the
  bounds of the run, and was found when the uniqueness of paths could not be
  proved; `TreeSound` states it of trees without such a split.
- The change set of an upload has the time its transaction began, so it may
  sort before change sets committed while it waited; a purge that removes change
  sets also removes those with items of files that survive. `VersionsStable` names both.
- `snapshot_json` drops `questioned`; the roll back of a file whose path was taken
  since ends in `InvalidTree`; the cancellation of jobs by the purge leaves
  `pause_reason`.
- `set_entry_flags` without a flag asks for no permission node, yet bumps the
  version and writes history; a `state` filter given twice is counted twice by
  `editor_entry_total`; saves and flags in files that are deleted make the counts
  drift (`CountsExact` excepts these files).

**People**
- A decision uses the platform role of the authentication although that may have been
  revoked since (`project_join.rs:529`, against "current" in its line 484 and in
  `auth/project.rs:146`): a manager demoted from administrator meanwhile may give
  the rank of a manager once more, and `RankRespected`, which takes the rank at the
  commit, excepts that and nothing above it; adding and removing a
  member does not check the node or the deletion again in the transaction, and
  creating a comment only the right to write comments.
- A free join or an addition by hand leaves an old application pending; who has left
  can withdraw it later, also on a project scheduled for deletion.
- Sending a message checks the shared project outside its transaction, and the scopes
  of a key are validated before the key is locked.

**Glossary and assistance**
- Deleting a part of speech rewrites the "immutable" versions of terms
  (`ON DELETE SET NULL`, migration `0016:288`).
- The anonymous export of a public project ignores its scheduled deletion
  (`terms.rs:854`).
- A search that failed is frozen in the explanation, which is cached for seven
  days; the key of the search cache omits the base URL and the model, which a native
  search uses; the key of the model stays when the base URL changes; what was
  learnt about a transport is shared by everybody.
- `put_search_settings` leaves the role to the check before its queue, where
  `put_upload_settings` repeats it, and other processes keep their runtime copy.

## 5. Proofs

TLAPS proves, for every value of the constants that satisfies the named
assumptions:

- `JobQueueProofs` (from `JobQueue`'s assumptions on its constants: the `No...`
  values lie outside their sets, budgets are positive): `Inductive` is an
  invariant, from which type correctness, `FencedExecution`, `OnePurge`,
  `CleanupOwed` (with `DbFirst`, `PurgeComplete`, and `PurgeSpent`: a purge job
  fails only with its budget used up) and `NoOrphans` follow, then
  that outcomes are final, that a purge waits for its deadline, and the refinement of
  `JobLifecycle`. The properties are not inductive alone: that one purge is open needs to know which
  job a pending project is bound to (`BoundPurge`); that objects go after rows
  needs what a purge handler in the middle of its work already knows
  (`HandlerProgress`); that nothing acts for a deleted project needs that live
  ordinary jobs are linked to it (`OrdinaryLinked`), for it is the link
  by which the purge finds them.
- `SessionProofs`, of the rows (from `AuthConstants`): `AuthInv` (types, committed
  states, `OneActive`, `ChainSound`) is an invariant. A rotation is a
  composition of statements on intermediate tables, so the proof
  names these (`Second` to `Fifth`), shows the trigger's conditions for each and
  derives `TransactionsAccepted`; the refinement of `SessionFamily` maps a
  family to its one active session, which `OneActive` makes a function.
- `SessionProofs`, of the browser (from `AuthConstants` and `BrowserConstants`):
  `StoredNewest` and `DeniedIsOver`. `BrowserInv` adds to `AuthInv` who may know a
  session: while no answer is lost, the successor of a rotation is known to
  the tab it was granted to and nobody else until that tab stores it (`Grant`),
  and under the lock one tab refreshes a session nobody has rotated (`Alone`).
  A login and a refresh open a session that nobody knew, by the lemmas about the rows.
- `SessionProofs`, of the outbox (from `AuthConstants` and `OutboxConstants`):
  `InvalidateLasts`, for any number of workers. `OutboxInv` adds to `AuthInv` that a
  session has its invalidate from the commit that revokes it on and not before
  (`Owed`), that nobody sets the key of a session that is over unless he did when
  it ended (`Undisturbed`), and that a delete that is done and not recorded yet
  has left no key (`AtWork`). A worker that looks after the revocation deletes, so the gap
  between look and set is the only way back, which is what the exception says.
- `PrimarySourceProofs`, of the change of the primary source (from `ConstantsOK`):
  type correctness, `VectorCurrent`, `RebuildOwed` and `LexicalCurrent`. The
  invariant is types, `RebuildInv`, `HandlerInv` and `VectorsSound`. `RebuildOwed`
  alone is not inductive: that the job which succeeds is never the one a suspended
  search waits for needs to know what a handler that is done, and still has its
  lease, has written, and that the jobs of earlier changes are over, since a change
  is refused before. The trigger makes a text and the loss of its vector one write,
  which is why `VectorCurrent` survives late attempts. `LexicalCurrent` needs
  `TextsSound`: whatever the cursor of the rebuild's row is, or that of a
  handler of it, late ones included, the entries up to there have the current
  text; and whoever has nothing left to scan, or a row that succeeded, tells it of
  all entries. Late attempts do not break it, since they write under the same
  primary source: a change waits until the rebuild has succeeded.
- `PrimarySourceProofs`, of the repair (from `ConstantsOK` and `LegacyAssumption`: the
  tags are languages, and the migration gives a project its repair job):
  `RepairSound`. A repaired project starts a rebuild beside others,
  so the invariant above does not hold there; instead `Follows` states the little a
  repair has to know of a step of `PrimarySource` (rows keep their kind, a repair
  succeeds only when its handler is done, handlers of a repair are only started
  or given up), and `NextFollows` proves it of each. `RepairInv` adds to `RepairSound`
  that new entries are spelled right (`Newcomers`), that the repair the project is bound
  to is not over while it is repairing (`BoundRepair`), and, for each handler, that
  the entries before its cursor are canonical unless it has met one that is
  unresolved (`Progress`).
- `CollaborationProofs` (from the assumptions of `Collaboration`: the owner is a
  user, the limits are numbers, requests have bodies the routes accept, the first
  project is not scheduled and its door asks for no secret): type correctness and all five
  properties of the run. `Inv` adds two facts the properties do not state:
  `Credentialed`, that a request in flight carries a scope its route requires
  whatever became of the key, without which `RankRespected` says nothing of keys;
  and `Checks`, that what the check of a password has read (limits, policy, no
  membership) stays until it ends, since it holds the lock of the project. From
  the second follow the bound on attempts, although the two counters are
  incremented by separate scripts that may each fail, and that whoever enters by a password
  entered by the door as it is then. `ProjectSound` is proved as `OneOwner`,
  `DoorSound` and `OnePending`, and the audit log by an equation per event.
- `AssistanceProofs`, of the requests: `SecretsStay` and `AnswersFit`. `AnswersFit`
  speaks of the phase in which an answer is given; its invariant says for each phase
  what the request knows, and of each cache record that it answers what its key says
  (`SettingsSound`, `RequestsSound`). A record filled by another user, from other
  settings or an older version of the entry is covered by it.
- `AssistanceProofs`, of the glossary (from `TermsAssumption`: requests have the shapes
  the routes parse, a preset has a name, which `normalize_names` and a CHECK
  demand, and 0 is no token): `GlossarySound`, `HistoryTells` and `ImportExact`. An import is a
  fold over the rows of a document; `PosSteps` and `TermSteps` are the
  recursive functions of its prefixes, and `Numbers` (a set of naturals that
  holds 0 and the successor of each member holds all) carries `GlossarySound` and
  the history from each prefix to the next. `TermsInv` adds that the history of a term
  starts at 1 and ends at its version, and that a preview has the token it is kept under.
- `FileHistoryProofs` (from the assumptions of `FileHistory`): `TreeSound`,
  `StatsExact` and `VersionsStable`. What is above a folder is the least set closed
  under "parent", so no induction over paths is needed: a folder that were above
  itself, or deeper than allowed, has a smallest counterexample (`Nested`,
  `Placed`). `StatsExact` needs `Sheltered` (without a split no active row lies below
  a deleted one) and `Accounted`, the count as a cardinality; that a deleted row is
  recorded by the operation that holds it is `Owned`; `VersionsStable` needs that change
  sets are taken in the order of their times (`Slots`) and that a file that is not
  there has no text (`Blanks`).
- `UploadsProofs` (from `UploadsAssumption`): `BooksAgree`, `ReceivedKept` and
  `QueuedOwed`. Neither the object of a file nor its job follows from the
  file alone: `ObjectsKept` follows the attempt through its receiver, `JobsAgree`
  says that a job never has the number of an attempt that is still sent (so the
  old job of a retried file is never taken for its own), and `WorkersAgree` that
  what a worker has applied is recorded, so that the raw object it removes late
  is that of an attempt that is over. `CountsAgree` says what the counts of a
  failure are worth by the time it writes: a file counted as succeeded still is,
  and one counted as over is active only if it has been sent again. `Collected`, that a queued batch has no file
  left to send, is why the failure of a stream cannot leave it empty.
- `EntryEditingProofs` (from `EntryEditingAssumption`, finite sets of files and
  entries among it): all four properties of the run. `VersionNamesContent` needs that whoever
  changes a row raises its version, and
  that no draft holds a newer one (`Seen`). `Attributed` needs `Fits`: the last row
  of the history tells what the entry holds now, although tombstones and
  restorations raise the version and leave no history. `CountsExact` and `LedgerAgrees`
  are about sums that the code keeps by differences. The sums are the library's
  `SumFunction`; the lemmas about it (a sum over one more element, over a
  changed function, over a subset) are proved by a smallest counterexample among the subsets of a
  finite set (`Smallest`). `CountsInv` adds to `CountsExact` the types of its tables,
  `TaskInv` that the baseline of a task lies in its files and its progress is what counting it gives.

Layout: a lemma per action and conjunct it can disturb, a theorem that
assembles them, and a final PTL step. No RECURSIVE operator is used in any module.

Only model-checked: all liveness (temporal properties under fairness are beyond
the prover). Every invariant a run checks, and every action property, is stated by a
theorem.

## 6. Not modelled

`PROJECT.json` lists each component with the reason. Read-only parts (search
ranking, leaderboards, metadata), primitives (cryptography, OAuth), media and
start-up have no state machine of their own. Presence and the realtime
relay are hints to reload, from which nothing durable is decided; search settings live in
one writer task of each process. Of what is modelled, left out are:

- uploads: quotas and size limits (a stream that breaks them is an `Interrupt`), the
  `draft` state of a batch (no code creates one), the deletion of the project
  under a batch (it keeps a snapshot of its id and only expires), the queue of
  the front end; the replacement of entries is one success or error there, and
  what it does to entries is in `EntryEditing`, to files in `FileHistory`;
- files: more than one entry per file, and what the purge detaches (jobs, tasks, uploads);
- entries: the roll back of single entries, suggestions and the views;
- languages: the repair of the languages of users, which no other part reads;
- people: profiles and other fields without a rule of their own, paged lists;
  audit events of the other components;
- assistance: what is sent to a provider and how its answers are parsed, and the
  client in the browser.

## 7. Plan

Done: the core (`JobQueue`, `JobLifecycle`, `PrimarySource`, sessions, uploads)
and, on it, `LanguageRepair`, `FileHistory`, `EntryEditing`, `Collaboration`,
`Terms`, `Assistance`; eight modules have proofs.

Next, in this order:

1. `SearchSettings` (drain at shutdown while requests are queued) and `Presence`
   (expiry against refresh, snapshots out of order);
2. the client of a stream in the browser over `Assistance`, and the roll back of
   single entries over `EntryEditing`.
