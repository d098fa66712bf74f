# Verification of the video review service

TLA+ models, TLC configurations and machine-checked proofs for the Python
service under `src/` (paths below are relative to the repository; module paths
such as `tasks.py` mean `src/video_review/tasks.py`).

## 1. The system

A platform posts a video; the API answers at once and the review runs in
worker processes that share Redis and PostgreSQL with the API.

| part | code | state it keeps | operations |
|---|---|---|---|
| API | `main.py` | create lock, job file, row | create, batch create, cancel, result, event stream |
| job store | `store.py` | `jobs/<id>.json`, `<id>.jsonl` | create, `update_job` (read-modify-write), `add_event`, `read_events` |
| database | `db.py` | `review_jobs`, `review_events`, `review_reports` | `persist_job` (upsert), `mark_stale_processing_jobs_failed`, queries |
| queues | `queue.py` | one stream and group per stage, one delayed sorted set per stage, a dead-letter stream | `XADD`, `XREADGROUP`, `XAUTOCLAIM`, `XCLAIM` heartbeat, `XACK`, promotion script |
| worker | `worker.py` | running coroutines | take an entry, terminal check, stage, acknowledge, rescue, dead-letter, reconcile |
| stages | `tasks.py` | asset snapshot, report, callbacks | preprocess, model, single; download retry, model retry, failure, callback |
| retry plan | `workflow.py` | deadline and attempt in the request | `workflow_deadline`, `plan_stage_retry` |
| model gate | `queue.py` 589-854 | circuit hash, health window, active set, QPM cursor | record a result, acquire and release a slot, reserve a token |
| slot leases | `queue.py` 486-576, 815-844 | sorted sets of members with expiry | acquire, renew, release |
| key pool | `api_key_pool.py` | per-key state and leases | acquire, release, cool down, probe |
| provider routing | `providers.py`, `provider_adapters.py` | channel cooldowns | execute over channels, switch |
| model calls | `model_retry.py`, `analyzer.py`, `tasks.py` | retry budget | attempts per error kind, batch splitting, frame-batch cache |
| download | `downloader.py`, `tasks.py` | `.part` files, copies in the object store | download, resume, retry, source cache |
| preprocessing | `preprocessor.py` | frame files | segment plan, frames, subtitles |
| chunk upload | `main.py`, `app.js` | session directory | write a chunk, assemble, remove |
| cleanup | `cleanup.py`, `cli.py` | none | after a review, over all reviews |
| semantic service | `semantic_service.py` | job files, result files | upload, extract, poll, result |
| report | `judge.py`, `semantic.py` | none | dedupe, decide, build report |
| the rest | `oss.py`, `content_risk_compat.py`, `system_monitor.py`, `cli.py`, `dataset.py`, `prompts.py`, `policies.py` | files, metrics, texts | I/O, translation, texts |

How they interact: the API writes the job file and the row and adds an entry to
the preprocess stream (staged mode) or the single stream; a worker reads it,
runs the stage and acknowledges; the preprocess stage adds the model entry; a
failing stage adds an entry to a delayed sorted set that the worker loop
promotes; entries whose worker is gone are reclaimed after their idle time. Every
status goes to the file and then to the row. The reconciler fails rows that
were in `processing` for an hour.

### Where it is hard

* **No transaction spans Redis, the file and PostgreSQL.** Each hand-over is an
  `XADD` or `ZADD`, some updates, then an `XACK`; a crash or an error in any gap
  leaves two entries, one, or, if the order were wrong, none.
* **At-least-once delivery.** Idle time decides who owns an entry, and frame
  extraction blocks the event loop that should renew it. Two handlers then work
  on the same review and each settles it.
* **Failure inside failure handling.** `update_job` to a terminal status raises
  when PostgreSQL is down, inside the `except` branches that record a failure.
* **Timeouts racing answers.** The 30 minute deadline cuts a stage that may just
  be recording its success. Cancelling does not stop the worker.
* **Shared limits.** Circuit, slots, tokens and keys are read and written in
  separate Redis calls by many processes; leases expire under slow holders.
* **Files without locks.** Several processes truncate and write the same job file,
  readers follow a log that is being appended to, downloads resume parts of a
  source that may have changed, and a cleanup deletes by what it read earlier.

The full list, with the line where each one bites and the property that would
catch it, is `hazards` in `PROJECT.json`.

### What makes each part correct

* pipeline: no accepted review is lost; work is not multiplied; every accepted
  review is decided; nothing is dead-lettered, or called back, before its outcome
  is recorded; a terminal status is final.
* model gate: an open circuit is not extended by calls in flight, a probe runs
  alone, running calls stay within the limit, calls are spaced.
* slot leases: more reviews than the limit run only by as many as lost their slot.
* key pool: the users of a key stay within its limit, a cooldown is kept, and a
  resting key comes back.
* model stage: a completed review has every frame once; a batch never goes back to a
  family that blocked it; attempts stay within their limits and the budget; batches end.
* platform API: one review per platform task, as far as the lock lasts, and an answer of success is true.
* job store: a stream delivers the log in order and once, and its browser hears of an end that has an event for it.
* download, upload: a finished file is whole.
* cleanup: a live review keeps its files.
* evidence: no frame is hidden from the model, no finding from the verdict.

## 2. The modules

| module | models | composed by | proofs |
|---|---|---|---|
| `ReviewObligation` | what the workflow promises, abstractly | `ReviewPipeline` implements it | `ReviewPipelineProofs` |
| `ReviewPipeline` | queues, workers, stages, faults, reconciler | `MCReviewPipeline` | `ReviewPipelineProofs` |
| `ModelGate` | circuit breaker and concurrency slots | `MCModelGate` | `ModelGateProofs` |
| `ModelReview` | the model stage of a review | `MCModelReview` | `ModelReviewProofs` |
| `PlatformCreate` | idempotent creation | `MCPlatform` | `PlatformProofs` |
| `KeyPool` | API keys | `MCPlatform` | `PlatformProofs` |
| `SlotLease` | review slots, download host slots | `MCPlatform` | `PlatformProofs` |
| `QpmPacer` | the spacing of model calls | `MCPlatform` | `PlatformProofs` |
| `JobStore` | job file, event file, event stream | `MCFiles` | `JobStoreProofs` |
| `SourceDownload` | download of a source, with its retries | `MCFiles` | `SourceDownloadProofs` |
| `ChunkUpload` | upload in chunks | `MCFiles` | `FilesProofs` |
| `StorageCleanup` | deletion of videos and derived files | `MCFiles` | `FilesProofs` |
| `SemanticJobs` | a job of the semantic service | `MCFiles` | `FilesProofs` |
| `Evidence` | frames, findings, verdict of one review | `MCFiles` | `EvidenceProofs` |

The parts that share no state with each other are checked by one run each for what
lives in Redis (`MCPlatform`) and what lives in files (`MCFiles`): a variable (`part`,
`scenario`) chooses in the initial state which part moves, so the state
space is the sum of theirs and not the product. Where parts do meet, one of them
has the effect of the other as a choice: `ReviewPipeline` has a slot timeout where
`SlotLease` has the reason, a failing model stage where `ModelReview` has the calls, an entry that is
accepted where `PlatformCreate` has the creation.

No module uses `RECURSIVE`: folds over sequences are the community modules', and the one recursion that is
proved about, the filter of similar frames, is a recursive function (`LastKept` of `Evidence`).

Every invariant and every action property that a passing run checks is also a theorem, for every value of
the constants that satisfies the modules' assumptions (two theorems state one more of their own:
`DeadLettersAreFinal` and `UploadsAreWhole`). Liveness is shown by TLC alone: `EveryReviewDecided`, `QueuesDrain`,
`WaitersServed`, `BatchesSettle`, `BrowserHearsEnd`, `EveryDownloadSettles`.

What could come next: the stale-row reconciler's callbacks, the local (no Redis)
modes of the gate and the key pool, the delays of `plan_stage_retry`, and abstract
specifications for the model stage and the download.

## 3. ReviewPipeline

### State

| variable | code |
|---|---|
| `api` | how far `create_job` and `dispatch_review` are: `accepted` after the `XADD`, `local` when the API process runs the review itself, `failed` when the request raised |
| `file`, `db` | `status` in `jobs/<id>.json` and in the row of `review_jobs` |
| `stream`, `pel`, `delayed`, `dead` | entries not read, entries pending, delayed retries, dead letters; the entry's `stage` says which stream or set it is in |
| `pc`, `held`, `goal`, `past` | of each running `handle_message`: the next await, the entry, the terminal status being written, whether control left the `try` body (`except` and `finally` parts are no longer covered by it) |
| `expired` | the 30 minutes of `workflow_deadline` are over |
| `marked` | rows `mark_stale_processing_jobs_failed` returned and `reconcile_stale_reviews` has not reported |
| `decided`, `callbacks` | history variables: outcomes recorded, and reported to the callback URL |
| `crashes` | number of crashes and shutdowns, bounded by `MaxCrashes` |

A handler's path through the code is

    idle -> claimed -> start -> work -> enqueued ---------------> ack -> idle
                         |       |  \-> retry -> scheduled -> ack
                         |       \-> finish -> notify -> ack
                         \-> rescue -> scheduled | finish -> notify -> deadletter

Each step ends where the code awaits Redis, PostgreSQL or a model. `Dequeue` and
`Reclaim` are the two ways `run_worker` gets an entry; `CheckTerminal` is
`_is_terminal_job` with its early acknowledgement; `Begin` to `Notify` are the
stage functions; `Rescue` and `DeadLetter` are the `except` branch of
`handle_message`; `Promote` is the Lua script. `Interrupt` is a cancelled event loop
(`CancelledError` in the stage functions), `Crash` a killed process.

### Faults

`PgFaults` lets every database call be skipped (no pool) or fail; `update_job`
swallows the error unless the status in the file is terminal, and then it raises
to whoever called it: the `except` branches, `handle_message`, or the caller
of `run_worker`. `RedisFaults` lets every Redis call of the workflow be skipped
(`get_redis` returned None) or raise, including a `ZADD` that worked and an
`EXPIRE` that did not. `LateHeartbeats` lets `XAUTOCLAIM` take an entry that is
being handled. Each is a constant so that a property can be
checked with and without the fault.

### Abstractions

* `update_job` writes the file and the row in one step, the row optionally. A
  crash between the two writes leaves what a skipped row write leaves.
* `Quiet` stands for the reconciler's hour: it may mark a row only after the
  deadline, and only when no handler is between two database writes that the code
  makes within minutes (a model stage is bounded by `wait_for`).
* A model review, its report and its frame batches are one step (`ReviewDone`,
  `ModelError`, `StageError`); which error a model raised is a free choice.
* Event logging, progress values, phases and file cleanup are left out.
* A retry's attempt number and delay are left out; for download retries the
  attempt is kept (`dl`), because it is compared with a limit.
* `EntryId` bounds the entries that exist at a time; ids are reused when free.

### Properties

`NoReviewDropped` is the promise of the queues: an accepted review is decided,
dead-lettered, or has an entry that is not yet settled. `KeepsObligation` says the same over time, see below. An entry is *settled* while
its handler has handed the work over or recorded the outcome, so that a
property about "some entry exists" cannot be satisfied by an entry that is about
to be acknowledged. `WorkNotMultiplied` is its converse. `DeadLetterAfterFailure`,
`CallbackAfterRecord` relate an outcome to its record; `HeldStaysPending` is why a
crash is recoverable; `EveryReviewDecided` and `QueuesDrain` are liveness.

### Runs

| run | instance | shows |
|---|---|---|
| `pipeline_faults` | staged, 1 review, 1 handler, 2 entries, PostgreSQL and Redis faults, 1 crash | the type invariant, `KeepsObligation`, `DeadLetterAfterFailure`, `CallbackAfterRecord` |
| `pipeline_duplicates` | staged and single, 2 handlers, late heartbeats, 1 crash | `NoReviewDropped` when two handlers hold the same entry |
| `pipeline_liveness` | staged, 2 handlers, healthy stores, 1 download retry, 1 crash | `HeldStaysPending`, `WorkNotMultiplied`, `EveryReviewDecided`, `QueuesDrain` |

One review is enough because reviews share nothing in this model but handlers and
entry ids (the proofs hold for any set). Two entries are what one review
needs for a hand-over (old and new entry); two handlers are needed for a
duplicate. `pipeline_faults` has no download retries: with one its graph has more than three million
states, too many for a run kept beside the code (and no error). Retries beside faults are covered by
the theorems. One crash anywhere, and any number of skipped or failing calls, reach every gap between
two calls. Entry ids (and in `pipeline_duplicates`
handlers) are symmetric; the liveness run uses no symmetry. Deadlock is not
checked: a run stops when its review is decided and the queues are empty.

Fairness (`FairSpec`): a request, a handler's code, the worker loop's reads,
reclaims and promotions and the clock go on; each is what the event loop and
`run_worker`'s loop do. No fairness for faults, cancellation, crashes, download or
slot errors, or the reconciler. `EveryReviewDecided` is checked without
Redis or PostgreSQL faults: with a fault at every call nothing need be decided.

### Divergences from the documentation

* `finding_terminal`: after `Cancel` the worker goes on (`worker.py:84` checked
  before), writes `processing` and another outcome. The API's documentation calls the
  status interface authoritative for terminal states.
* `finding_single_retry`: in single mode, which is the default, download
  retries go to the preprocess set that no single worker promotes
  (`restart_all.sh` starts no other); the review is pending for ever.

### Refinement

`ReviewObligation` has one variable, `phase`, per review: `new`, `owed`, `settled`, and two
actions, `Accept` and `Settle`. The refinement mapping (`PhaseOf`) reads the phase off the
detailed state: a review is settled when an outcome was recorded or it is in the
dead-letter stream; an accepted one is owed while some entry in Redis that is not settled
carries it. An accepted review without such an entry has the phase `lost`, which the abstract
specification does not have, so `KeepsObligation` (`Obligation!Spec` under that mapping, a
property of `pipeline_faults`) fails as soon as a hand-over drops the last entry, and also when
a step takes a settlement back. That what is owed is settled at last is
`EveryReviewDecided`.

### Proofs

`ReviewPipelineProofs` proves for all values of the constants that satisfy
`PipelineAssumption`, so for any number of reviews, handlers and entries, any number of
crashes and any combination of faults:

* `TypeCorrect`: `Spec => []TypeOK`. The invariant (`Typed`) adds to the types what those of later steps
  need: a handler is idle exactly when it holds no entry, and has a goal in `finish` and `notify`.
* `CallbacksFollowRecords`: `CallbackAfterRecord`, with `Reported` (a handler in `notify`
  has recorded its goal).
* `NothingDropped`: `NoReviewDropped`, with `Reported` and `Recorded` (a terminal status in the file or the row
  was recorded as an outcome, so that `CheckTerminal` acknowledges only entries of decided reviews). Every step that settles
  an entry or takes it out of Redis leaves an outcome, a dead letter or an entry nobody holds behind
  (`AddedEntry`, `MovesKeepUnsettled`).
* `HeldIsPending`: `HeldStaysPending`, with `Apart` (stream, pending list and delayed set
  share no entry) and `OwnPending`.
* `DeadLettersAreFinal`: in staged mode, `DeadLetterAfterFailure`, with `StagedEntries`
  (no single entries) and `LastResort` (what `rescue` established before
  `deadletter`). In single mode it is false by design: `handle_message`
  dead-letters at once.
* `PipelineKeepsObligation`: `KeepsObligation`. A step touches at most one review
  (`RecordingTouchesOne`, `OtherStepTouchesOne`), an accepted review stays accepted, and with
  `NothingDropped` the phase does not depend on the queues (`PhaseIsPlain`), so that every step is an
  `Accept`, a `Settle` or a stutter of `ReviewObligation` (`StepKeepsObligation`).
* `WorkIsNotMultiplied`: `WorkNotMultiplied`. What is unsettled is not inductive to count, since the
  deadline can send a handler that is reporting its outcome back (`DeadlineCut`). `WorkBounded` counts more: the
  entries that no handler has handed over (`Unhanded`). A hand-over trades one for another
  (`HandOverStep`), only a crash or a shutdown takes one back (`StoppingStep`), and a review has
  no entry before it is accepted (`Genuine`).

Only model-checked: the two liveness properties (the provers do not handle fairness and
`ENABLED`).

## 4. ModelGate

### State and actions

| definition | code |
|---|---|
| `Call` | one use of `model_qpm_slot` and, when it ends the attempt, its `on_attempt_result`; a retry, another key or another channel is another call |
| `lease`, `Members` | the active sorted set: each member's expiry, as the time that is left |
| `circuit` | the circuit hash: `mode` and the time left until `open_until_ms` |
| `health` | the health window: each call's event, until it falls out of the window |
| `seen`, `late`, `verdict` | locals of `record_model_call_result`: the circuit it read, the time since it read the clock, the mode it computed |
| `Acquire`, `Full`, `Refuse` | one pass of the loop in `acquire_model_concurrency_slot` around the Lua script |
| `Answer`, `Abandon`, `CutWaiting`, `Crash` | the provider answers or `wait_for` cuts the call; cancellation; `wait_for` cuts a call that still waits; the process dies |
| `Read`, `Ignore`, `Add`, `Count`, `Write`, `Clear`, `Close` | `record_model_call_result`, one action per Redis call |
| `Expire` | the circuit's key expires |
| `probes`, `opened` | history: calls admitted since the circuit became half-open; the time left of the latest deadline set by a record that opened the circuit |

`record_model_call_result` is not atomic: between its read of the circuit and its
write any number of other records, admissions and clock ticks fall. It takes its
times from the clock it read first, which is why `Add` and `Write` subtract
`late`.

### Abstractions

* Times are what is left of them, so that states repeat; `Tick` lets one unit pass
  for everybody. All processes share one clock, as the code assumes.
* `RecordTime` bounds the time a record takes. `SlotTtl > CallTimeout` holds of
  the defaults (300 s and 180 s) and is what `RunningWithinLimit` rests on: the code does
  not enforce it, and the slot is not renewed. `OpenTime` and `Window` exceed `RecordTime`.
* Sleeping until an open circuit's deadline is the guard `circuit.left = 0` of the
  script's actions. `zadd` and the trimming of the window are one step.
* The circuit's key may expire at any time it is not open (the code: at least 120 s after
  the last record); more behaviours than the code has.
* A rate limit, a transient error and a timeout are one outcome, `upstream`; contract, auth and
  permanent errors are `other`. An error of the gate itself is not recorded (`Refuse`).
* Without Redis the code uses a semaphore per process and records nothing: left out,
  as is a gate that is switched off. `Arrive` is the point where a call has
  its QPM token (`QpmPacer`).

### Properties, run and bounds

`model_gate`: three calls, two slots (one while degraded), a lease of 4, a call timeout of 3, an open
period and a window of 2, records that take up to 1. One result is enough to judge the window, so that each
of three calls can open the circuit, be in flight meanwhile, or be the probe; with
two calls a stale record and a probe could not both exist beside a third. 30 % and 60 %
make a window of one error in three degraded and two in three open.
It checks `TypeOK`, `RunningWithinLimit`, `OpenNotExtended`, `ProbeRunsAlone`, and
`WaitersServed`. Fairness: time passes, a call's own next step is taken, the provider
answers or is cut. The timeouts of *waiting* calls are not assumed: that would serve
every waiter by refusing it. Deadlock is not checked, since calls end.

`ProbeRunsAlone` is about the moment a probe is admitted. It does not say that only
one call is admitted until the probe's result is known: `model_qpm_slot` gives the slot back
before `on_attempt_result` records the result, and another call may be admitted in
between.

### Proofs

`ModelGateProofs`, for any number of calls and all values that satisfy `GateAssumption`:

* `TypeCorrect`, from `Typed`;
* `LimitKept`: `RunningWithinLimit`, with `Leased` (what is left of a running call's lease
  and what the call has spent are together at least the TTL, hence it is still a member) and
  `Within` (members never exceed the limit). `RunningWithinLimit` alone is not inductive: a
  running call whose lease has expired would let another in;
* `ProbesAlone`: `ProbeRunsAlone`, from the same invariant: a half-open circuit admits only
  when there is no member, and running calls are members;
* `OpenPeriodsEnd`: `OpenNotExtended`, with `Bounded`: every record that is about to restore
  the deadline it read stays within one that an opening record has set.

`WaitersServed` is only model-checked (liveness).

## 5. ModelReview

### State and actions

| definition | code |
|---|---|
| `stage`, `run`, `carried` | where the review's model stage is, how often it began, and `metadata["model_excluded_families"]` |
| `task` | per run and frame batch, the coroutine `run_one`: what it does next, the pieces of the batch still to analyse, whether the last analysis of a piece runs, attempt, next channel, last error, results so far; `refused` is history |
| `excluded`, `used` | `excluded_families` of the run's router and `extra_attempts_used` of its budget; batches that outlive their run keep theirs |
| `cache` | keys of the frame-batch cache in Redis |
| `Begin` | `run_model_stage` up to `gather` |
| `Start` | the batch semaphore |
| `LookUp` | `get_frame_batch_cache`: a hit, a miss, or an exception |
| `Consider`, `Try`, `Exhausted` | the loop of `ProviderRouter.execute`: the check of the exclusion, the answer of `is_available` after an `await`, the end of the loop |
| `Answer`, `Refused`, `ChannelError`, `Cut` | the provider answers, its content policy blocks, another error, `wait_for` |
| `Fail`, `MayRetry` | the `except` branch of `call_model_with_retry` |
| `GiveUp`, `Split`, `Reanalyse` | the `except` branch of `_analyze_frame_batch_resilient` |
| `Escape` | the first exception reaches `run_model_stage`, which schedules a retry of the stage or fails the review |
| `Complete`, `Deadline` | `gather` returns and the results are sorted; the workflow deadline |

`asyncio.gather` does not cancel the other coroutines when one raises: batches of run 1 go on
beside run 2, with the router and budget of run 1 and the shared cache. They are the reason
why `task`, `excluded` and `used` are indexed by run.

### Abstractions

* One segment with its frames as numbers. Subtitles, further segments and the narrative use the
  same calls one after another and are left out, as are the texts of results.
* Error kinds: `contract` stands for parse and validation, `final` for auth, permanent and other
  (not retryable). `Errors` bounds the kinds channels raise in a run.
* A cooldown is `Try` skipping a channel: cooldowns are shared by all reviews of all processes
  and end by themselves, so any channel may be skipped at any time.
* A cache write always reaches `cache`, and every lookup may miss: a lost write, an expired
  key and an absent Redis are all a miss later on.
* Redis may raise where it is used: reading the cache, writing it, recording a call's result. Its
  errors are retryable or not, by their text (`RedisErrors`). Errors of the
  event log and of the retry queue belong to `ReviewPipeline`.
* `MaxRuns` is the number of runs that fit before the deadline: a retryable error of
  the last run fails the review, as `plan_stage_retry` does when no time is left.

### Properties, runs and bounds

`review_stage_runs`: three frames in batches of two (so one batch can be split, the other cannot), two
families, two attempts, a budget of one, two runs, one batch at a time. Two runs are
what makes left-over batches, cached pieces and carried exclusions possible; a third
would repeat the second. `CompletedIsWhole` says that the report has every frame once, in order. Splits,
cached pieces of either run and repeated analyses must all fit together.
`BlockedNotAskedAgain` is about a batch that was refused: retries, its halves and its last
analysis do not go to that family in that run. `TypeOK` holds attempts within the limits of
their kinds, and the extra attempts of all batches together within the budget.

`review_stage_ends`: one run, four frames, two batches at a time that can both be split, with rate limits beside
transient errors. Here another batch may exclude a family between `Consider` and `Try`.
`BatchesSettle`: every batch comes to an end by itself, although attempts, channels,
splits and last analyses are nested. The fairness is weak: as long as some batch can go on, one
of them does; a provider answers, fails, or `wait_for` cuts it. The deadline is not assumed to come.
With two runs the same property holds as well; its state graph only takes longer than a run should.

`finding_exclusion`: the design document says that the excluded families are copied into the request, so that
the retried stage does not call Gemini again. `run_model_stage` takes them from the exception,
and only `ModelProviderExhaustedError` has them. If Gemini blocks, and the run then ends with a timeout
of `wait_for` around the fallback channel or with a Redis error of the cache, the retry
starts without the exclusion.

### Proofs

`ModelReviewProofs`, for all constants that satisfy `ReviewAssumption`. The invariant `IInv` has
one condition per row of `task` (`RowOK`) and the types of the rest (`Shared`); every way to make a new row
has a lemma that the row is fine again (`FinishedOK`, `SplitOK`, `ReanalyseOK`, `MoveOK`), and
each action a lemma that it makes such rows.

* `TypeCorrect`: `TypeOK`, with the attempts (`Allowed`) and the budget;
* `Whole`: `CompletedIsWhole`. That alone says nothing about a running batch; `Tiled` does: the
  results so far are the first frames of the batch, the next piece starts behind them, each
  piece where the one before ends, and the last ends with the batch;
* `NotAskedAgain`: `BlockedNotAskedAgain`, since the families that refused a batch are excluded in its
  run, exclusions only grow, and a batch between the check and the call (`checking`)
  has found its channel's family not among those that refused *it*. Another batch may have
  excluded the family meanwhile: the stronger statement about the whole run would be false.

`BatchesSettle` is only model-checked (liveness).

## 6. What processes share in Redis

`MCPlatform` has the four modules below in one run, `platform_api`.

### PlatformCreate

| definition | code |
|---|---|
| `at`, `answer`, `how` | where each HTTP request of one platform task is, what it was answered, the kind of its lock |
| `redisLock`, `fileLock` | the `SET NX EX` key and the `O_EXCL` file of `acquire_platform_create_lock` |
| `made`, `started`, `session` | the requests that ran `create_job`; whose review was enqueued or run; the upload session's directory |
| `LookUpJob`, `Wait`, `CheckJob` | the first look at the job file, `wait_for_existing_platform_job`, the second look under the lock |
| `VerifyUpload`, `RemoveSession` | `api_v1_complete_oss_upload`: the object's head, an await between the look and `create_job`; the directory's removal |
| `Persist`, `Dispatch` | `persist_created_job`, `dispatch_review`; a failure is a 500 |
| `ReleaseLock`, `LockExpires`, `Restart` | the `finally` clause, the TTL, the death of the API process with all its requests |

* `CreatedOnce`: a second creation needs an upload that is being checked and either a Redis failure for
  one of two requests, so that each holds a lock of its own kind, or a key that ran out before its
  holder was through (`lapsed`). The check awaits the object's head in a thread that no timeout below
  the key's 30 s bounds, and the plain `DELETE` of the late request removes the key of the next. A URL
  request never creates again: there is no await between its second look and `create_job`.
* `AnsweredIsServed`: whoever is told of success has a review that is queued or
  runs, or a creator that is dispatching it, or one whose dispatch failed or died.
* `LockFileOwned`: the file without a TTL belongs to a request that will remove it or has died.
* `RepeatIsServed` is what the API's documentation promises of the last case, and
  `finding_repeat` shows its violation: the repeat of a request whose dispatch failed finds the job
  file, is answered as an idempotent success, and nobody works on the review.

`LockExpires` lets the key run out whenever its holder is not between its second look and what follows
that without an await; nothing in the code keeps a check shorter than the TTL.

Bounds: three requests (one that fails or dies, one that waits, one that comes later), one crash. Requests
are alike but for their flow, so `MCPlatform` orders the initial flows, which leaves one of each
symmetric set of initial states.

### KeyPool

| definition | code |
|---|---|
| `call` | a use of a key: from `acquire` to the end of `release`, with the time `wait_for` leaves it |
| `keyState` | the key's hash: mode, time until `cooldown_until_ms`, probe mark, failures in a row |
| `leaseLeft` | the key's sorted set of leases, by the time left |
| `cooled` | history: the calls that had the key when it last began to rest |
| `AcquireKey`, `NoKeyInTime` | the acquire script (`Best` is its order), and its wait that ends |
| `ReleaseKey`, `ReportKey` | the release and the report script, two calls |
| `CancelCall` | `wait_for`, shutdown or crash: `CancelledError` passes `except Exception` and neither script runs |

* `KeyLimitKept`: the *users* of a key, not its leases, stay within the limit, although
  cancelled calls leave leases behind and leases expire.
* `RestingKeyReturns`: no resting key has a probe mark, which `acquire` would pass over for ever.
* `CooldownKept`: a rest ends early only by the success of a call that had the key before.

Bounds: three calls, two keys of one lease each, a lease of 3, calls of 2, rests of 1 and 2, two
failures to a cooldown. Three calls make a holder, a late reporter and a newcomer; two
keys make the order of choice matter. `LeaseTtl > CallTime` holds of the defaults.

### SlotLease

A member of a sorted set per review (host, process and review, hence shared by two handlers of one
process) or per download, with the time it expires. `AcquireSlot`, `SlotTimeout`, `RenewSlot`,
`ReleaseSlot` are the functions of the same names; `MissRenewal` a turn without a Redis client, or the
end of the renewal task by an error; `LoseSlot` a process that dies, a `ZREM` that fails, or the
renewal task's error raised again in the `finally` clause before it; in `SlotTick` a renewal that is due
waits because its event loop is blocked. `unslotted` is history: members whose slot went away while
somebody worked under it.

`SlotsKept`: at most as many members above the limit are worked on as lost their slot, and each
loss has a reason: a renewal of that very member that did not come (`missed` records the handlers), a
download (never renewed) that outlasts its TTL, or another handler of the same process that gave the shared
member back. A review that is renewed in time and shares its member with nobody keeps its slot, whatever the others do. Bounds: three reviews of which two share a member, three downloads, one
slot, a TTL of 2 renewed every 1; renewals may be missed any number of times.

### QpmPacer

`Reserve` is the script that moves the cursor and what its caller makes of the time it got:
granted, a sleep, or an error when it is too far off, after the cursor was moved.
`CancelSleep` is `wait_for`. `TokensSpaced`: tokens granted or awaited are an interval apart, with
reservations lost in between and a cursor whose key expires. Bounds: four calls, an interval of 2, a
wait of up to 3 (so one of them is refused), a TTL of 5, the smallest the assumption allows.

### Proofs

All in `PlatformProofs`, one section per module.

* Creation: `CreateTypeCorrect`, `LockFileIsOwned`, `JobsAreCreatedOnce`,
  `AnswersAreServed`. The invariants say who may be where with which lock (`Places`, `FileGuard`,
  `KeyGuard`): unless a key has lapsed, two requests under the same kind of lock are never both between
  their second look and `create_job`; and that whoever has made a job is on its way to start it (`MadeServed`).
* Key pool: `PoolTypeCorrect`, `KeyLimitIsKept`, `RestingKeysReturn`, `CooldownsAreKept`. `KeyLimitKept` is not
  inductive: a user whose lease has expired would let another in. `CallsLeased` says that what is left of a
  user's lease exceeds what is left of its call, `LeasesBounded` that leases stay within the
  limit, `RestersKnown` that every call with a resting key is in `cooled`.
* Slots: `SlotTypeCorrect`, `SlotsAreKept`, with `WorkersHold` (a member worked on is in the set or in
  `unslotted`), `RenewalAhead` (the next renewal comes before the expiry, unless one was missed),
  `LossExplained` and `SoundSlots` (the members in the set that no worker lost fit the limit).
* Pacing: `QpmTypeCorrect`, `TokensAreSpaced`, with `CursorLeads`: the cursor is an interval ahead of every
  reservation that is not over, and its key outlives them, which is where `QpmTtl >= QpmWait + Interval` is used.
* `PlatformHasParts`: a behaviour of `PlatformSpec` is one of each part's specification, since the part that is
  not chosen stutters. So every theorem above holds of the composition that the run checks;
  `PlatformTypeCorrect` is its type invariant.

## 7. What processes keep in files

`MCFiles` has the six modules below in one run, `files`. Its fairness: `JobFairness` (a writer that has
begun and the stream with its browser go on) and `DownloadFairness` (the server answers, or a timeout
ends the attempt); none for cancellations, deaths, crashes, changes of a source or cleanups.

### JobStore

The status in `jobs/<id>.json` and the log `<id>.jsonl`, written by workers, cancelling requests and passes of the
reconciler (`MarkStale`; `live` is what the row says), read by `stream_review`, whose browser
(`connectStream` in `app.js`) reconnects. A worker ends in any status the stages write, also `source_unavailable`, or
puts the review off (`pending`, a download retry). `update_job` is three steps: read, open (which empties the file), write; an
event is appended in one step, except a `complete` event, whose line holds the report and takes
two. `over` and `mixed` say when two writers have had the file open at once. The stream is `Deliver` (read and
send new lines) and `CheckStatus` (read the status, and end); `EndResponse` makes the browser connect
again from the start.

* `SentIsPrefix`: what a connection delivers is the log from its start, once and whole.
* `CompleteIsBacked`: who is told `complete` finds the report saved and the status written.
* `TornWhileWritten`: the job file is unreadable only while it is written, or after a death or an overlap.
* `BrowserHearsEnd` (liveness): although the stream may end between the two reads and miss the last
  events, once the log has a `complete` or `error` event a connection delivers it, unless the browser was refused.
  Not every end has one: `source_unavailable` is an event the page has no listener for, and the reconciler appends
  only `status` events (`Piece`). There the stream ends, the browser connects again and reads the whole log, for ever.

Bounds: two workers (a duplicate delivery), a cancellation and a pass of the reconciler, of which two
come, one death.

### SourceDownload

Files as sequences of chunks, each by the version of the source it came from, since nothing ties a
`Range` request to the version of the part. `fetch` is a handler in `download_video`, `entries` the requests
with the retry number and the part to resume. `Restarted`, `Resumed` are a 200 and a fitting 206, `RequestFails`,
`Interrupted` the errors that are retried, `Unhandled` those that are not, `GiveUp` is
`_handle_source_download_error`, `UploadCache` the background upload of the copy that later reviews of the URL get.

* `FileIsWhole`: a finished file, and the copy, is one version and whole, unless two handlers shared
  the part, it was resumed after the source changed, or a body without a length ended early.
* `PartialsOwned`: a partial file belongs to a handler at work or to a retry, or something ended
  without its clean-up.
* `EveryDownloadSettles` (liveness): attempts and retries come to an end. It assumes that a due retry is taken, which
  workers of the preprocess stage do; in single mode nobody does, see `finding_single_retry`.

Bounds: two handlers, two directories, two chunks, two versions, two attempts, one retry, one crash
or second delivery.

### ChunkUpload

The browser's requests per chunk (`SendChunk`, repeated after a failure), the API's `OpenChunk`, which empties the
file again, and `WriteChunk`; `AskComplete`, `Assemble` and `CreateUploaded` are the completion; `CleanSession` is the
cleanup of sessions that look abandoned. `AssembledWhole`: a review is created from the whole file, unless a
request that the browser had given up opened a chunk last. A creation that fails after the job was made leaves the
session where it is (`stuck`). Bounds: two chunks, two requests each.

### StorageCleanup

`OwnCleanup` and `LoadJobs` put what they would delete into `doomed`, `Delete` deletes it later, whatever happened
since. Ages are off by `ZoneShift` because a local time is read as UTC. `LiveFilesKept`: a review that was never
over finds its video and derived files, unless a review that was over has the same local video, and files outside the raw directory
stay. So a review that was over and is set live again by a late handler may lose its files, and so may one
that shares its video: the code does not prevent either. Bounds: two reviews, one source of each kind, TTLs of 1.

### SemanticJobs

Upload, task, result files by the stem of a file name, and the polling page. `ResultExplained`: what the page shows for
a video was extracted from it, unless another file of the upload has the same stem, and it lacks a video only if one had
failed: `update_progress` calls a job completed while videos are pending once one has failed. A video may fail
before its result file is written, or after that with or without `output_path` set. Bounds: three
videos, three names, two of one stem; one restart.

### Evidence

A video of a few ticks with a look per frame, its segment plan, the frames of each segment, the filter, the sheet; then
findings, deduplication, score, decision and the labels of the compatible API. The two halves are one after the other
with nothing kept between them, because the model's answer is free.

* `EveryFrameSeen`: every frame up to the last whole second of the range was sent, or one like it of the same
  segment and less than the gap before it. It rests on `BatchSize <= SheetCells`, which no code enforces (defaults 16 and 4 x 4).
  Frames after the last whole second are not looked at: `make_segment_plan` cuts the duration to an integer.
* `VerdictAgrees`: the final label blocks exactly if a finding's label does, and passes exactly if there is none; and
  each finding of high or critical severity blocks, unless an earlier one has the same key: the key of
  `_dedupe_findings` leaves the severity out, so a critical finding behind a milder one that says the same is dropped.

Bounds: five ticks at one or two per second, segments of 2 s, three looks, three findings.

### Proofs

* `JobStoreProofs`: `JobTypeCorrect`, `TornFilesAreExplained`, `SentIsAPrefix`, `CompletionIsBacked`, for any writers and
  any number of deaths. `Aimed` (a writer in the middle of an update aims at a status it may write) makes the types inductive.
  `SentIsPrefix` needs `Followed`: the stream's offset is what it has sent. A reader may find the first
  piece of a line: `PrefixOfGrown` says that what was sent stays a prefix when the log grows, `ParsesConcat` that
  what parses still does when more that parses follows. `CompleteIsBacked` needs `Reported` (who aims at `completed` has saved
  the report) and `LinesBacked`: behind the pieces of a `complete` event is a worker that had come to it.
* `SourceDownloadProofs`: `DownloadTypeCorrect`, `PartialsAreOwned`, `FilesAreWhole`, for any handlers, directories, sizes,
  versions and retries. `Placed` and `Owned` follow each partial file from the handler that writes it to the retry that
  resumes it. `FileIsWhole` is about a finished file; `StreamSound` is what makes it inductive: while a handler
  streams into a directory to which none of the three exceptions has happened, it is alone there, the part is as long as
  what it has got, and all of it is of the version that the response comes from.
* `FilesProofs`, uploads: `UploadTypeCorrect`, `UploadsAreWhole`. A completion is asked for when every chunk's last request was
  answered (`RequestsSound`), an answered chunk is written unless a request that was given up reopened it (`StoredWritten`), and
  what is put together so far is whole (`PartsWhole`). `UploadsAreWhole` assumes `AssembleFirst >= Chunks`: the browser sends the number
  of its chunks (`app.js:583-593`), which is what `Files.cfg` has; a client of its own that asks for fewer gets fewer.
* `FilesProofs`, semantic jobs: `SemanticTypeCorrect`, `ResultsAreExplained`, with what is saved under a name (`SavedSound`), what a
  result file may hold (`OutputSound`), and that a job is completed only when all its videos are or one has failed, which the page remembers (`ProgressSound`).
* `FilesProofs`, cleanup: `CleanupTypeCorrect`, `LiveFilesAreKept`, for any reviews, TTLs, watermarks and shift. The property alone
  is not inductive, because of what is doomed but not yet deleted: `DoomedIsSpent` says that it belongs to reviews that were over.
* `EvidenceProofs`: `EvidenceTypeCorrect`, `EveryFrameIsSeen`, `VerdictsAgree`, for videos, segments, gaps and findings of any
  size and any policy. `LastKeptIs` shows that the recursive function of the filter is what it should be; the provers have no
  induction over data, so this and `LastKeptSound` (a frame that is dropped is like the last one kept and
  closer to it than the gap) argue from a least counterexample (`LeastOne`).
  `SegmentsCover` says that the segments cover the range up to its last whole second, by the arithmetic of the
  quotient that counts them; `AllOnSheet` is where `BatchSize <= SheetCells` is used. `RiskIsScored` says that a finding of high severity alone
  reaches the threshold of 75, whatever policy and repetitions add; `DecisionAgrees` is the case analysis of the decision, and
  `ReportSound` keeps what it says until the labels of the compatible API are served.
* `FilesHaveParts`: a behaviour of `FilesSpec` is one of each of the six specifications; `FilesTypeCorrect` and
  `FilesAreSafe` state their invariants of the composition.

Only model-checked in this section: `BrowserHearsEnd` and `EveryDownloadSettles`, which are liveness under fairness.

## 8. Mutants

Every property of a passing run has a mutant: a definition of the model with a plausible bug (named
`...Mutation of ...` in its comment: an unchecked retry, a limit compared too late, a file appended instead of
emptied) under which TLC finds the property violated in the same configuration.

## 9. Divergences from the documentation

| run | what TLC shows |
|---|---|
| `finding_terminal` | a cancelled review is set to processing again and runs to another outcome |
| `finding_single_retry` | a download retry of single mode is promoted by nobody |
| `finding_exclusion` | an excluded family is called again after a retry |
| `finding_repeat` | the retry of a failed creation is answered as success and starts nothing |

The lines and quotations are in `findings` of `PROJECT.json`. The models have more behaviours that differ from
what the documentation says, and which the properties name as exceptions instead of excluding them:

| module | behaviour | text |
|---|---|---|
| `ReviewPipeline` | a review is called back twice, with two outcomes: `wait_for` (`tasks.py:1282`) cuts a stage that has just recorded and reported its completion, or the reconciler (`tasks.py:173-184`) reports a review that a handler still works on. `CallbackAfterRecord` says only that both calls have a record behind them | `docs/video-review-api.md:640`: one POST |
| `PlatformCreate` | a review is enqueued twice, without any fault: the lock's 30 s end while an upload is checked (`lapsed` in `CreatedOnce`) | `docs/video-review-api.md:149`: a repeat is not enqueued again |
| `JobStore` | the `error` event that the reconciler stores (`db.py:764`) is not in the stream, and the page goes on reconnecting; the same after `source_unavailable` (the premise of `BrowserHearsEnd`) | `README.md:81`: `review_events` holds the events of the stream |
| `Evidence` | a critical finding that repeats an earlier, milder one is dropped (`judge.py:28`), and the video is not rejected (the last conjunct of `VerdictAgrees`) | `prompts.py:218`: critical is rejected by default |
| `StorageCleanup` | files of a review in progress are deleted, if it was over when the command loaded it, or shares its video with one that is over (`LiveFilesKept`) | `tests/test_storage_cleanup.py:61`: processing reviews keep their files |

## 10. Not modelled

Authentication, STS credentials and the OSS client, prompts and policies, SQL for history and statistics, the
system monitor, the data set import and the command line: I/O, texts or read-only queries without an effect
on the workflow. Of modelled parts: subtitles, narrative and further segments of the model
stage; the modes of the gate, the slots and the key pool without Redis, which are
counters of one process; the delays of retries; fields of the job file other than the status; the layout of
reports and results. `PROJECT.json` says for each component what is left out.
