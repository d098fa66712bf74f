--------------------------- MODULE ReviewPipeline ---------------------------
(***************************************************************************)
(* The staged review workflow: the API dispatches a job to a Redis stream, *)
(* worker coroutines (handle_message in worker.py) run the preprocess and  *)
(* model stages of tasks.py, and a delayed-retry sorted set, XAUTOCLAIM    *)
(* and the stale-job reconciler recover what went wrong.                   *)
(*                                                                         *)
(* A job is recorded twice: in jobs/<id>.json (file) and in the PostgreSQL *)
(* row (db), which every update_job copies from the file and may fail to   *)
(* reach.  A handler is one running handle_message; its pc names the next  *)
(* await of the code, so a crash, a cancellation or another handler can    *)
(* come between any two of them.                                           *)
(***************************************************************************)
EXTENDS Naturals, FiniteSets

CONSTANTS Review,          \* review ids
          Handler,         \* concurrently running handle_message coroutines
          EntryId,         \* Redis stream / sorted-set entry identities
          LocalId,         \* identity of an in-process (queue-less) run
          NoEntry,         \* an idle handler holds this
          Modes,           \* VIDEO_REVIEW_PIPELINE_MODE of the API processes
          WorkerStages,    \* the --stage values workers are deployed with
          DownloadRetries, \* VIDEO_REVIEW_DOWNLOAD_TASK_RETRY_ATTEMPTS
          PgFaults,        \* may a PostgreSQL call fail or be skipped?
          RedisFaults,     \* may a Redis call fail or be skipped?
          LateHeartbeats,  \* may XAUTOCLAIM take an entry still being handled?
          MaxCrashes       \* bound: crashes and worker shutdowns in a behaviour

Stage    == {"preprocess", "model", "single"}
Live     == {"pending", "processing"}
Terminal == {"completed", "failed", "cancelled", "source_unavailable"}
Status   == Live \cup Terminal
Entry    == [id     : EntryId \cup {LocalId},
             review : Review,
             stage  : Stage,
             dl     : 0..DownloadRetries]

ASSUME PipelineAssumption ==
  /\ Modes \subseteq {"staged", "single"}
  /\ WorkerStages \subseteq Stage
  /\ DownloadRetries \in Nat
  /\ MaxCrashes \in Nat
  /\ {PgFaults, RedisFaults, LateHeartbeats} \subseteq BOOLEAN
  /\ LocalId \notin EntryId
  /\ NoEntry \notin Entry

VARIABLES
  api,       \* progress of the create request, per review
  file,      \* status in jobs/<review>.json
  db,        \* status in the review_jobs row
  stream,    \* entries of the stage streams nobody has read
  pel,       \* entries read by a consumer and not acknowledged
  delayed,   \* entries of the delayed-retry sorted sets
  dead,      \* reviews in the dead-letter stream
  pc,        \* what each handler does next
  held,      \* the entry each handler works on
  goal,      \* the terminal status a handler is writing
  past,      \* is the handler past handle_message's try body?
  expired,   \* has the 30 minute workflow deadline passed?
  marked,    \* reviews the reconciler has marked and not yet reported
  decided,   \* history: terminal statuses ever recorded
  callbacks, \* history: terminal statuses the platform was called back with
  crashes    \* crashes and shutdowns so far

jobVars     == <<file, db, decided>>
queueVars   == <<stream, pel, delayed, dead>>
handlerVars == <<pc, held, goal, past>>
envVars     == <<api, expired, marked, crashes>>
vars        == <<jobVars, queueVars, handlerVars, envVars, callbacks>>

Init ==
  /\ api = [r \in Review |-> "new"]
  /\ file = [r \in Review |-> "none"]
  /\ db = [r \in Review |-> "none"]
  /\ stream = {} /\ pel = {} /\ delayed = {} /\ dead = {}
  /\ pc = [w \in Handler |-> "idle"]
  /\ held = [w \in Handler |-> NoEntry]
  /\ goal = [w \in Handler |-> "none"]
  /\ past = [w \in Handler |-> FALSE]
  /\ expired = [r \in Review |-> FALSE]
  /\ marked = {}
  /\ decided = [r \in Review |-> {}]
  /\ callbacks = [r \in Review |-> {}]
  /\ crashes = 0

-----------------------------------------------------------------------------
(* Helpers *)

Queue   == stream \cup pel \cup delayed
Busy    == {w \in Handler : held[w] # NoEntry}
UsedIds == {e.id : e \in Queue} \cup {held[w].id : w \in Busy}
FreshId == EntryId \ UsedIds

ReviewOf(w) == held[w].review
StageOf(w)  == held[w].stage
IsLocal(w)  == held[w].id = LocalId
At(w, l)    == w \in Busy /\ pc[w] = l

Goto(w, l) ==
  /\ pc' = [pc EXCEPT ![w] = l]
  /\ UNCHANGED <<held, goal, past>>

Release(w) ==
  /\ pc' = [pc EXCEPT ![w] = "idle"]
  /\ held' = [held EXCEPT ![w] = NoEntry]
  /\ goal' = [goal EXCEPT ![w] = "none"]
  /\ past' = [past EXCEPT ![w] = FALSE]

\* The handler starts writing terminal status t (update_job in an except branch).
Conclude(w, t) ==
  /\ pc' = [pc EXCEPT ![w] = "finish"]
  /\ goal' = [goal EXCEPT ![w] = t]
  /\ UNCHANGED <<held, past>>

\* An exception leaves the stage function and reaches handle_message.
Escape(w) ==
  \/ IsLocal(w) /\ Release(w)
  \/ ~IsLocal(w) /\ StageOf(w) = "single" /\ Goto(w, "deadletter")
  \/ ~IsLocal(w) /\ StageOf(w) # "single" /\ Goto(w, "rescue")

\* update_job with a non-terminal status s: the database error is swallowed.
WriteLive(r, s) ==
  /\ file' = [file EXCEPT ![r] = s]
  /\ \/ db' = [db EXCEPT ![r] = s]
     \/ PgFaults /\ UNCHANGED db
  /\ UNCHANGED decided

\* update_job that leaves the status alone copies the file's status to the row.
\* (A database error is swallowed unless the file's status is terminal; where
\* it then matters, the caller has a disjunct for the exception.)
CopyToDb(r) ==
  /\ \/ db' = [db EXCEPT ![r] = file[r]]
     \/ PgFaults /\ UNCHANGED db
  /\ UNCHANGED <<file, decided>>

Record(r, t) ==
  /\ file' = [file EXCEPT ![r] = t]
  /\ decided' = [decided EXCEPT ![r] = @ \cup {t}]

\* ZADD of a retry of stage s; the sorted set then holds a new entry.
Delay(w, s, d) ==
  \E i \in FreshId :
    delayed' = delayed \cup {[id |-> i, review |-> ReviewOf(w), stage |-> s, dl |-> d]}

-----------------------------------------------------------------------------
(* API: create_job, dispatch_review, cancel *)

Create(r) ==
  /\ api[r] = "new"
  /\ api' = [api EXCEPT ![r] = "created"]
  /\ file' = [file EXCEPT ![r] = "pending"]
  /\ UNCHANGED <<db, decided, queueVars, handlerVars, expired, marked, crashes, callbacks>>

\* persist_created_job: the in-memory job is pending whatever the file now says.
PersistCreated(r) ==
  /\ api[r] = "created"
  /\ \/ /\ api' = [api EXCEPT ![r] = "persisted"]
        /\ db' = [db EXCEPT ![r] = "pending"]
     \/ /\ PgFaults
        /\ api' = [api EXCEPT ![r] = "failed"]
        /\ UNCHANGED db
  /\ UNCHANGED <<file, decided, queueVars, handlerVars, expired, marked, crashes, callbacks>>

Enqueue(r) ==
  /\ api[r] = "persisted"
  /\ \/ /\ api' = [api EXCEPT ![r] = "accepted"]
        /\ \E i \in FreshId, m \in Modes :
             stream' = stream \cup
               {[id |-> i, review |-> r, dl |-> 0,
                 stage |-> IF m = "staged" THEN "preprocess" ELSE "single"]}
     \/ /\ RedisFaults
        /\ api' = [api EXCEPT ![r] = "failed"]
        /\ UNCHANGED stream
  /\ UNCHANGED <<jobVars, pel, delayed, dead, handlerVars, expired, marked, crashes, callbacks>>

\* Redis is unavailable: the API process runs run_review as a background task.
RunInProcess(r, w) ==
  /\ api[r] = "persisted"
  /\ RedisFaults
  /\ pc[w] = "idle"
  /\ api' = [api EXCEPT ![r] = "local"]
  /\ pc' = [pc EXCEPT ![w] = "start"]
  /\ held' = [held EXCEPT ![w] = [id |-> LocalId, review |-> r, stage |-> "single", dl |-> 0]]
  /\ UNCHANGED <<goal, past, jobVars, queueVars, expired, marked, crashes, callbacks>>

Cancel(r) ==
  /\ file[r] \in Live
  /\ Record(r, "cancelled")
  /\ \/ db' = [db EXCEPT ![r] = "cancelled"]
     \/ PgFaults /\ UNCHANGED db
  /\ UNCHANGED <<queueVars, handlerVars, envVars, callbacks>>

-----------------------------------------------------------------------------
(* Worker: taking an entry *)

Take(w, e) ==
  /\ pc[w] = "idle"
  /\ e.stage \in WorkerStages
  /\ pc' = [pc EXCEPT ![w] = "claimed"]
  /\ held' = [held EXCEPT ![w] = e]
  /\ UNCHANGED <<goal, past, jobVars, delayed, dead, envVars, callbacks>>

\* Mutation of Dequeue: XREADGROUP NOACK, so that nothing is pending.
DequeueNoAck(w) ==
  \E e \in stream :
    /\ Take(w, e)
    /\ stream' = stream \ {e}
    /\ UNCHANGED pel

Dequeue(w) ==
  \E e \in stream :
    /\ Take(w, e)
    /\ stream' = stream \ {e}
    /\ pel' = pel \cup {e}

\* Mutation of Reclaim: XAUTOCLAIM without a minimal idle time.
ReclaimEager(w) ==
  \E e \in pel : Take(w, e) /\ UNCHANGED <<stream, pel>>

\* XAUTOCLAIM: the entry has been idle, because its handler is gone or because
\* the handler's heartbeat did not run.
Reclaim(w) ==
  \E e \in pel :
    /\ LateHeartbeats \/ \A v \in Handler : held[v] # e
    /\ Take(w, e)
    /\ UNCHANGED <<stream, pel>>

\* Mutation of CheckTerminal: the leftover entry is skipped, not acknowledged.
CheckTerminalNoAck(w) ==
  /\ At(w, "claimed")
  /\ \/ db[ReviewOf(w)] \in Terminal /\ Release(w)
     \/ (db[ReviewOf(w)] \notin Terminal \/ PgFaults) /\ Goto(w, "start")
  /\ UNCHANGED <<jobVars, queueVars, envVars, callbacks>>

\* _is_terminal_job: a terminal row means a leftover entry; its XACK is outside
\* the try.  A failing read counts as not terminal.
CheckTerminal(w) ==
  /\ At(w, "claimed")
  /\ \/ /\ db[ReviewOf(w)] \in Terminal
        /\ pc' = [pc EXCEPT ![w] = "ack"]
        /\ past' = [past EXCEPT ![w] = TRUE]
     \/ /\ db[ReviewOf(w)] \notin Terminal \/ PgFaults
        /\ pc' = [pc EXCEPT ![w] = "start"]
        /\ UNCHANGED past
  /\ UNCHANGED <<held, goal, jobVars, queueVars, envVars, callbacks>>

Begin(w) ==
  /\ At(w, "start")
  /\ WriteLive(ReviewOf(w), "processing")
  /\ Goto(w, "work")
  /\ UNCHANGED <<queueVars, envVars, callbacks>>

\* global_review_slot times out before the stage function runs.
SlotTimeout(w) ==
  /\ At(w, "start")
  /\ StageOf(w) # "preprocess" /\ ~IsLocal(w)
  /\ Escape(w)
  /\ UNCHANGED <<jobVars, queueVars, envVars, callbacks>>

-----------------------------------------------------------------------------
(* Worker: the stage functions *)

\* A phase or progress update while the stage runs.
Progress(w) ==
  /\ At(w, "work") \/ At(w, "inline")
  /\ CopyToDb(ReviewOf(w))
  /\ UNCHANGED <<handlerVars, queueVars, envVars, callbacks>>

\* run_preprocess_stage hands over to the model stream, or, without Redis,
\* goes on with _run_model_review in this process.
PreprocessDone(w) ==
  /\ At(w, "work") /\ StageOf(w) = "preprocess"
  /\ \/ /\ \E i \in FreshId :
             stream' = stream \cup
               {[id |-> i, review |-> ReviewOf(w), stage |-> "model", dl |-> held[w].dl]}
        /\ Goto(w, "enqueued")
     \/ /\ RedisFaults
        /\ Goto(w, "inline")
        /\ UNCHANGED stream
  /\ UNCHANGED <<jobVars, pel, delayed, dead, envVars, callbacks>>

\* The model entry is in its stream already when this update raises.
MarkQueued(w) ==
  /\ At(w, "enqueued")
  /\ \/ /\ CopyToDb(ReviewOf(w))
        /\ Goto(w, "ack")
     \/ /\ PgFaults /\ file[ReviewOf(w)] \in Terminal
        /\ Conclude(w, "failed")
        /\ UNCHANGED jobVars
  /\ UNCHANGED <<queueVars, envVars, callbacks>>

\* Mutation of SourceError: attempts are not compared with their limit.
SourceErrorUnbounded(w) ==
  /\ At(w, "work") /\ StageOf(w) # "model"
  /\ Delay(w, "preprocess", held[w].dl + 1)
  /\ Goto(w, "scheduled")
  /\ UNCHANGED <<jobVars, stream, pel, dead, envVars, callbacks>>

\* _handle_source_download_error.  When the retry cannot be scheduled the
\* review ends as source_unavailable, as it does without attempts left.
SourceError(w) ==
  /\ At(w, "work") /\ StageOf(w) # "model"
  /\ \/ /\ held[w].dl < DownloadRetries
        /\ Delay(w, "preprocess", held[w].dl + 1)
        /\ Goto(w, "scheduled") \/ (RedisFaults /\ Escape(w))
     \/ /\ held[w].dl < DownloadRetries
        /\ RedisFaults \/ (PgFaults /\ file[ReviewOf(w)] \in Terminal)
        /\ Escape(w)
        /\ UNCHANGED delayed
     \/ /\ Conclude(w, "source_unavailable")
        /\ UNCHANGED delayed
  /\ UNCHANGED <<jobVars, stream, pel, dead, envVars, callbacks>>

\* Any other exception of the preprocess or single stage, and one the model
\* stage does not classify as retryable.
StageError(w) ==
  /\ At(w, "work") \/ At(w, "inline")
  /\ Conclude(w, "failed")
  /\ UNCHANGED <<jobVars, queueVars, envVars, callbacks>>

\* _run_model_review produced its results and saved the report; the staged
\* flows check the workflow deadline once more, run_review does not.
ReviewDone(w) ==
  /\ \/ At(w, "inline")
     \/ At(w, "work") /\ StageOf(w) # "preprocess"
  /\ StageOf(w) # "single" => ~expired[ReviewOf(w)]
  /\ Conclude(w, "completed")
  /\ UNCHANGED <<jobVars, queueVars, envVars, callbacks>>

\* A retryable model error (rate limit, timeout, circuit, parse, ...).
ModelError(w) ==
  /\ At(w, "work") /\ StageOf(w) = "model"
  /\ Goto(w, "retry")
  /\ UNCHANGED <<jobVars, queueVars, envVars, callbacks>>

\* Mutation of PlanRetry: a missing delayed entry goes unnoticed.
PlanRetryUnchecked(w) ==
  /\ At(w, "retry")
  /\ \/ expired[ReviewOf(w)] /\ Conclude(w, "failed") /\ UNCHANGED delayed
     \/ /\ ~expired[ReviewOf(w)]
        /\ Delay(w, "model", held[w].dl) \/ (RedisFaults /\ UNCHANGED delayed)
        /\ Goto(w, "scheduled")
  /\ UNCHANGED <<jobVars, stream, pel, dead, envVars, callbacks>>

\* Mutation of PlanRetry: the stage raises although its retry is scheduled.
PlanRetryRaises(w) ==
  /\ At(w, "retry")
  /\ \/ expired[ReviewOf(w)] /\ Conclude(w, "failed") /\ UNCHANGED delayed
     \/ ~expired[ReviewOf(w)] /\ Delay(w, "model", held[w].dl) /\ Escape(w)
  /\ UNCHANGED <<jobVars, stream, pel, dead, envVars, callbacks>>

\* Mutation of PlanRetry: retries go on past the deadline.
PlanRetryForever(w) ==
  /\ At(w, "retry")
  /\ Delay(w, "model", held[w].dl)
  /\ Goto(w, "scheduled")
  /\ UNCHANGED <<jobVars, stream, pel, dead, envVars, callbacks>>

\* run_model_stage plans a delayed retry; past the deadline it fails the
\* workflow, and when Redis does not take the entry it raises.
PlanRetry(w) ==
  /\ At(w, "retry")
  /\ \/ /\ expired[ReviewOf(w)]
        /\ Conclude(w, "failed")
        /\ UNCHANGED delayed
     \/ /\ ~expired[ReviewOf(w)]
        /\ Delay(w, "model", held[w].dl)
        /\ Goto(w, "scheduled") \/ (RedisFaults /\ Escape(w))
     \/ /\ ~expired[ReviewOf(w)] /\ RedisFaults
        /\ Escape(w)
        /\ UNCHANGED delayed
  /\ UNCHANGED <<jobVars, stream, pel, dead, envVars, callbacks>>

MarkPending(w) ==
  /\ At(w, "scheduled")
  /\ WriteLive(ReviewOf(w), "pending")
  /\ Goto(w, "ack")
  /\ UNCHANGED <<queueVars, envVars, callbacks>>

\* Mutation of Finish: a failing row write loses the file write as well.
FinishRowFirst(w) ==
  /\ At(w, "finish")
  /\ \/ Record(ReviewOf(w), goal[w]) /\ db' = [db EXCEPT ![ReviewOf(w)] = goal[w]]
     \/ PgFaults /\ UNCHANGED jobVars
  /\ Goto(w, "notify")
  /\ UNCHANGED <<queueVars, envVars, callbacks>>

\* update_job to a terminal status.  The row write may be skipped (no pool) or
\* raise after three attempts; who sees the exception depends on where it is.
Finish(w) ==
  /\ At(w, "finish")
  /\ Record(ReviewOf(w), goal[w])
  /\ \/ /\ db' = [db EXCEPT ![ReviewOf(w)] = goal[w]]
        /\ Goto(w, "notify")
     \/ /\ PgFaults
        /\ UNCHANGED db
        /\ \/ Goto(w, "notify")
           \/ past[w] /\ Release(w)
           \/ ~past[w] /\ goal[w] = "completed" /\ Conclude(w, "failed")
           \/ /\ ~past[w] /\ goal[w] = "completed" /\ StageOf(w) = "model"
              /\ Goto(w, "retry")
           \/ ~past[w] /\ goal[w] # "completed" /\ Escape(w)
  /\ UNCHANGED <<queueVars, envVars, callbacks>>

\* send_review_callback, whose failure is only logged, and the cleanup.
Notify(w) ==
  /\ At(w, "notify")
  /\ \/ callbacks' = [callbacks EXCEPT ![ReviewOf(w)] = @ \cup {goal[w]}]
     \/ UNCHANGED callbacks
  /\ Goto(w, IF past[w] THEN "deadletter" ELSE "ack")
  /\ UNCHANGED <<jobVars, queueVars, envVars>>

\* wait_for cancels a model stage that is persisting or reporting its result
\* when the deadline passes; the TimeoutError fails the workflow.
DeadlineCut(w) ==
  /\ At(w, "notify") /\ StageOf(w) = "model" /\ goal[w] = "completed"
  /\ expired[ReviewOf(w)]
  /\ \/ callbacks' = [callbacks EXCEPT ![ReviewOf(w)] = @ \cup {"completed"}]
     \/ UNCHANGED callbacks
  /\ Conclude(w, "failed")
  /\ UNCHANGED <<jobVars, queueVars, envVars>>

-----------------------------------------------------------------------------
(* Worker: leaving handle_message *)

\* Mutation of Ack: every pending entry of the review is acknowledged.
AckReview(w) ==
  /\ At(w, "ack")
  /\ pel' = {e \in pel : e.review # ReviewOf(w)}
  /\ Release(w)
  /\ UNCHANGED <<jobVars, stream, delayed, dead, envVars, callbacks>>

\* XACK.  Without a client it is silently skipped; raising inside the try it
\* counts as a failure of the stage.
Ack(w) ==
  /\ At(w, "ack")
  /\ \/ pel' = pel \ {held[w]} /\ Release(w)
     \/ RedisFaults /\ UNCHANGED pel /\ Release(w)
     \/ RedisFaults /\ ~past[w] /\ UNCHANGED pel /\ Escape(w)
  /\ UNCHANGED <<jobVars, stream, delayed, dead, envVars, callbacks>>

\* Mutation of Rescue: an escaped exception dead-letters at once.
RescueDeadLetters(w) ==
  /\ At(w, "rescue")
  /\ Goto(w, "deadletter")
  /\ UNCHANGED <<jobVars, queueVars, envVars, callbacks>>

\* The except block of handle_message for the staged queues: schedule a retry
\* and acknowledge, or keep the entry pending, or fail and dead-letter.
Rescue(w) ==
  /\ At(w, "rescue")
  /\ \/ /\ expired[ReviewOf(w)]
        /\ pc' = [pc EXCEPT ![w] = "finish"]
        /\ goal' = [goal EXCEPT ![w] = "failed"]
        /\ past' = [past EXCEPT ![w] = TRUE]
        /\ UNCHANGED <<held, delayed>>
     \/ /\ ~expired[ReviewOf(w)]
        /\ Delay(w, StageOf(w), held[w].dl)
        /\ \/ /\ pc' = [pc EXCEPT ![w] = "scheduled"]
              /\ past' = [past EXCEPT ![w] = TRUE]
              /\ UNCHANGED <<held, goal>>
           \/ RedisFaults /\ Release(w)
     \/ /\ ~expired[ReviewOf(w)] /\ RedisFaults
        /\ Release(w)
        /\ UNCHANGED delayed
  /\ UNCHANGED <<jobVars, stream, pel, dead, envVars, callbacks>>

\* dead_letter_review: XADD to the dead stream, then XACK.
DeadLetter(w) ==
  /\ At(w, "deadletter")
  /\ \/ /\ dead' = dead \cup {ReviewOf(w)}
        /\ pel' = pel \ {held[w]}
     \/ RedisFaults /\ dead' = dead \cup {ReviewOf(w)} /\ UNCHANGED pel
     \/ RedisFaults /\ UNCHANGED <<dead, pel>>
  /\ Release(w)
  /\ UNCHANGED <<jobVars, stream, delayed, envVars, callbacks>>

-----------------------------------------------------------------------------
(* Worker loop and environment *)

\* The promotion script: XADD, then ZREM, atomically; run by that stage's worker.
Promote ==
  \E e \in delayed :
    /\ e.stage \in WorkerStages
    /\ stream' = stream \cup {e}
    /\ delayed' = delayed \ {e}
    /\ UNCHANGED <<jobVars, pel, dead, handlerVars, envVars, callbacks>>

DeadlinePasses(r) ==
  /\ file[r] # "none" /\ ~expired[r]
  /\ expired' = [expired EXCEPT ![r] = TRUE]
  /\ UNCHANGED <<jobVars, queueVars, handlerVars, api, marked, crashes, callbacks>>

\* A row is stale after an hour without update: later than the deadline, and
\* never while a handler is between two writes of a model stage.
Quiet(r) ==
  \A w \in Busy : ReviewOf(w) = r =>
    pc[w] \in {"claimed", "start", "inline"} \/ (pc[w] = "work" /\ StageOf(w) # "model")

\* mark_stale_processing_jobs_failed, one transaction.
ReconcileMark(r) ==
  /\ db[r] = "processing" /\ expired[r] /\ Quiet(r)
  /\ db' = [db EXCEPT ![r] = "failed"]
  /\ decided' = [decided EXCEPT ![r] = @ \cup {"failed"}]
  /\ marked' = marked \cup {r}
  /\ UNCHANGED <<file, queueVars, handlerVars, api, expired, crashes, callbacks>>

\* reconcile_stale_reviews goes on with the returned rows; when a row write
\* raises it reports neither this review nor the rest of the batch.
ReconcileReport(r) ==
  /\ r \in marked
  /\ Record(r, "failed")
  /\ \/ /\ db' = [db EXCEPT ![r] = "failed"] \/ (PgFaults /\ UNCHANGED db)
        /\ \/ callbacks' = [callbacks EXCEPT ![r] = @ \cup {"failed"}]
           \/ UNCHANGED callbacks
        /\ marked' = marked \ {r}
     \/ /\ PgFaults /\ UNCHANGED <<db, callbacks>>
        /\ marked' \in SUBSET (marked \ {r})
  /\ UNCHANGED <<queueVars, handlerVars, api, expired, crashes>>

ReconcileCrash ==
  /\ crashes < MaxCrashes
  /\ marked' \in SUBSET marked /\ marked' # marked
  /\ crashes' = crashes + 1
  /\ UNCHANGED <<jobVars, queueVars, handlerVars, api, expired, callbacks>>

Crash(w) ==
  /\ w \in Busy /\ crashes < MaxCrashes
  /\ Release(w)
  /\ crashes' = crashes + 1
  /\ UNCHANGED <<jobVars, queueVars, api, expired, marked, callbacks>>

\* The event loop shuts down and cancels a running stage: CancelledError is
\* caught by the stage function, which records the review as cancelled.
Interrupt(w) ==
  /\ w \in Busy /\ crashes < MaxCrashes /\ ~past[w]
  /\ \/ pc[w] \in {"work", "inline", "enqueued"}
     \/ pc[w] \in {"finish", "notify"} /\ goal[w] = "completed"
  /\ Conclude(w, "cancelled")
  /\ crashes' = crashes + 1
  /\ UNCHANGED <<jobVars, queueVars, api, expired, marked, callbacks>>

-----------------------------------------------------------------------------

\* What the code of a running handler does next.
Step(w) ==
  \/ CheckTerminal(w) \/ Begin(w)
  \/ PreprocessDone(w) \/ MarkQueued(w) \/ SourceError(w) \/ StageError(w)
  \/ ReviewDone(w) \/ ModelError(w) \/ PlanRetry(w) \/ MarkPending(w)
  \/ Finish(w) \/ Notify(w) \/ DeadlineCut(w)
  \/ Ack(w) \/ Rescue(w) \/ DeadLetter(w)

Next ==
  \/ \E r \in Review :
       \/ Create(r) \/ PersistCreated(r) \/ Enqueue(r) \/ Cancel(r)
       \/ DeadlinePasses(r)
       \/ ReconcileMark(r) \/ ReconcileReport(r)
       \/ \E w \in Handler : RunInProcess(r, w)
  \/ \E w \in Handler :
       \/ Dequeue(w) \/ Reclaim(w) \/ Step(w)
       \/ SlotTimeout(w) \/ Progress(w) \/ Crash(w) \/ Interrupt(w)
  \/ Promote \/ ReconcileCrash

Spec == Init /\ [][Next]_vars

\* The create request runs to its end, handlers make progress, the worker loop
\* reads, reclaims and promotes, and time passes.
Fairness ==
  /\ \A r \in Review : WF_vars(PersistCreated(r) \/ Enqueue(r))
  /\ \A r \in Review : WF_vars(DeadlinePasses(r))
  /\ \A w \in Handler : WF_vars(Step(w)) /\ WF_vars(Dequeue(w) \/ Reclaim(w))
  /\ WF_vars(Promote)

FairSpec == Spec /\ Fairness

-----------------------------------------------------------------------------
(* Properties *)

\* Types of all variables.
TypeOK ==
  /\ api \in [Review -> {"new", "created", "persisted", "accepted", "local", "failed"}]
  /\ file \in [Review -> Status \cup {"none"}]
  /\ db \in [Review -> Status \cup {"none"}]
  /\ stream \subseteq Entry /\ pel \subseteq Entry /\ delayed \subseteq Entry
  /\ dead \subseteq Review
  /\ pc \in [Handler -> {"idle", "claimed", "start", "work", "inline", "enqueued",
                         "retry", "scheduled", "finish", "notify", "ack",
                         "rescue", "deadletter"}]
  /\ held \in [Handler -> Entry \cup {NoEntry}]
  /\ goal \in [Handler -> Terminal \cup {"none"}]
  /\ past \in [Handler -> BOOLEAN]
  /\ expired \in [Review -> BOOLEAN]
  /\ marked \subseteq Review
  /\ decided \in [Review -> SUBSET Terminal]
  /\ callbacks \in [Review -> SUBSET Terminal]
  /\ crashes \in 0..MaxCrashes

\* The handler has handed its entry's work over or recorded its outcome.
Settled(e) ==
  \E w \in Handler : held[w] = e /\ pc[w] \in {"enqueued", "scheduled", "notify", "ack"}

\* At-least-once processing: a review the API accepted has a recorded outcome,
\* or is in the dead-letter stream, or still has an entry in some Redis
\* structure that nobody has settled -- whatever crashes, Redis or PostgreSQL
\* failures and duplicate deliveries happened between the XADD, ZADD and XACK
\* calls of worker.py, tasks.py and queue.py.
NoReviewDropped ==
  \A r \in Review : api[r] = "accepted" =>
    \/ decided[r] # {}
    \/ r \in dead
    \/ \E e \in Queue : e.review = r /\ ~Settled(e)

\* handle_message fails the workflow before it dead-letters an entry, and only
\* once the 30 minute deadline has passed.
DeadLetterAfterFailure ==
  \A r \in dead : "failed" \in decided[r] /\ expired[r]

\* The platform is called back only with an outcome that was recorded before.
CallbackAfterRecord ==
  \A r \in Review : callbacks[r] \subseteq decided[r]

\* With punctual heartbeats, only the handler that works on an entry settles
\* it: nobody else can acknowledge it, so a crash always leaves it reclaimable.
HeldStaysPending ==
  ~LateHeartbeats =>
    \A w \in Busy : ~IsLocal(w) =>
      held[w] \in pel /\ \A v \in Busy : held[v] = held[w] => v = w

\* Work is not multiplied: while Redis and PostgreSQL answer and heartbeats are
\* punctual, a review has at most one unsettled entry, plus one for each crash
\* that fell between an XADD or ZADD and the XACK of the entry it replaces.
WorkNotMultiplied ==
  ~PgFaults /\ ~RedisFaults /\ ~LateHeartbeats =>
    \A r \in Review :
      Cardinality({e \in Queue : e.review = r /\ ~Settled(e)}) <= 1 + crashes

\* Every accepted review reaches a recorded outcome.
EveryReviewDecided ==
  \A r \in Review : api[r] = "accepted" ~> decided[r] # {}

\* The Redis structures drain: no entry circulates for ever.
QueuesDrain == <>[](Queue = {})

\* The terminal status of an accepted review, once in the row, is final.
TerminalIsFinal ==
  [][\A r \in Review :
       api[r] = "accepted" /\ db[r] \in Terminal => db'[r] \in Terminal]_vars

-----------------------------------------------------------------------------
(* The obligation that the pipeline implements *)

\* An accepted review without an outcome is owed by the entry that will bring
\* it; without such an entry it is lost, which ReviewObligation does not know.
Owing(r) == \E e \in Queue : e.review = r /\ ~Settled(e)

PhaseOf(r) ==
  IF decided[r] # {} \/ r \in dead THEN "settled"
  ELSE IF api[r] # "accepted" THEN "new"
  ELSE IF Owing(r) THEN "owed" ELSE "lost"

Obligation == INSTANCE ReviewObligation WITH phase <- [r \in Review |-> PhaseOf(r)]

\* The pipeline keeps the obligation: through crashes, failing calls, retries and
\* duplicates, an accepted review is owed by an entry until it is settled, and
\* nothing takes a settlement back.
KeepsObligation == Obligation!Spec
=============================================================================
