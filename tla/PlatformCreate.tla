---------------------------- MODULE PlatformCreate ----------------------------
(***************************************************************************)
(* Idempotent creation of the review of one platform task (main.py):       *)
(* requests with the same app and platform_task_id race through            *)
(* create_platform_review_job, or through api_v1_complete_oss_upload,      *)
(* which awaits the object store between its second look at the job file   *)
(* and create_job.  One API process serves them; when it dies, every       *)
(* request in it dies, and another process serves later ones.              *)
(*                                                                         *)
(* The create lock is a Redis key with a TTL of 30 s, which the check of   *)
(* an upload may outlast, or, when Redis does not answer, a file made with *)
(* O_EXCL.  What becomes of an enqueued review is module ReviewPipeline.   *)
(***************************************************************************)
EXTENDS Naturals, FiniteSets

CONSTANTS Request,       \* HTTP requests that create the task's review
          NoRequest,     \* nobody holds the lock
          CreateFaults,  \* may a Redis, PostgreSQL or OSS call fail?
          MaxRestarts    \* bound: crashes of the API process

ASSUME CreateAssumption ==
  /\ NoRequest \notin Request
  /\ CreateFaults \in BOOLEAN
  /\ MaxRestarts \in Nat

Flow   == {"url", "oss"}
Answer == {"none", "created", "idempotent", "conflict", "invalid", "error"}

VARIABLES
  at,        \* what each request does next
  flow,      \* which of the two handlers serves it
  answer,    \* the answer it got, or will get when it has released the lock
  how,       \* the kind of lock it took, if any
  redisLock, \* who set the Redis key (the key itself does not say)
  fileLock,  \* who made the lock file
  made,      \* the requests that ran create_job: the job file exists after one
  started,   \* the requests whose review was enqueued or run in this process
  session,   \* does the directory of the upload session still exist?
  lapsed,    \* history: has a key expired while its setter was still to make the job?
  restarts

locks      == <<redisLock, fileLock>>
createVars == <<at, flow, answer, how, locks, made, started, session, lapsed, restarts>>

CreateInit ==
  /\ at = [q \in Request |-> "new"]
  /\ flow \in [Request -> Flow]
  /\ answer = [q \in Request |-> "none"]
  /\ how = [q \in Request |-> "none"]
  /\ redisLock = NoRequest /\ fileLock = NoRequest
  /\ made = {} /\ started = {} /\ session = TRUE /\ lapsed = FALSE
  /\ restarts = 0

\* Where a request holds the lock, or believes that it does.
Holding == {"check", "verify", "persist", "enqueue", "tidy", "release"}
Active  == {q \in Request : at[q] \notin {"new", "done", "dead"}}

JobExists == made # {}

Move(q, l) == at' = [at EXCEPT ![q] = l]

\* The answer of a request is fixed; it still has to do what is at label l.
Reply(q, a, l) == Move(q, l) /\ answer' = [answer EXCEPT ![q] = a]

-----------------------------------------------------------------------------
(* The lock *)

\* The first look at the job file.
LookUpJob(q) ==
  /\ at[q] = "new"
  /\ IF JobExists THEN Reply(q, "idempotent", "done")
                  ELSE Move(q, "acquire") /\ UNCHANGED answer
  /\ UNCHANGED <<flow, how, locks, made, started, session, lapsed, restarts>>

TakeRedis(q) ==
  IF redisLock = NoRequest
  THEN redisLock' = q /\ Move(q, "check") /\ how' = [how EXCEPT ![q] = "redis"]
  ELSE Move(q, "wait") /\ UNCHANGED <<redisLock, how>>

TakeFile(q) ==
  IF fileLock = NoRequest
  THEN fileLock' = q /\ Move(q, "check") /\ how' = [how EXCEPT ![q] = "file"]
  ELSE Move(q, "wait") /\ UNCHANGED <<fileLock, how>>

\* acquire_platform_create_lock: SET NX EX; without a client, or when the call
\* raises, the lock file.  The key may be set although the call raised.
AcquireLock(q) ==
  /\ at[q] = "acquire"
  /\ \/ TakeRedis(q) /\ UNCHANGED fileLock
     \/ CreateFaults /\ TakeFile(q) /\ UNCHANGED redisLock
     \/ CreateFaults /\ redisLock = NoRequest /\ redisLock' = q /\ TakeFile(q)
  /\ UNCHANGED <<flow, answer, made, started, session, lapsed, restarts>>

\* wait_for_existing_platform_job polls until the job exists or 3 s are over.
Wait(q) ==
  /\ at[q] = "wait"
  /\ Reply(q, IF JobExists THEN "idempotent" ELSE "conflict", "done")
  /\ UNCHANGED <<flow, how, locks, made, started, session, lapsed, restarts>>

\* The key still guards the creation of its setter.
Guarded ==
  how[redisLock] = "redis" /\ redisLock \notin made /\ at[redisLock] \in {"verify", "release"}

\* The key expires: 30 s after SET.  Only a request that looks at the job file for the
\* second time, which follows without an await, still has it for sure: the head of an
\* upload is requested in a thread that no timeout below 30 s bounds.
LockExpires ==
  /\ redisLock # NoRequest
  /\ ~ (how[redisLock] = "redis" /\ at[redisLock] = "check")
  /\ redisLock' = NoRequest
  /\ lapsed' = (lapsed \/ Guarded)
  /\ UNCHANGED <<at, flow, answer, how, fileLock, made, started, session, restarts>>

\* release_platform_create_lock, in the finally clause: the key is deleted,
\* whoever has set it; a failing delete leaves it to its TTL.
ReleaseLock(q) ==
  /\ at[q] = "release"
  /\ Move(q, "done")
  /\ \/ how[q] = "redis" /\ redisLock' = NoRequest /\ UNCHANGED fileLock
     \/ how[q] = "redis" /\ CreateFaults /\ UNCHANGED locks
     \/ how[q] = "file" /\ fileLock' = NoRequest /\ UNCHANGED redisLock
  /\ UNCHANGED <<flow, answer, how, made, started, session, lapsed, restarts>>

-----------------------------------------------------------------------------
(* The creation *)

\* create_job: the job file is written, over an existing one if there is one.
CreateJob(q) == made' = made \cup {q} /\ Move(q, "persist") /\ UNCHANGED answer

\* Mutation of CheckJob: the job is created without a second look.
CheckJobOnce(q) ==
  /\ at[q] = "check"
  /\ IF flow[q] = "url" THEN CreateJob(q) ELSE Move(q, "verify") /\ UNCHANGED <<made, answer>>
  /\ UNCHANGED <<flow, how, locks, started, session, lapsed, restarts>>

\* The second look, under the lock.  A URL request goes on to create_job
\* without an await, unless its source is invalid; an upload is checked first.
CheckJob(q) ==
  /\ at[q] = "check"
  /\ \/ JobExists /\ Reply(q, "idempotent", "release") /\ UNCHANGED made
     \/ ~JobExists /\ flow[q] = "url" /\ CreateJob(q)
     \/ ~JobExists /\ flow[q] = "url" /\ Reply(q, "invalid", "release") /\ UNCHANGED made
     \/ ~JobExists /\ flow[q] = "oss" /\ Move(q, "verify") /\ UNCHANGED <<made, answer>>
  /\ UNCHANGED <<flow, how, locks, started, session, lapsed, restarts>>

\* Mutation of VerifyUpload: a failed check returns without the finally clause.
VerifyUploadLeaks(q) ==
  /\ at[q] = "verify"
  /\ \/ session /\ CreateJob(q)
     \/ Reply(q, "invalid", "done") /\ UNCHANGED made
  /\ UNCHANGED <<flow, how, locks, started, session, lapsed, restarts>>

\* The session's metadata and the object's head are read; then create_job.
VerifyUpload(q) ==
  /\ at[q] = "verify"
  /\ \/ session /\ CreateJob(q)
     \/ Reply(q, "invalid", "release") /\ UNCHANGED made
  /\ UNCHANGED <<flow, how, locks, started, session, lapsed, restarts>>

\* persist_created_job: three strict attempts; the last exception is a 500.
Persist(q) ==
  /\ at[q] = "persist"
  /\ \/ Move(q, "enqueue") /\ UNCHANGED answer
     \/ CreateFaults /\ Reply(q, "error", "release")
  /\ UNCHANGED <<flow, how, locks, made, started, session, lapsed, restarts>>

\* Mutation of Dispatch: without Redis the review is not started at all.
DispatchForgets(q) ==
  /\ at[q] = "enqueue"
  /\ started' \in {started \cup {q}, started}
  /\ Reply(q, "created", IF flow[q] = "oss" THEN "tidy" ELSE "release")
  /\ UNCHANGED <<flow, how, locks, made, session, lapsed, restarts>>

\* dispatch_review: XADD, or a background task without a client; an exception
\* of XADD, which may have worked, is a 500.
Dispatch(q) ==
  /\ at[q] = "enqueue"
  /\ \/ /\ started' = started \cup {q}
        /\ Reply(q, "created", IF flow[q] = "oss" THEN "tidy" ELSE "release")
     \/ /\ CreateFaults
        /\ started' \in {started \cup {q}, started}
        /\ Reply(q, "error", "release")
  /\ UNCHANGED <<flow, how, locks, made, session, lapsed, restarts>>

\* The session directory is removed.
RemoveSession(q) ==
  /\ at[q] = "tidy"
  /\ session' = FALSE
  /\ Move(q, "release")
  /\ UNCHANGED <<flow, answer, how, locks, made, started, lapsed, restarts>>

\* The API process dies: its requests are never answered.
Restart ==
  /\ restarts < MaxRestarts /\ Active # {}
  /\ restarts' = restarts + 1
  /\ at' = [q \in Request |-> IF q \in Active THEN "dead" ELSE at[q]]
  /\ answer' = [q \in Request |-> IF q \in Active THEN "none" ELSE answer[q]]
  /\ UNCHANGED <<flow, how, locks, made, started, session, lapsed>>

CreateNext ==
  \/ \E q \in Request :
       \/ LookUpJob(q) \/ AcquireLock(q) \/ Wait(q) \/ CheckJob(q) \/ VerifyUpload(q)
       \/ Persist(q) \/ Dispatch(q) \/ RemoveSession(q) \/ ReleaseLock(q)
  \/ LockExpires \/ Restart

CreateSpec == CreateInit /\ [][CreateNext]_createVars

-----------------------------------------------------------------------------
(* Properties *)

\* Types of all variables.
CreateTypeOK ==
  /\ at \in [Request -> {"new", "acquire", "wait", "done", "dead"} \cup Holding]
  /\ flow \in [Request -> Flow]
  /\ answer \in [Request -> Answer]
  /\ how \in [Request -> {"none", "redis", "file"}]
  /\ redisLock \in Request \cup {NoRequest}
  /\ fileLock \in Request \cup {NoRequest}
  /\ made \subseteq Request /\ started \subseteq made
  /\ session \in BOOLEAN /\ lapsed \in BOOLEAN
  /\ restarts \in 0..MaxRestarts

\* A task's review is created twice only in one way: an upload was being checked,
\* and the two requests held locks of different kinds, because Redis failed for one
\* of them, or some request's key ran out before it was through, so that another
\* took it, or lost its own to the late DELETE.  A URL request never creates a review
\* again, whatever the locks do.
CreatedOnce ==
  \A p, q \in made : p # q =>
    /\ "oss" \in {flow[p], flow[q]}
    /\ how[p] # how[q] \/ lapsed

\* A request that was told of success, as the creator or as a repeat, has a
\* review that is queued or runs, or a creator that is still dispatching it,
\* or one whose own dispatch failed or died half-way.
AnsweredIsServed ==
  \A q \in Request : at[q] = "done" /\ answer[q] \in {"created", "idempotent"} =>
    \/ started # {}
    \/ \E p \in made : at[p] \in {"persist", "enqueue", "dead"} \/ answer[p] = "error"

\* The lock file, which never expires, belongs to a request that will remove
\* it, whatever fails in that request, or to one that died with its process.
LockFileOwned ==
  fileLock # NoRequest => at[fileLock] \in Holding \cup {"dead"}

\* A platform that repeats a creation and is answered with success has a review
\* that somebody works on: the repeat of a request whose dispatch failed does
\* what the request did not.
RepeatIsServed ==
  \A q \in Request : at[q] = "done" /\ answer[q] = "idempotent" =>
    started # {} \/ \E p \in made : at[p] \in {"persist", "enqueue"}
=============================================================================
