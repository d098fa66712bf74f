----------------------------- MODULE PlatformProofs -----------------------------
(***************************************************************************)
(* Theorems about what the processes share in Redis, for every value of    *)
(* the constants: the creation of reviews under a lock (PlatformCreate),   *)
(* the pool of API keys (KeyPool), the slots of reviews and downloads      *)
(* (SlotLease) and the pacing of model calls (QpmPacer); and about         *)
(* MCPlatform, which puts the four together: each of its behaviours is one *)
(* of every component, so that it has the properties of them all.          *)
(***************************************************************************)
EXTENDS MCPlatform, FiniteSetTheorems, TLAPS

-----------------------------------------------------------------------------
(* Creation.  Where a request is, which kind of lock it took and whether it *)
(* ran create_job (Places) is the base of everything else; on it rest what  *)
(* the lock file guards (FileGuard), what the Redis key guards until one    *)
(* has lapsed (KeyGuard), and who works on a review that was made.          *)

\* Who holds a lock has taken one of the two kinds, and a request that ran
\* create_job is past it.
Places ==
  \A q \in Request :
    /\ at[q] \in Holding => how[q] \in {"redis", "file"}
    /\ at[q] \in {"persist", "enqueue", "tidy"} => q \in made
    /\ at[q] \in {"new", "acquire", "wait", "check", "verify"} => q \notin made
    /\ q \in made => how[q] \in {"redis", "file"}
    /\ at[q] = "verify" => flow[q] = "oss"

LEMMA CreateInitTyped == CreateInit => CreateTypeOK
<1> SUFFICES ASSUME CreateInit PROVE CreateTypeOK
  OBVIOUS
<1>1. session \in BOOLEAN /\ lapsed \in BOOLEAN
  BY DEF CreateInit
<1>2. restarts \in 0..MaxRestarts
  BY CreateAssumption DEF CreateInit
<1> QED
  BY <1>1, <1>2 DEF CreateInit, CreateTypeOK, Flow, Answer

LEMMA CreateNextTyped == CreateTypeOK /\ Places /\ [CreateNext]_createVars => CreateTypeOK'
<1> SUFFICES ASSUME CreateTypeOK, Places, [CreateNext]_createVars PROVE CreateTypeOK'
  OBVIOUS
<1> USE DEF CreateTypeOK, Flow, Holding, Move, Reply, locks
<1>1. ASSUME NEW q \in Request, LookUpJob(q) \/ Wait(q) PROVE CreateTypeOK'
  BY <1>1 DEF LookUpJob, Wait, Answer
<1>2. ASSUME NEW q \in Request, AcquireLock(q) PROVE CreateTypeOK'
  BY <1>2 DEF AcquireLock, TakeRedis, TakeFile
<1>3. ASSUME NEW q \in Request, CheckJob(q) PROVE CreateTypeOK'
  BY <1>3 DEF CheckJob, CreateJob, Answer
<1>4. ASSUME NEW q \in Request, VerifyUpload(q) PROVE CreateTypeOK'
  BY <1>4 DEF VerifyUpload, CreateJob, Answer
<1>5. ASSUME NEW q \in Request, Persist(q) PROVE CreateTypeOK'
  BY <1>5 DEF Persist, Answer
<1>6. ASSUME NEW q \in Request, Dispatch(q) PROVE CreateTypeOK'
  BY <1>6 DEF Dispatch, Answer, Places
<1>7. ASSUME NEW q \in Request, RemoveSession(q) PROVE CreateTypeOK'
  BY <1>7 DEF RemoveSession
<1>8. ASSUME NEW q \in Request, ReleaseLock(q) PROVE CreateTypeOK'
  BY <1>8 DEF ReleaseLock
<1>9. CASE LockExpires
  BY <1>9 DEF LockExpires, Guarded
<1>10. CASE Restart
  BY <1>10, CreateAssumption DEF Restart, Active, Answer
<1>11. CASE UNCHANGED createVars
  BY <1>11 DEF createVars
<1> QED
  BY <1>1, <1>2, <1>3, <1>4, <1>5, <1>6, <1>7, <1>8, <1>9, <1>10, <1>11 DEF CreateNext

LEMMA NextPlaces ==
  ASSUME CreateTypeOK, Places, [CreateNext]_createVars
  PROVE  Places'
<1> USE DEF CreateTypeOK, Places, Holding, Move, Reply, locks
<1>1. ASSUME NEW q \in Request, LookUpJob(q) \/ Wait(q) PROVE Places'
  BY <1>1 DEF LookUpJob, Wait
<1>2. ASSUME NEW q \in Request, AcquireLock(q) PROVE Places'
  BY <1>2 DEF AcquireLock, TakeRedis, TakeFile
<1>3. ASSUME NEW q \in Request, CheckJob(q) PROVE Places'
  BY <1>3 DEF CheckJob, CreateJob, Flow
<1>4. ASSUME NEW q \in Request, VerifyUpload(q) PROVE Places'
  BY <1>4 DEF VerifyUpload, CreateJob
<1>5. ASSUME NEW q \in Request, Persist(q) \/ Dispatch(q) PROVE Places'
  BY <1>5 DEF Persist, Dispatch
<1>6. ASSUME NEW q \in Request, RemoveSession(q) \/ ReleaseLock(q) PROVE Places'
  BY <1>6 DEF RemoveSession, ReleaseLock
<1>7. CASE LockExpires
  BY <1>7 DEF LockExpires, Guarded
<1>8. CASE Restart
  BY <1>8 DEF Restart, Active
<1>9. CASE UNCHANGED createVars
  BY <1>9 DEF createVars
<1> QED
  BY <1>1, <1>2, <1>3, <1>4, <1>5, <1>6, <1>7, <1>8, <1>9 DEF CreateNext

-----------------------------------------------------------------------------
(* The lock file *)

\* It belongs to whoever holds the lock by it, and it keeps a second maker out.
FileGuard ==
  /\ LockFileOwned
  /\ fileLock # NoRequest => how[fileLock] = "file"
  /\ \A q \in Request : how[q] = "file" /\ at[q] \in Holding => fileLock = q
  /\ \A q \in Request : how[q] = "file" /\ at[q] = "verify" =>
       \A p \in made : how[p] # "file"

LEMMA NextFileGuard ==
  ASSUME CreateTypeOK, Places, FileGuard, [CreateNext]_createVars
  PROVE  FileGuard'
<1> USE CreateAssumption
    DEF CreateTypeOK, Places, FileGuard, LockFileOwned, Holding, Move, Reply, locks
<1>1. ASSUME NEW q \in Request, LookUpJob(q) \/ Wait(q) PROVE FileGuard'
  BY <1>1 DEF LookUpJob, Wait
<1>2. ASSUME NEW q \in Request, AcquireLock(q) PROVE FileGuard'
  BY <1>2 DEF AcquireLock, TakeRedis, TakeFile
<1>3. ASSUME NEW q \in Request, CheckJob(q) PROVE FileGuard'
  BY <1>3 DEF CheckJob, CreateJob, JobExists
<1>4. ASSUME NEW q \in Request, VerifyUpload(q) PROVE FileGuard'
  BY <1>4 DEF VerifyUpload, CreateJob
<1>5. ASSUME NEW q \in Request, Persist(q) \/ Dispatch(q) PROVE FileGuard'
  BY <1>5 DEF Persist, Dispatch
<1>6. ASSUME NEW q \in Request, RemoveSession(q) \/ ReleaseLock(q) PROVE FileGuard'
  BY <1>6 DEF RemoveSession, ReleaseLock
<1>7. CASE LockExpires
  BY <1>7 DEF LockExpires
<1>8. CASE Restart
  BY <1>8 DEF Restart, Active
<1>9. CASE UNCHANGED createVars
  BY <1>9 DEF createVars
<1> QED
  BY <1>1, <1>2, <1>3, <1>4, <1>5, <1>6, <1>7, <1>8, <1>9 DEF CreateNext

\* The lock file, which no TTL removes, is never left behind by a request that
\* goes on: its owner will remove it, or died.
THEOREM LockFileIsOwned == CreateSpec => []LockFileOwned
<1> DEFINE Inv == CreateTypeOK /\ Places /\ FileGuard
<1>1. CreateInit => Inv
  BY CreateInitTyped DEF CreateInit, Places, FileGuard, LockFileOwned, Holding
<1>2. Inv /\ [CreateNext]_createVars => Inv'
  BY CreateNextTyped, NextPlaces, NextFileGuard
<1>3. Inv => LockFileOwned
  BY DEF FileGuard
<1> QED
  BY <1>1, <1>2, <1>3, PTL DEF CreateSpec

-----------------------------------------------------------------------------
(* The Redis key *)

RedisMade == \E p \in made : how[p] = "redis"

\* Until a key lapses, a request that took it and has not run create_job still has
\* it, or somebody made the job under an earlier key; and an upload that is being
\* checked keeps other makers out.
KeyGuard ==
  ~lapsed => \A q \in Request : how[q] = "redis" /\ q \notin made =>
    /\ at[q] \in {"check", "verify", "release"} => redisLock = q \/ RedisMade
    /\ at[q] = "verify" => redisLock = q /\ ~RedisMade

LEMMA NextKeyGuard ==
  ASSUME CreateTypeOK, Places, KeyGuard, [CreateNext]_createVars
  PROVE  KeyGuard'
<1> USE CreateAssumption
    DEF CreateTypeOK, Places, KeyGuard, RedisMade, Holding, Move, Reply, locks
<1>1. ASSUME NEW q \in Request, LookUpJob(q) \/ Wait(q) PROVE KeyGuard'
  BY <1>1 DEF LookUpJob, Wait
<1>2. ASSUME NEW q \in Request, AcquireLock(q) PROVE KeyGuard'
  BY <1>2 DEF AcquireLock, TakeRedis, TakeFile
<1>3. ASSUME NEW q \in Request, CheckJob(q) PROVE KeyGuard'
  BY <1>3 DEF CheckJob, CreateJob, JobExists
<1>4. ASSUME NEW q \in Request, VerifyUpload(q) PROVE KeyGuard'
  BY <1>4 DEF VerifyUpload, CreateJob
<1>5. ASSUME NEW q \in Request, Persist(q) \/ Dispatch(q) PROVE KeyGuard'
  BY <1>5 DEF Persist, Dispatch
<1>6. ASSUME NEW q \in Request, RemoveSession(q) \/ ReleaseLock(q) PROVE KeyGuard'
  BY <1>6 DEF RemoveSession, ReleaseLock
<1>7. CASE LockExpires
  BY <1>7 DEF LockExpires, Guarded, Active
<1>8. CASE Restart
  BY <1>8 DEF Restart, Active
<1>9. CASE UNCHANGED createVars
  BY <1>9 DEF createVars
<1> QED
  BY <1>1, <1>2, <1>3, <1>4, <1>5, <1>6, <1>7, <1>8, <1>9 DEF CreateNext

\* The second maker of a job, if there is one, checked an upload under a lock of
\* the other kind, or after a key had lapsed.
LEMMA NextCreatedOnce ==
  ASSUME CreateTypeOK, Places, FileGuard, KeyGuard, CreatedOnce, [CreateNext]_createVars
  PROVE  CreatedOnce'
<1> USE DEF CreateTypeOK, Places, CreatedOnce, Holding, Move, Reply, locks
<1>1. ASSUME NEW q \in Request, CheckJob(q) PROVE CreatedOnce'
  BY <1>1 DEF CheckJob, CreateJob, JobExists
<1>2. ASSUME NEW q \in Request, VerifyUpload(q) PROVE CreatedOnce'
  <2>1. flow[q] = "oss" /\ \A p \in made : how[p] # how[q] \/ lapsed
    BY <1>2 DEF VerifyUpload, FileGuard, KeyGuard, RedisMade
  <2> QED
    BY <1>2, <2>1 DEF VerifyUpload, CreateJob
<1>3. ASSUME NEW q \in Request, AcquireLock(q) PROVE CreatedOnce'
  BY <1>3 DEF AcquireLock, TakeRedis, TakeFile
<1>4. CASE UNCHANGED <<flow, how, made>> /\ (lapsed => lapsed')
  BY <1>4
<1> QED
  BY <1>1, <1>2, <1>3, <1>4
     DEF CreateNext, createVars, LookUpJob, Wait, Persist, Dispatch, RemoveSession,
         ReleaseLock, LockExpires, Restart

\* A platform task gets a second review only when an upload was being checked, and
\* only under two kinds of lock or after a key ran out under a request: for any
\* number of requests, whatever Redis, PostgreSQL and the API process do.
THEOREM JobsAreCreatedOnce == CreateSpec => []CreatedOnce
<1> DEFINE Inv == CreateTypeOK /\ Places /\ FileGuard /\ KeyGuard /\ CreatedOnce
<1>1. CreateInit => Inv
  BY CreateInitTyped
     DEF CreateInit, Places, FileGuard, LockFileOwned, KeyGuard, CreatedOnce, Holding
<1>2. Inv /\ [CreateNext]_createVars => Inv'
  BY CreateNextTyped, NextPlaces, NextFileGuard, NextKeyGuard, NextCreatedOnce
<1> QED
  BY <1>1, <1>2, PTL DEF CreateSpec

-----------------------------------------------------------------------------
(* Answers *)

\* Somebody enqueued the review, works towards it, or broke off on the way.
Dispatched(p) == at[p] \in {"persist", "enqueue", "dead"} \/ answer[p] = "error"

MadeServed == made # {} => started # {} \/ \E p \in made : Dispatched(p)

\* Success is only answered when the job was there.
AnswersTrue ==
  \A q \in Request : answer[q] \in {"created", "idempotent"} => made # {}

LEMMA NextAnswers ==
  ASSUME CreateTypeOK, Places, MadeServed, AnswersTrue, [CreateNext]_createVars
  PROVE  MadeServed' /\ AnswersTrue'
<1> DEFINE Served == MadeServed /\ AnswersTrue
<1> USE DEF CreateTypeOK, Places, MadeServed, AnswersTrue, Dispatched, Holding, Move, Reply, locks
<1>1. ASSUME NEW q \in Request, LookUpJob(q) \/ Wait(q) PROVE Served'
  BY <1>1 DEF LookUpJob, Wait, JobExists
<1>2. ASSUME NEW q \in Request, AcquireLock(q) PROVE Served'
  BY <1>2 DEF AcquireLock, TakeRedis, TakeFile
<1>3. ASSUME NEW q \in Request, CheckJob(q) PROVE Served'
  BY <1>3 DEF CheckJob, CreateJob, JobExists
<1>4. ASSUME NEW q \in Request, VerifyUpload(q) PROVE Served'
  BY <1>4 DEF VerifyUpload, CreateJob
<1>5. ASSUME NEW q \in Request, Persist(q) \/ Dispatch(q) PROVE Served'
  BY <1>5 DEF Persist, Dispatch
<1>6. ASSUME NEW q \in Request, RemoveSession(q) \/ ReleaseLock(q) PROVE Served'
  BY <1>6 DEF RemoveSession, ReleaseLock
<1>7. CASE LockExpires
  BY <1>7 DEF LockExpires
<1>8. CASE Restart
  BY <1>8 DEF Restart, Active
<1>9. CASE UNCHANGED createVars
  BY <1>9 DEF createVars
<1> QED
  BY <1>1, <1>2, <1>3, <1>4, <1>5, <1>6, <1>7, <1>8, <1>9 DEF CreateNext

\* Whatever the locks do, who is told that the review exists is told the truth:
\* it is queued, or its creator is at it, failed with an answer, or died.
THEOREM AnswersAreServed == CreateSpec => []AnsweredIsServed
<1> DEFINE Inv == CreateTypeOK /\ Places /\ MadeServed /\ AnswersTrue
<1>1. CreateInit => Inv
  BY CreateInitTyped DEF CreateInit, Places, MadeServed, AnswersTrue, Holding
<1>2. Inv /\ [CreateNext]_createVars => Inv'
  BY CreateNextTyped, NextPlaces, NextAnswers
<1>3. Inv => AnsweredIsServed
  BY DEF MadeServed, AnswersTrue, AnsweredIsServed, Dispatched
<1> QED
  BY <1>1, <1>2, <1>3, PTL DEF CreateSpec

-----------------------------------------------------------------------------
(* The pool of API keys *)

CallPlace  == {"new", "using", "release", "report", "done"}
CallRecord == [at : CallPlace, key : ApiKey \cup {NoKey}, left : 0..CallTime, outcome : Outcome]
KeyRecord  == [mode : KeyMode, cool : 0..(Cooldown + DisableTime),
               probe : BOOLEAN, failures : 0..FailThreshold]

PoolTyped ==
  /\ call \in [Caller -> CallRecord]
  /\ keyState \in [ApiKey -> KeyRecord]
  /\ leaseLeft \in [Caller -> 0..LeaseTtl]
  /\ cooled \in [ApiKey -> SUBSET Caller]

LEMMA TypedIsTypeOK == PoolTyped <=> PoolTypeOK
  BY DEF PoolTyped, PoolTypeOK, CallRecord, CallPlace, KeyRecord

\* What a report leaves of a key.
LEMMA ReportedType ==
  ASSUME NEW s \in KeyRecord, NEW o \in Outcome
  PROVE  Reported(s, o) \in KeyRecord
<1>1. Failures(s) \in 0..FailThreshold
  BY KeyPoolAssumption DEF Failures, KeyRecord
<1>2. {Cooldown, DisableTime, 0} \subseteq 0..(Cooldown + DisableTime)
  BY KeyPoolAssumption
<1>3. FreshKey \in KeyRecord
  BY <1>2, KeyPoolAssumption DEF FreshKey, KeyRecord, KeyMode
<1>4. [s EXCEPT !.probe = FALSE] \in KeyRecord
  BY DEF KeyRecord
<1>5. [s EXCEPT !.mode = "degraded", !.probe = FALSE, !.failures = Failures(s)] \in KeyRecord
  BY <1>1 DEF KeyRecord, KeyMode
<1>6. ASSUME NEW m \in {"cooldown", "disabled"}, NEW t \in {Cooldown, DisableTime}
      PROVE  [mode |-> m, cool |-> t, probe |-> FALSE, failures |-> Failures(s)] \in KeyRecord
  BY <1>1, <1>2, <1>6 DEF KeyRecord, KeyMode
<1> HIDE DEF Failures, KeyRecord, FreshKey
<1> QED
  BY <1>3, <1>4, <1>5, <1>6 DEF Reported, Outcome

\* How the record of a call moves.
LEMMA CallMoves ==
  ASSUME NEW r \in CallRecord, NEW a \in CallPlace, NEW k \in ApiKey, NEW o \in Outcome
  PROVE  /\ [r EXCEPT !.at = a] \in CallRecord
         /\ [r EXCEPT !.at = a, !.key = k] \in CallRecord
         /\ [r EXCEPT !.at = a, !.outcome = o] \in CallRecord
  BY DEF CallRecord

LEMMA CallAges ==
  ASSUME NEW r \in CallRecord
  PROVE  [r EXCEPT !.left = Less(@)] \in CallRecord
<1>1. Less(r.left) \in 0..CallTime
  BY KeyPoolAssumption DEF CallRecord, Less
<1> HIDE DEF Less
<1> QED
  BY <1>1 DEF CallRecord

LEMMA PoolInitTyped == PoolInit => PoolTyped
  BY KeyPoolAssumption
     DEF PoolInit, PoolTyped, NewCall, FreshKey, KeyMode, Outcome, CallRecord, CallPlace,
         KeyRecord

LEMMA PoolNextTyped == PoolTyped /\ [PoolNext]_poolVars => PoolTyped'
<1> SUFFICES ASSUME PoolTyped, [PoolNext]_poolVars PROVE PoolTyped'
  OBVIOUS
<1> USE KeyPoolAssumption DEF PoolTyped
<1>1. ASSUME NEW c \in Caller, AcquireKey(c) PROVE PoolTyped'
  <2>1. PICK k \in ApiKey :
          /\ call' = [call EXCEPT ![c] = [call[c] EXCEPT !.at = "using", !.key = k]]
          /\ leaseLeft' = [leaseLeft EXCEPT ![c] = LeaseTtl]
          /\ keyState' = [keyState EXCEPT ![k] =
               [keyState[k] EXCEPT !.mode = IF NeedsProbe(k) THEN "half_open" ELSE @,
                                   !.probe = NeedsProbe(k)]]
    BY ZenonT(60), <1>1 DEF AcquireKey
  <2>2. [call[c] EXCEPT !.at = "using", !.key = k] \in CallRecord
    BY ZenonT(30) DEF CallRecord, CallPlace
  <2>3. [keyState[k] EXCEPT !.mode = IF NeedsProbe(k) THEN "half_open" ELSE @,
                            !.probe = NeedsProbe(k)] \in KeyRecord
    BY DEF KeyRecord, KeyMode, NeedsProbe
  <2>4. keyState' \in [ApiKey -> KeyRecord]
    BY <2>1, <2>3
  <2>5. call' \in [Caller -> CallRecord] /\ leaseLeft' \in [Caller -> 0..LeaseTtl]
    BY <2>1, <2>2
  <2> QED
    BY <1>1, <2>4, <2>5 DEF AcquireKey
<1>2. ASSUME NEW c \in Caller, NEW a \in CallPlace, call' = [call EXCEPT ![c].at = a]
      PROVE  call' \in [Caller -> CallRecord]
  <2>1. [call[c] EXCEPT !.at = a] \in CallRecord
    BY DEF CallRecord
  <2> QED
    BY <1>2, <2>1
<1>3. ASSUME NEW c \in Caller, NoKeyInTime(c) \/ CancelCall(c) PROVE PoolTyped'
  BY <1>2, <1>3 DEF NoKeyInTime, CancelCall, CallPlace
<1>4. ASSUME NEW c \in Caller, Finish(c) PROVE PoolTyped'
  <2>1. PICK o \in Outcome :
          call' = [call EXCEPT ![c] = [call[c] EXCEPT !.at = "release", !.outcome = o]]
    BY <1>4 DEF Finish
  <2>2. [call[c] EXCEPT !.at = "release", !.outcome = o] \in CallRecord
    BY ZenonT(30) DEF CallRecord, CallPlace
  <2> QED
    BY <1>4, <2>1, <2>2 DEF Finish
<1>5. ASSUME NEW c \in Caller, ReleaseKey(c) PROVE PoolTyped'
  BY <1>2, <1>5 DEF ReleaseKey, CallPlace
<1>6. ASSUME NEW c \in Caller, ReportKey(c) PROVE PoolTyped'
  <2>1. call' \in [Caller -> CallRecord]
    BY <1>2, <1>6 DEF ReportKey, CallPlace
  <2>2. call[c].key \in ApiKey => Reported(keyState[call[c].key], call[c].outcome) \in KeyRecord
    BY ReportedType DEF CallRecord
  <2>3. keyState' \in [ApiKey -> KeyRecord]
    BY <1>6, <2>2 DEF ReportKey
  <2>4. cooled' \in [ApiKey -> SUBSET Caller]
    BY <1>6 DEF ReportKey
  <2> QED
    BY <1>6, <2>1, <2>3, <2>4 DEF ReportKey
<1>7. CASE PoolTick
  <2>1. \A c \in Caller : [call[c] EXCEPT !.left = Less(@)] \in CallRecord
    BY CallAges
  <2>2. call' \in [Caller -> CallRecord]
    BY <1>7, <2>1 DEF PoolTick
  <2>3. \A k \in ApiKey : [keyState[k] EXCEPT !.cool = Less(@)] \in KeyRecord
    <3>1. \A k \in ApiKey : Less(keyState[k].cool) \in 0..(Cooldown + DisableTime)
      BY DEF KeyRecord, Less
    <3> QED
      BY <3>1 DEF KeyRecord
  <2>4. keyState' \in [ApiKey -> KeyRecord]
    BY <1>7, <2>3 DEF PoolTick
  <2>5. leaseLeft' \in [Caller -> 0..LeaseTtl]
    BY <1>7 DEF PoolTick, Less
  <2> QED
    BY <1>7, <2>2, <2>4, <2>5 DEF PoolTick
<1>8. CASE UNCHANGED poolVars
  BY <1>8 DEF poolVars
<1> QED
  BY <1>1, <1>3, <1>4, <1>5, <1>6, <1>7, <1>8 DEF PoolNext

\* Every reachable state is well typed.
THEOREM PoolTypeCorrect == PoolSpec => []PoolTypeOK
<1>1. PoolSpec => []PoolTyped
  BY PoolInitTyped, PoolNextTyped, PTL DEF PoolSpec
<1> QED
  BY <1>1, TypedIsTypeOK, PTL

-----------------------------------------------------------------------------
(* Leases *)

\* A call that has no key has none; the lease of one that uses a key outlives it.
CallsLeased ==
  \A c \in Caller :
    /\ call[c].at = "new" => call[c].key = NoKey
    /\ call[c].at \in {"using", "release", "report"} => call[c].key \in ApiKey
    /\ call[c].at = "using" => leaseLeft[c] > call[c].left

LeasesBounded == \A k \in ApiKey : Cardinality(Leases(k)) <= KeyLimit

LEMMA NextCallsLeased ==
  ASSUME PoolTyped, CallsLeased, [PoolNext]_poolVars
  PROVE  CallsLeased'
<1> USE KeyPoolAssumption DEF PoolTyped, CallRecord, CallPlace, KeyRecord, CallsLeased
<1>1. ASSUME NEW c \in Caller, AcquireKey(c) PROVE CallsLeased'
  <2>1. PICK k \in ApiKey :
          /\ call' = [call EXCEPT ![c] = [call[c] EXCEPT !.at = "using", !.key = k]]
          /\ leaseLeft' = [leaseLeft EXCEPT ![c] = LeaseTtl]
    BY ZenonT(60), <1>1 DEF AcquireKey
  <2>2. call[c].left < LeaseTtl
    OBVIOUS
  <2> QED
    BY <2>1, <2>2
<1>2. ASSUME NEW c \in Caller, NoKeyInTime(c) \/ CancelCall(c) PROVE CallsLeased'
  BY SMTT(30), <1>2 DEF NoKeyInTime, CancelCall
<1>6. ASSUME NEW c \in Caller, Finish(c) PROVE CallsLeased'
  <2>1. PICK o \in Outcome :
          call' = [call EXCEPT ![c] = [call[c] EXCEPT !.at = "release", !.outcome = o]]
    BY <1>6 DEF Finish
  <2>2. call[c].at = "using" /\ leaseLeft' = leaseLeft
    BY <1>6 DEF Finish
  <2> QED
    BY <2>1, <2>2
<1>3. ASSUME NEW c \in Caller, ReleaseKey(c) \/ ReportKey(c) PROVE CallsLeased'
  BY <1>3 DEF ReleaseKey, ReportKey
<1>4. CASE PoolTick
  BY <1>4 DEF PoolTick, Less
<1>5. CASE UNCHANGED poolVars
  BY <1>5 DEF poolVars
<1> QED
  BY <1>1, <1>2, <1>3, <1>4, <1>5, <1>6 DEF PoolNext

\* Only AcquireKey adds a lease, to a key that has room.
LEMMA NextLeasesBounded ==
  ASSUME PoolTyped, CallsLeased, LeasesBounded, [PoolNext]_poolVars
  PROVE  LeasesBounded'
<1> SUFFICES ASSUME NEW k \in ApiKey PROVE Cardinality(Leases(k)') <= KeyLimit
  BY DEF LeasesBounded
<1>1. IsFiniteSet(Leases(k)) /\ Cardinality(Leases(k)) \in Nat
  BY KeyPoolAssumption, FS_Subset, FS_CardinalityType DEF Leases
<1>2. Cardinality(Leases(k)) <= KeyLimit
  BY DEF LeasesBounded
<1>3. ASSUME NEW c \in Caller, AcquireKey(c) PROVE Cardinality(Leases(k)') <= KeyLimit
  <2>1. PICK j \in ApiKey :
          /\ Best(j)
          /\ call' = [call EXCEPT ![c].at = "using", ![c].key = j]
          /\ leaseLeft' = [leaseLeft EXCEPT ![c] = LeaseTtl]
    BY <1>3 DEF AcquireKey
  <2>2. call[c].key = NoKey
    BY <1>3 DEF AcquireKey, CallsLeased
  <2>3. CASE j = k
    <3>1. Leases(k)' = Leases(k) \cup {c} /\ c \notin Leases(k)
      BY <2>1, <2>2, <2>3, KeyPoolAssumption DEF Leases, PoolTyped, CallRecord
    <3>2. Cardinality(Leases(k)) < KeyLimit
      BY <2>1, <2>3 DEF Best, HasKeyRoom
    <3>3. Cardinality(Leases(k)') = Cardinality(Leases(k)) + 1
      BY <1>1, <3>1, FS_AddElement
    <3> QED
      BY <1>1, <3>2, <3>3, KeyPoolAssumption
  <2>4. CASE j # k
    <3>1. Leases(k)' = Leases(k)
      BY <2>1, <2>2, <2>4, KeyPoolAssumption DEF Leases, PoolTyped, CallRecord
    <3> QED
      BY <1>2, <3>1
  <2> QED
    BY <2>3, <2>4
<1>4. ASSUME Leases(k)' \subseteq Leases(k) PROVE Cardinality(Leases(k)') <= KeyLimit
  <2>1. Cardinality(Leases(k)') <= Cardinality(Leases(k)) /\ Cardinality(Leases(k)') \in Nat
    BY <1>1, <1>4, FS_Subset, FS_CardinalityType
  <2> QED
    BY <1>1, <1>2, <2>1, KeyPoolAssumption
<1>5. ASSUME NEW c \in Caller,
             NoKeyInTime(c) \/ Finish(c) \/ CancelCall(c) \/ ReleaseKey(c) \/ ReportKey(c)
      PROVE  Leases(k)' \subseteq Leases(k)
  BY <1>5 DEF NoKeyInTime, Finish, CancelCall, ReleaseKey, ReportKey, Leases, PoolTyped, CallRecord
<1>6. CASE PoolTick
  BY <1>4, <1>6 DEF PoolTick, Less, Leases, PoolTyped, CallRecord
<1>7. CASE UNCHANGED poolVars
  BY <1>4, <1>7 DEF poolVars, Leases
<1> QED
  BY <1>3, <1>4, <1>5, <1>6, <1>7 DEF PoolNext

\* No key is used by more calls than its limit, whatever calls are cancelled,
\* fail to give their lease back, or are reported late.
THEOREM KeyLimitIsKept == PoolSpec => []KeyLimitKept
<1> DEFINE Inv == PoolTyped /\ CallsLeased /\ LeasesBounded
<1>1. PoolInit => Inv
  <2> SUFFICES ASSUME PoolInit PROVE CallsLeased /\ LeasesBounded
    BY PoolInitTyped
  <2>1. CallsLeased
    BY DEF PoolInit, CallsLeased, NewCall
  <2>2. \A k \in ApiKey : Leases(k) = {}
    BY DEF PoolInit, Leases
  <2> QED
    BY <2>1, <2>2, FS_EmptySet, KeyPoolAssumption DEF LeasesBounded
<1>2. Inv /\ [PoolNext]_poolVars => Inv'
  BY PoolNextTyped, NextCallsLeased, NextLeasesBounded
<1>3. Inv => KeyLimitKept
  <2> SUFFICES ASSUME Inv, NEW k \in ApiKey PROVE Cardinality(Users(k)) <= KeyLimit
    BY DEF KeyLimitKept
  <2>1. Users(k) \subseteq Leases(k)
    BY KeyPoolAssumption DEF Users, Leases, CallsLeased, PoolTyped, CallRecord
  <2>2. IsFiniteSet(Leases(k))
    BY KeyPoolAssumption, FS_Subset DEF Leases
  <2>3. /\ Cardinality(Users(k)) <= Cardinality(Leases(k))
        /\ Cardinality(Users(k)) \in Nat /\ Cardinality(Leases(k)) \in Nat
    BY <2>1, <2>2, FS_Subset, FS_CardinalityType
  <2> QED
    BY <2>3, KeyPoolAssumption DEF LeasesBounded
<1> QED
  BY <1>1, <1>2, <1>3, PTL DEF PoolSpec

-----------------------------------------------------------------------------
(* Cooldowns *)

LEMMA NextRestingKeyReturns ==
  ASSUME PoolTyped, CallsLeased, RestingKeyReturns, [PoolNext]_poolVars
  PROVE  RestingKeyReturns'
<1> USE DEF PoolTyped, CallRecord, CallPlace, KeyRecord, RestingKeyReturns
<1>1. ASSUME NEW c \in Caller, AcquireKey(c) PROVE RestingKeyReturns'
  BY <1>1 DEF AcquireKey, Best, HasKeyRoom, NeedsProbe
<1>2. ASSUME NEW c \in Caller, ReportKey(c) PROVE RestingKeyReturns'
  <2>1. call[c].key \in ApiKey /\ call[c].outcome \in Outcome
    BY <1>2 DEF ReportKey, CallsLeased
  <2>2. LET s == Reported(keyState[call[c].key], call[c].outcome) IN
        s.mode \in {"cooldown", "disabled"} => ~s.probe
    BY <2>1 DEF Reported, FreshKey, Outcome
  <2> QED
    BY <1>2, <2>1, <2>2 DEF ReportKey
<1>3. CASE PoolTick
  BY <1>3 DEF PoolTick
<1>4. CASE UNCHANGED keyState
  BY <1>4
<1> QED
  BY <1>1, <1>2, <1>3, <1>4
     DEF PoolNext, poolVars, NoKeyInTime, Finish, CancelCall, ReleaseKey

\* A key that rests can be chosen again when its time is over: no probe of
\* it is in flight, although a probe that is cancelled is never reported.
THEOREM RestingKeysReturn == PoolSpec => []RestingKeyReturns
<1> DEFINE Inv == PoolTyped /\ CallsLeased /\ RestingKeyReturns
<1>1. PoolInit => Inv
  BY PoolInitTyped
     DEF PoolInit, CallsLeased, NewCall, RestingKeyReturns, FreshKey
<1>2. Inv /\ [PoolNext]_poolVars => Inv'
  BY PoolNextTyped, NextCallsLeased, NextRestingKeyReturns
<1> QED
  BY <1>1, <1>2, PTL DEF PoolSpec

\* Whoever uses a key that rests has had it since before it went to rest.
RestersKnown ==
  \A k \in ApiKey : keyState[k].cool > 0 =>
    \A c \in Caller : call[c].key = k /\ call[c].at \in {"using", "release", "report"} =>
      c \in cooled[k]

\* What a report does to the rest of its key.
LEMMA ReportedRest ==
  ASSUME NEW s \in KeyRecord, NEW o \in Outcome
  PROVE  LET t == Reported(s, o) IN
         /\ t.mode \notin {"cooldown", "disabled"} => t.cool \in {0, s.cool}
         /\ t.cool = 0 => o = "ok" \/ s.cool = 0
  BY KeyPoolAssumption DEF Reported, FreshKey, Outcome, KeyRecord

LEMMA NextRestersKnown ==
  ASSUME PoolTyped, CallsLeased, RestersKnown, [PoolNext]_poolVars
  PROVE  RestersKnown'
<1> USE KeyPoolAssumption DEF PoolTyped, CallRecord, CallPlace, KeyRecord, RestersKnown
<1>1. ASSUME NEW c \in Caller, AcquireKey(c) PROVE RestersKnown'
  BY <1>1 DEF AcquireKey, Best, HasKeyRoom
<1>2. ASSUME NEW c \in Caller, ReportKey(c) PROVE RestersKnown'
  <2> DEFINE k == call[c].key
             t == Reported(keyState[k], call[c].outcome)
  <2>1. k \in ApiKey /\ call[c].outcome \in Outcome
    BY <1>2 DEF ReportKey, CallsLeased
  <2>2. t.mode \notin {"cooldown", "disabled"} => t.cool \in {0, keyState[k].cool}
    BY <2>1, ReportedRest
  <2>3. keyState' = [keyState EXCEPT ![k] = t] /\ call' = [call EXCEPT ![c].at = "done"]
    BY <1>2 DEF ReportKey
  <2>4. cooled' = IF t.mode \in {"cooldown", "disabled"}
                  THEN [cooled EXCEPT ![k] = {b \in Caller \ {c} : call[b].key = k}]
                  ELSE cooled
    BY <1>2 DEF ReportKey
  <2> HIDE DEF t
  <2> QED
    BY <2>1, <2>2, <2>3, <2>4
<1>3. ASSUME NEW c \in Caller,
             NoKeyInTime(c) \/ Finish(c) \/ CancelCall(c) \/ ReleaseKey(c)
      PROVE  RestersKnown'
  BY <1>3 DEF NoKeyInTime, Finish, CancelCall, ReleaseKey
<1>4. CASE PoolTick
  BY <1>4 DEF PoolTick, Less
<1>5. CASE UNCHANGED poolVars
  BY <1>5 DEF poolVars
<1> QED
  BY <1>1, <1>2, <1>3, <1>4, <1>5 DEF PoolNext

LEMMA StepKeepsCooldown ==
  ASSUME PoolTyped, CallsLeased, RestersKnown, [PoolNext]_poolVars,
         NEW k \in ApiKey, keyState[k].cool > 1, keyState'[k].cool = 0
  PROVE  \E c \in cooled[k] : call[c].at = "report" /\ call[c].outcome = "ok"
<1> USE KeyPoolAssumption DEF PoolTyped, CallRecord, CallPlace, KeyRecord
<1>1. ASSUME NEW c \in Caller, AcquireKey(c) PROVE FALSE
  BY <1>1 DEF AcquireKey
<1>2. CASE PoolTick
  BY <1>2 DEF PoolTick, Less
<1>3. CASE UNCHANGED keyState
  BY <1>3
<1>4. ASSUME NEW c \in Caller, ReportKey(c)
      PROVE  c \in cooled[k] /\ call[c].at = "report" /\ call[c].outcome = "ok"
  <2>1. call[c].at = "report" /\ call[c].key \in ApiKey /\ call[c].outcome \in Outcome
    BY <1>4 DEF ReportKey, CallsLeased
  <2>2. call[c].key = k
    BY <1>4, <2>1 DEF ReportKey
  <2>3. Reported(keyState[k], call[c].outcome).cool = 0
    BY <1>4, <2>2 DEF ReportKey
  <2>4. call[c].outcome = "ok"
    BY <2>1, <2>3, ReportedRest
  <2> QED
    BY <2>1, <2>2, <2>4 DEF RestersKnown
<1> QED
  BY <1>1, <1>2, <1>3, <1>4
     DEF PoolNext, poolVars, NoKeyInTime, Finish, CancelCall, ReleaseKey

\* A rest is cut short only by the success of a call that had the key before.
THEOREM CooldownsAreKept == PoolSpec => CooldownKept
<1> DEFINE Inv == PoolTyped /\ CallsLeased /\ RestersKnown
<1>1. PoolInit => Inv
  BY PoolInitTyped, KeyPoolAssumption
     DEF PoolInit, CallsLeased, NewCall, RestersKnown, FreshKey
<1>2. Inv /\ [PoolNext]_poolVars => Inv'
  BY PoolNextTyped, NextCallsLeased, NextRestersKnown
<1>3. Inv /\ [PoolNext]_poolVars =>
        [\A k \in ApiKey : keyState[k].cool > 1 /\ keyState'[k].cool = 0 =>
           \E c \in cooled[k] : call[c].at = "report" /\ call[c].outcome = "ok"]_poolVars
  BY StepKeepsCooldown
<1> QED
  BY <1>1, <1>2, <1>3, PTL DEF PoolSpec, CooldownKept

-----------------------------------------------------------------------------
(* Slots *)

\* The members are finitely many.
LEMMA MembersFinite == IsFiniteSet(Member)
<1> DEFINE f == [h \in Handler |-> MemberOf[h]]
<1>1. f \in Surjection(Handler, Member)
  BY DEF Surjection, Member
<1> QED
  BY <1>1, SlotAssumption, FS_Surjection

LEMMA SlotInitTyped == SlotInit => SlotTypeOK
  BY SlotAssumption DEF SlotInit, SlotTypeOK

LEMMA SlotNextTyped == SlotTypeOK /\ [SlotNext]_slotVars => SlotTypeOK'
<1> SUFFICES ASSUME SlotTypeOK, [SlotNext]_slotVars PROVE SlotTypeOK'
  OBVIOUS
<1> USE SlotAssumption DEF SlotTypeOK
<1>1. ASSUME NEW h \in Handler, AcquireSlot(h) \/ RenewSlot(h) PROVE SlotTypeOK'
  BY <1>1 DEF AcquireSlot, RenewSlot
<1>2. ASSUME NEW h \in Handler, SlotTimeout(h) \/ EndWork(h) \/ LoseSlot(h) PROVE SlotTypeOK'
  BY <1>2 DEF SlotTimeout, EndWork, LoseSlot
<1>3. ASSUME NEW h \in Handler, MissRenewal(h) PROVE SlotTypeOK'
  BY <1>3 DEF MissRenewal
<1>4. ASSUME NEW h \in Handler, ReleaseSlot(h) PROVE SlotTypeOK'
  BY <1>4 DEF ReleaseSlot, Member
<1>5. CASE SlotTick
  BY <1>5 DEF SlotTick
<1>6. CASE UNCHANGED slotVars
  BY <1>6 DEF slotVars
<1> QED
  BY <1>1, <1>2, <1>3, <1>4, <1>5, <1>6 DEF SlotNext

-----------------------------------------------------------------------------
(* Why a slot is lost *)

Shared(m) == \E h, i \in Handler : h # i /\ MemberOf[h] = m /\ MemberOf[i] = m

\* Who works under a member has it, unless its loss is on record.
WorkersHold ==
  \A h \in Handler : slotAt[h] \in {"work", "unrenewed"} =>
    MemberOf[h] \in unslotted \/ expires[MemberOf[h]] > 0

\* As long as a review's renewals came, the next one comes before its slot expires.
RenewalAhead ==
  \A h \in Renewing \ missed : slotAt[h] \in {"work", "unrenewed"} /\ ~Shared(MemberOf[h]) =>
    slotAt[h] = "work" /\ expires[MemberOf[h]] > renewIn[h]

LEMMA NextWorkersHold ==
  ASSUME SlotTypeOK, WorkersHold, [SlotNext]_slotVars
  PROVE  WorkersHold'
<1> USE SlotAssumption DEF SlotTypeOK, WorkersHold
<1>1. ASSUME NEW h \in Handler, AcquireSlot(h) \/ RenewSlot(h) PROVE WorkersHold'
  BY <1>1 DEF AcquireSlot, RenewSlot, Member
<1>2. ASSUME NEW h \in Handler,
             SlotTimeout(h) \/ EndWork(h) \/ LoseSlot(h) \/ MissRenewal(h)
      PROVE  WorkersHold'
  BY <1>2 DEF SlotTimeout, EndWork, LoseSlot, MissRenewal
<1>3. ASSUME NEW h \in Handler, ReleaseSlot(h) PROVE WorkersHold'
  BY <1>3 DEF ReleaseSlot, Member, Working
<1>4. CASE SlotTick
  <2> SUFFICES ASSUME NEW h \in Handler, slotAt[h] \in {"work", "unrenewed"}
               PROVE  MemberOf[h] \in unslotted' \/ expires'[MemberOf[h]] > 0
    BY <1>4 DEF SlotTick
  <2>1. MemberOf[h] \in Member /\ Working(MemberOf[h]) # {}
    BY DEF Member, Working
  <2>2. CASE expires[MemberOf[h]] = 1
    BY <1>4, <2>1, <2>2 DEF SlotTick
  <2>3. CASE expires[MemberOf[h]] > 1
    BY <1>4, <2>1, <2>3 DEF SlotTick
  <2>4. CASE MemberOf[h] \in unslotted
    BY <1>4, <2>4 DEF SlotTick
  <2> QED
    BY <2>1, <2>2, <2>3, <2>4
<1>5. CASE UNCHANGED slotVars
  BY <1>5 DEF slotVars
<1> QED
  BY <1>1, <1>2, <1>3, <1>4, <1>5 DEF SlotNext

LEMMA NextRenewalAhead ==
  ASSUME SlotTypeOK, RenewalAhead, [SlotNext]_slotVars
  PROVE  RenewalAhead'
<1> USE SlotAssumption DEF SlotTypeOK, RenewalAhead
<1>1. \A h, i \in Handler : i # h /\ MemberOf[i] = MemberOf[h] => Shared(MemberOf[h])
  BY DEF Shared
<1>2. ASSUME NEW h \in Handler, AcquireSlot(h) \/ RenewSlot(h) PROVE RenewalAhead'
  BY <1>1, <1>2 DEF AcquireSlot, RenewSlot, Member
<1>3. ASSUME NEW h \in Handler,
             SlotTimeout(h) \/ EndWork(h) \/ LoseSlot(h) \/ MissRenewal(h)
      PROVE  RenewalAhead'
  BY <1>3 DEF SlotTimeout, EndWork, LoseSlot, MissRenewal
<1>4. ASSUME NEW h \in Handler, ReleaseSlot(h) PROVE RenewalAhead'
  BY <1>1, <1>4 DEF ReleaseSlot, Member
<1>5. CASE SlotTick
  <2> SUFFICES ASSUME NEW h \in Renewing, h \notin missed', slotAt[h] \in {"work", "unrenewed"},
                      ~Shared(MemberOf[h])
               PROVE  slotAt[h] = "work" /\ expires'[MemberOf[h]] > renewIn'[h]
    BY <1>5 DEF SlotTick
  <2>1. h \notin missed /\ ~(slotAt[h] = "work" /\ renewIn[h] = 0)
    BY <1>5 DEF SlotTick
  <2>2. slotAt[h] = "work" /\ expires[MemberOf[h]] > renewIn[h] /\ renewIn[h] # 0
    BY <2>1
  <2>3. MemberOf[h] \in Member /\ h \in Handler
    BY DEF Member
  <2> QED
    BY <1>5, <2>2, <2>3 DEF SlotTick
<1>6. CASE UNCHANGED slotVars
  BY <1>6 DEF slotVars
<1> QED
  BY <1>2, <1>3, <1>4, <1>5, <1>6 DEF SlotNext

LEMMA NextLossExplained ==
  ASSUME SlotTypeOK, RenewalAhead, LossExplained, [SlotNext]_slotVars
  PROVE  LossExplained'
<1> USE SlotAssumption DEF SlotTypeOK, LossExplained
<1>1. ASSUME NEW h \in Handler, ReleaseSlot(h) PROVE LossExplained'
  <2>1. Working(MemberOf[h]) # {} => \E i \in Handler : i # h /\ MemberOf[i] = MemberOf[h]
    BY <1>1 DEF ReleaseSlot, Working
  <2> QED
    BY <1>1, <2>1 DEF ReleaseSlot
<1>2. CASE SlotTick
  <2> SUFFICES ASSUME NEW m \in Member, expires[m] = 1, Working(m) # {},
                      \A h \in missed' : MemberOf[h] # m, Renewed(m), ~Shared(m)
               PROVE  FALSE
    BY <1>2 DEF SlotTick, Shared, Renewed
  <2>1. PICK h \in Renewing : MemberOf[h] = m
    BY DEF Renewed
  <2>2. slotAt[h] \in {"work", "unrenewed"}
    BY <2>1 DEF Working, Shared
  <2>3. h \notin missed /\ ~(slotAt[h] = "work" /\ renewIn[h] = 0)
    BY <1>2, <2>1 DEF SlotTick
  <2>4. slotAt[h] = "work" /\ expires[m] > renewIn[h]
    BY <2>1, <2>2, <2>3 DEF RenewalAhead
  <2> QED
    BY <2>2, <2>3, <2>4
<1>3. CASE UNCHANGED unslotted /\ missed \subseteq missed'
  BY <1>3 DEF Renewed
<1>4. ASSUME NEW h \in Handler,
             \/ AcquireSlot(h) \/ SlotTimeout(h) \/ RenewSlot(h) \/ MissRenewal(h)
             \/ EndWork(h) \/ LoseSlot(h)
      PROVE  UNCHANGED unslotted /\ missed \subseteq missed'
  BY <1>4 DEF AcquireSlot, SlotTimeout, RenewSlot, MissRenewal, EndWork, LoseSlot
<1>5. UNCHANGED slotVars => UNCHANGED unslotted /\ missed \subseteq missed'
  BY DEF slotVars
<1> QED
  BY <1>1, <1>2, <1>3, <1>4, <1>5 DEF SlotNext

-----------------------------------------------------------------------------
(* The limit *)

\* The members that are there and never lost a worker's slot fit the limit.
SoundSlots ==
  \A m \in Member : Cardinality(Held(m) \ unslotted) <= SlotLimit

LEMMA NextSoundSlots ==
  ASSUME SlotTypeOK, WorkersHold, SoundSlots, [SlotNext]_slotVars
  PROVE  SoundSlots'
<1> SUFFICES ASSUME NEW m \in Member
             PROVE  Cardinality((Held(m) \ unslotted)') <= SlotLimit
  BY DEF SoundSlots
<1>1. /\ IsFiniteSet(Held(m)) /\ IsFiniteSet(Held(m) \ unslotted)
      /\ Cardinality(Held(m)) \in Nat /\ Cardinality(Held(m) \ unslotted) \in Nat
  BY MembersFinite, FS_Subset, FS_CardinalityType DEF Held, Rivals
<1>2. Cardinality(Held(m) \ unslotted) <= SlotLimit
  BY DEF SoundSlots
<1>3. ASSUME (Held(m) \ unslotted)' \subseteq Held(m) \ unslotted
      PROVE  Cardinality((Held(m) \ unslotted)') <= SlotLimit
  <2>1. /\ Cardinality((Held(m) \ unslotted)') <= Cardinality(Held(m) \ unslotted)
        /\ Cardinality((Held(m) \ unslotted)') \in Nat
    BY <1>1, <1>3, FS_Subset, FS_CardinalityType
  <2> QED
    BY <1>1, <1>2, <2>1, SlotAssumption
<1>4. ASSUME NEW h \in Handler, AcquireSlot(h)
      PROVE  Cardinality((Held(m) \ unslotted)') <= SlotLimit
  <2> DEFINE n == MemberOf[h]
  <2>1. /\ n \in Member /\ unslotted' = unslotted
        /\ expires' = [expires EXCEPT ![n] = SlotTtl]
        /\ expires[n] > 0 \/ Cardinality(Held(n)) < SlotLimit
    BY <1>4 DEF AcquireSlot, Member
  <2>2. CASE n \in Rivals(m) /\ expires[n] = 0
    <3>1. Held(n) = Held(m)
      BY <2>2 DEF Held, Rivals
    <3>2. (Held(m) \ unslotted)' \subseteq Held(m) \cup {n}
      BY <2>1, <2>2 DEF Held, Rivals, SlotTypeOK
    <3>3. Cardinality(Held(m) \cup {n}) = Cardinality(Held(m)) + 1 /\ IsFiniteSet(Held(m) \cup {n})
      <4>1. n \notin Held(m)
        BY <2>2 DEF Held
      <4> HIDE DEF n
      <4> QED
        BY <1>1, <4>1, FS_AddElement
    <3>4. /\ Cardinality((Held(m) \ unslotted)') <= Cardinality(Held(m) \cup {n})
          /\ Cardinality((Held(m) \ unslotted)') \in Nat
      BY <3>2, <3>3, FS_Subset, FS_CardinalityType
    <3>5. Cardinality(Held(m)) < SlotLimit
      BY <2>1, <2>2, <3>1
    <3> QED
      BY <1>1, <3>3, <3>4, <3>5, SlotAssumption
  <2>3. CASE n \notin Rivals(m) \/ expires[n] > 0
    <3>1. Held(m)' \subseteq Held(m)
      BY <2>1, <2>3 DEF Held, Rivals, Renewed, SlotTypeOK
    <3> QED
      BY <1>3, <2>1, <3>1
  <2>4. expires[n] \in Nat
    BY <2>1, SlotAssumption DEF SlotTypeOK
  <2> QED
    BY <2>2, <2>3, <2>4
<1>5. ASSUME NEW h \in Handler, RenewSlot(h)
      PROVE  (Held(m) \ unslotted)' \subseteq Held(m) \ unslotted
  BY <1>5 DEF RenewSlot, Held, Rivals, Renewed, SlotTypeOK, WorkersHold
<1>6. ASSUME NEW h \in Handler,
             \/ SlotTimeout(h) \/ MissRenewal(h) \/ EndWork(h) \/ LoseSlot(h)
             \/ ReleaseSlot(h)
      PROVE  (Held(m) \ unslotted)' \subseteq Held(m) \ unslotted
  BY <1>6 DEF SlotTimeout, MissRenewal, EndWork, LoseSlot, ReleaseSlot,
              Held, Rivals, Renewed, SlotTypeOK
<1>7. CASE SlotTick
  <2>1. Held(m)' \subseteq Held(m) /\ unslotted \subseteq unslotted'
    BY <1>7, SlotAssumption DEF SlotTick, Held, Rivals, Renewed, SlotTypeOK
  <2> QED
    BY <1>3, <2>1
<1>8. CASE UNCHANGED slotVars
  <2>1. (Held(m) \ unslotted)' \subseteq Held(m) \ unslotted
    BY <1>8 DEF slotVars, Held, Rivals, Renewed
  <2> QED
    BY <1>3, <2>1
<1> QED
  BY <1>3, <1>4, <1>5, <1>6, <1>7, <1>8 DEF SlotNext

\* However renewals stall, processes die and duplicate deliveries share a slot:
\* the limit is exceeded only by work whose slot went away, and no slot goes
\* away without a missed renewal or another handler of the same process.
THEOREM SlotsAreKept == SlotSpec => []SlotsKept
<1> DEFINE Inv == SlotTypeOK /\ WorkersHold /\ RenewalAhead /\ LossExplained /\ SoundSlots
<1>1. SlotInit => Inv
  <2> SUFFICES ASSUME SlotInit
               PROVE  WorkersHold /\ RenewalAhead /\ LossExplained /\ SoundSlots
    BY SlotInitTyped
  <2>1. \A h \in Handler : slotAt[h] \in {"wait", "gone"}
    BY DEF SlotInit
  <2>2. WorkersHold /\ RenewalAhead /\ LossExplained
    BY <2>1, SlotAssumption DEF SlotInit, WorkersHold, RenewalAhead, LossExplained
  <2>3. \A m \in Member : Held(m) \ unslotted = {}
    BY DEF SlotInit, Held, Rivals
  <2>4. \A m \in Member : Cardinality(Held(m) \ unslotted) = 0
    BY <2>3, FS_EmptySet
  <2> QED
    BY <2>2, <2>4, SlotAssumption DEF SoundSlots
<1>2. Inv /\ [SlotNext]_slotVars => Inv'
  BY SlotNextTyped, NextWorkersHold, NextRenewalAhead, NextLossExplained, NextSoundSlots
<1>3. Inv => SlotsKept
  <2> SUFFICES ASSUME Inv, NEW m \in Member
               PROVE  Cardinality({n \in Rivals(m) : Working(n) # {}})
                        <= SlotLimit + Cardinality(unslotted \cap Rivals(m))
    BY DEF SlotsKept
  <2> DEFINE W == {n \in Rivals(m) : Working(n) # {}}
             S == Held(m) \ unslotted
             U == unslotted \cap Rivals(m)
  <2>1. W \subseteq S \cup U
    BY DEF Held, Working, WorkersHold
  <2>2. IsFiniteSet(S) /\ IsFiniteSet(U)
    BY MembersFinite, FS_Subset DEF Held, Rivals
  <2>3. S \cap U = {}
    OBVIOUS
  <2>4. Cardinality(S) <= SlotLimit
    BY DEF SoundSlots
  <2> HIDE DEF W, S, U
  <2>5. IsFiniteSet(S \cup U) /\ Cardinality(S \cup U) = Cardinality(S) + Cardinality(U)
    <3>1. Cardinality(S \cap U) = 0
      BY <2>3, FS_EmptySet
    <3>2. Cardinality(S) \in Nat /\ Cardinality(U) \in Nat
      BY <2>2, FS_CardinalityType
    <3>3. /\ IsFiniteSet(S \cup U)
          /\ Cardinality(S \cup U) = Cardinality(S) + Cardinality(U) - Cardinality(S \cap U)
      BY <2>2, FS_Union
    <3> QED
      BY <3>1, <3>2, <3>3
  <2>6. /\ Cardinality(W) <= Cardinality(S \cup U)
        /\ Cardinality(W) \in Nat
    BY <2>1, <2>5, FS_Subset, FS_CardinalityType
  <2>7. Cardinality(S) \in Nat /\ Cardinality(U) \in Nat
    BY <2>2, FS_CardinalityType
  <2>8. Cardinality(W) <= SlotLimit + Cardinality(U)
    BY <2>4, <2>5, <2>6, <2>7, SlotAssumption
  <2> QED
    BY <2>8 DEF W, U
<1> QED
  BY <1>1, <1>2, <1>3, PTL DEF SlotSpec

-----------------------------------------------------------------------------
(* The pacing of model calls *)

\* A call that has a token, or waits for the time of its token, and whose time
\* is not long over.
Timed(t) == token[t] \in {"sleep", "granted"} /\ reserved[t] > -Interval

\* The cursor is an interval behind every such time, and its key lives until then.
CursorLeads ==
  \A t \in Taker : Timed(t) =>
    /\ reserved[t] + Interval <= cursor
    /\ reserved[t] + Interval <= keyLeft

LEMMA QpmInitTyped == QpmInit => QpmTypeOK
  BY QpmAssumption DEF QpmInit, QpmTypeOK

LEMMA QpmNextTyped == QpmTypeOK /\ [QpmNext]_qpmVars => QpmTypeOK'
<1> SUFFICES ASSUME QpmTypeOK, [QpmNext]_qpmVars PROVE QpmTypeOK'
  OBVIOUS
<1> USE QpmAssumption DEF QpmTypeOK
<1>1. ASSUME NEW t \in Taker, Reserve(t) PROVE QpmTypeOK'
  BY <1>1 DEF Reserve
<1>2. ASSUME NEW t \in Taker, Wake(t) \/ CancelSleep(t) PROVE QpmTypeOK'
  BY <1>2 DEF Wake, CancelSleep
<1>3. CASE QpmTick
  BY <1>3 DEF QpmTick
<1>4. CASE UNCHANGED qpmVars
  BY <1>4 DEF qpmVars
<1> QED
  BY <1>1, <1>2, <1>3, <1>4 DEF QpmNext

LEMMA NextCursorLeads ==
  ASSUME QpmTypeOK, CursorLeads, [QpmNext]_qpmVars
  PROVE  CursorLeads'
<1> USE QpmAssumption DEF QpmTypeOK, CursorLeads, Timed
<1>1. ASSUME NEW t \in Taker, Reserve(t) PROVE CursorLeads'
  BY <1>1 DEF Reserve
<1>2. ASSUME NEW t \in Taker, Wake(t) \/ CancelSleep(t) PROVE CursorLeads'
  BY <1>2 DEF Wake, CancelSleep
<1>3. CASE QpmTick
  BY <1>3 DEF QpmTick
<1>4. CASE UNCHANGED qpmVars
  BY <1>4 DEF qpmVars
<1> QED
  BY <1>1, <1>2, <1>3, <1>4 DEF QpmNext

LEMMA NextTokensSpaced ==
  ASSUME QpmTypeOK, CursorLeads, TokensSpaced, [QpmNext]_qpmVars
  PROVE  TokensSpaced'
<1> USE QpmAssumption DEF QpmTypeOK, TokensSpaced, Apart
<1>1. ASSUME NEW t \in Taker, Reserve(t) PROVE TokensSpaced'
  BY <1>1 DEF Reserve, CursorLeads, Timed
<1>2. ASSUME NEW t \in Taker, Wake(t) \/ CancelSleep(t) PROVE TokensSpaced'
  BY <1>2 DEF Wake, CancelSleep
<1>3. CASE QpmTick
  BY <1>3 DEF QpmTick
<1>4. CASE UNCHANGED qpmVars
  BY <1>4 DEF qpmVars
<1> QED
  BY <1>1, <1>2, <1>3, <1>4 DEF QpmNext

\* No two calls get a token closer to each other than the interval, although
\* calls give up after they moved the cursor and the cursor's key expires:
\* its TTL is longer than the longest wait and an interval.
THEOREM TokensAreSpaced == QpmSpec => []TokensSpaced
<1> DEFINE Inv == QpmTypeOK /\ CursorLeads /\ TokensSpaced
<1>1. QpmInit => Inv
  BY QpmInitTyped DEF QpmInit, CursorLeads, Timed, TokensSpaced
<1>2. Inv /\ [QpmNext]_qpmVars => Inv'
  BY QpmNextTyped, NextCursorLeads, NextTokensSpaced
<1> QED
  BY <1>1, <1>2, PTL DEF QpmSpec

-----------------------------------------------------------------------------
(* The composition *)

\* Every reachable state of each component is well typed.
THEOREM CreateTypeCorrect == CreateSpec => []CreateTypeOK
<1> DEFINE Inv == CreateTypeOK /\ Places
<1>1. CreateInit => Inv
  BY CreateInitTyped DEF CreateInit, Places, Holding
<1>2. Inv /\ [CreateNext]_createVars => Inv'
  BY CreateNextTyped, NextPlaces
<1> QED
  BY <1>1, <1>2, PTL DEF CreateSpec

THEOREM SlotTypeCorrect == SlotSpec => []SlotTypeOK
  BY SlotInitTyped, SlotNextTyped, PTL DEF SlotSpec

THEOREM QpmTypeCorrect == QpmSpec => []QpmTypeOK
  BY QpmInitTyped, QpmNextTyped, PTL DEF QpmSpec

\* A behaviour of the four components together is one of each: the one that
\* moves makes a step of its own, and the others stutter.
LEMMA PlatformHasParts == PlatformSpec => CreateSpec /\ PoolSpec /\ SlotSpec /\ QpmSpec
<1>1. PlatformInit => CreateInit /\ PoolInit /\ SlotInit /\ QpmInit
  BY DEF PlatformInit
<1>2. [PlatformNext]_<<part, createVars, poolVars, slotVars, qpmVars>>
        => /\ [CreateNext]_createVars /\ [PoolNext]_poolVars
           /\ [SlotNext]_slotVars /\ [QpmNext]_qpmVars
  BY DEF PlatformNext
<1> QED
  BY <1>1, <1>2, PTL DEF PlatformSpec, CreateSpec, PoolSpec, SlotSpec, QpmSpec

\* Every reachable state of the four together is well typed.
THEOREM PlatformTypeCorrect == PlatformSpec => []PlatformTypeOK
<1>1. CreateTypeOK /\ PoolTypeOK /\ SlotTypeOK /\ QpmTypeOK => PlatformTypeOK
  BY DEF PlatformTypeOK
<1> QED
  BY <1>1, PlatformHasParts, CreateTypeCorrect, PoolTypeCorrect, SlotTypeCorrect, QpmTypeCorrect, PTL

\* The properties of the components hold of the four together, whatever the
\* interleaving of their processes with those of another component.
COROLLARY PlatformIsSafe ==
  PlatformSpec => /\ [](LockFileOwned /\ AnsweredIsServed)
                  /\ [](KeyLimitKept /\ RestingKeyReturns)
                  /\ [](SlotsKept /\ TokensSpaced)
                  /\ CooldownKept
  BY PlatformHasParts, LockFileIsOwned, AnswersAreServed, KeyLimitIsKept, RestingKeysReturn,
     SlotsAreKept, TokensAreSpaced, CooldownsAreKept, PTL
=============================================================================
