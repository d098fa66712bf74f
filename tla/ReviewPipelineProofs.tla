------------------------ MODULE ReviewPipelineProofs ------------------------
(***************************************************************************)
(* Theorems about ReviewPipeline for every value of its constants.  The    *)
(* type invariant is proved in three parts, one per group of variables:    *)
(* what the handlers do, what the Redis structures hold, and what is       *)
(* recorded about the reviews.                                             *)
(***************************************************************************)
EXTENDS ReviewPipeline, FiniteSetTheorems, TLAPS

Label == {"idle", "claimed", "start", "work", "inline", "enqueued", "retry",
          "scheduled", "finish", "notify", "ack", "rescue", "deadletter"}

\* A handler is idle exactly when it holds nothing, and knows its outcome
\* whenever it writes or reports one.
HandlersOK ==
  /\ pc \in [Handler -> Label]
  /\ held \in [Handler -> Entry \cup {NoEntry}]
  /\ goal \in [Handler -> Terminal \cup {"none"}]
  /\ past \in [Handler -> BOOLEAN]
  /\ \A w \in Handler :
       /\ pc[w] = "idle" <=> held[w] = NoEntry
       /\ pc[w] \in {"finish", "notify"} => goal[w] \in Terminal

QueuesOK ==
  /\ stream \subseteq Entry /\ pel \subseteq Entry /\ delayed \subseteq Entry
  /\ dead \subseteq Review

JobsOK ==
  /\ file \in [Review -> Status \cup {"none"}]
  /\ db \in [Review -> Status \cup {"none"}]
  /\ decided \in [Review -> SUBSET Terminal]
  /\ callbacks \in [Review -> SUBSET Terminal]

EnvOK ==
  /\ api \in [Review -> {"new", "created", "persisted", "accepted", "local", "failed"}]
  /\ expired \in [Review -> BOOLEAN]
  /\ marked \subseteq Review
  /\ crashes \in 0..MaxCrashes

Typed == HandlersOK /\ QueuesOK /\ JobsOK /\ EnvOK

LEMMA TypedImpliesTypeOK == Typed => TypeOK
  BY DEF Typed, TypeOK, HandlersOK, QueuesOK, JobsOK, EnvOK, Label

-----------------------------------------------------------------------------
(* How the helper operators move a handler. *)

LEMMA GotoOK ==
  ASSUME HandlersOK, NEW w \in Handler, held[w] # NoEntry,
         NEW l \in Label \ {"idle"}, Goto(w, l),
         l \in {"finish", "notify"} => goal[w] \in Terminal
  PROVE  HandlersOK'
  BY DEF HandlersOK, Goto

LEMMA ReleaseOK ==
  ASSUME HandlersOK, NEW w \in Handler, Release(w)
  PROVE  HandlersOK'
  BY DEF HandlersOK, Release, Label

LEMMA ConcludeOK ==
  ASSUME HandlersOK, NEW w \in Handler, held[w] # NoEntry,
         NEW t \in Terminal, Conclude(w, t)
  PROVE  HandlersOK'
  BY DEF HandlersOK, Conclude, Label

LEMMA EscapeOK ==
  ASSUME HandlersOK, NEW w \in Handler, held[w] # NoEntry, Escape(w)
  PROVE  HandlersOK'
<1>1. CASE Release(w)
  BY <1>1, ReleaseOK
<1>2. CASE Goto(w, "deadletter")
  BY <1>2, GotoOK DEF Label
<1>3. CASE Goto(w, "rescue")
  BY <1>3, GotoOK DEF Label
<1> QED
  BY <1>1, <1>2, <1>3 DEF Escape

LEMMA TakeOK ==
  ASSUME HandlersOK, NEW w \in Handler, NEW e \in Entry, Take(w, e)
  PROVE  HandlersOK'
  BY PipelineAssumption DEF HandlersOK, Take, Label

\* The entry a busy handler holds.
LEMMA HeldEntry ==
  ASSUME HandlersOK, NEW w \in Handler, held[w] # NoEntry
  PROVE  /\ held[w] \in Entry
         /\ ReviewOf(w) \in Review
         /\ StageOf(w) \in Stage
         /\ held[w].dl \in 0..DownloadRetries
  BY DEF HandlersOK, Entry, ReviewOf, StageOf

\* A fresh entry for a review, as XADD and ZADD create it.
LEMMA FreshEntry ==
  ASSUME NEW i \in FreshId, NEW r \in Review, NEW s \in Stage, NEW d \in 0..DownloadRetries
  PROVE  [id |-> i, review |-> r, stage |-> s, dl |-> d] \in Entry
  BY DEF FreshId, Entry

LEMMA DelayOK ==
  ASSUME HandlersOK, delayed \subseteq Entry, NEW w \in Handler, held[w] # NoEntry,
         NEW s \in Stage, NEW d \in 0..DownloadRetries, Delay(w, s, d)
  PROVE  delayed' \subseteq Entry
  BY HeldEntry, FreshEntry DEF Delay

-----------------------------------------------------------------------------
(* Type correctness. *)

LEMMA InitTyped == Init => Typed
  BY PipelineAssumption
     DEF Init, Typed, HandlersOK, QueuesOK, JobsOK, EnvOK, Label, Status, Live

LEMMA NextTyped == Typed /\ [Next]_vars => Typed'
<1> SUFFICES ASSUME Typed, [Next]_vars PROVE Typed'
  OBVIOUS
<1> USE DEF Typed
<1>1. ASSUME NEW r \in Review, Create(r) PROVE Typed'
  <2>1. HandlersOK'
    BY <1>1 DEF Create, HandlersOK, handlerVars
  <2>2. QueuesOK'
    BY <1>1 DEF Create, QueuesOK, queueVars
  <2>3. JobsOK'
    BY <1>1 DEF Create, JobsOK, jobVars, Status, Live
  <2>4. EnvOK'
    BY <1>1 DEF Create, EnvOK, envVars
  <2> QED
    BY <2>1, <2>2, <2>3, <2>4 DEF Typed
<1>2. ASSUME NEW r \in Review, PersistCreated(r) PROVE Typed'
  <2>1. HandlersOK'
    BY <1>2 DEF PersistCreated, HandlersOK, handlerVars
  <2>2. QueuesOK'
    BY <1>2 DEF PersistCreated, QueuesOK, queueVars
  <2>3. JobsOK'
    BY <1>2 DEF PersistCreated, JobsOK, jobVars, Status, Live
  <2>4. EnvOK'
    BY <1>2 DEF PersistCreated, EnvOK, envVars
  <2> QED
    BY <2>1, <2>2, <2>3, <2>4 DEF Typed
<1>3. ASSUME NEW r \in Review, Enqueue(r) PROVE Typed'
  <2>1. HandlersOK'
    BY <1>3 DEF Enqueue, HandlersOK, handlerVars
  <2>2. QueuesOK'
    BY <1>3, FreshEntry, PipelineAssumption
       DEF Enqueue, QueuesOK, queueVars, Stage
  <2>3. JobsOK'
    BY <1>3 DEF Enqueue, JobsOK, jobVars
  <2>4. EnvOK'
    BY <1>3 DEF Enqueue, EnvOK, envVars
  <2> QED
    BY <2>1, <2>2, <2>3, <2>4 DEF Typed
<1>4. ASSUME NEW r \in Review, NEW w \in Handler, RunInProcess(r, w) PROVE Typed'
  <2>1. HandlersOK'
    BY <1>4, PipelineAssumption
       DEF RunInProcess, HandlersOK, handlerVars, Label, Entry, Stage
  <2>2. QueuesOK'
    BY <1>4 DEF RunInProcess, QueuesOK, queueVars
  <2>3. JobsOK'
    BY <1>4 DEF RunInProcess, JobsOK, jobVars
  <2>4. EnvOK'
    BY <1>4 DEF RunInProcess, EnvOK, envVars
  <2> QED
    BY <2>1, <2>2, <2>3, <2>4 DEF Typed
<1>5. ASSUME NEW r \in Review, Cancel(r) PROVE Typed'
  <2>1. HandlersOK'
    BY <1>5 DEF Cancel, HandlersOK, handlerVars
  <2>2. QueuesOK'
    BY <1>5 DEF Cancel, QueuesOK, queueVars
  <2>3. JobsOK'
    BY <1>5 DEF Cancel, JobsOK, jobVars, Record, Status, Terminal, Live
  <2>4. EnvOK'
    BY <1>5 DEF Cancel, EnvOK, envVars
  <2> QED
    BY <2>1, <2>2, <2>3, <2>4 DEF Typed
<1>6. ASSUME NEW w \in Handler, Dequeue(w) PROVE Typed'
  <2>1. HandlersOK'
    BY <1>6, TakeOK DEF Dequeue, HandlersOK, handlerVars, QueuesOK
  <2>2. QueuesOK'
    BY <1>6, HeldEntry DEF Dequeue, QueuesOK, queueVars, Take
  <2>3. JobsOK'
    BY <1>6, HeldEntry DEF Dequeue, JobsOK, jobVars, Take
  <2>4. EnvOK'
    BY <1>6 DEF Dequeue, EnvOK, envVars, Take
  <2> QED
    BY <2>1, <2>2, <2>3, <2>4 DEF Typed
<1>7. ASSUME NEW w \in Handler, Reclaim(w) PROVE Typed'
  <2>1. HandlersOK'
    BY <1>7, TakeOK DEF Reclaim, HandlersOK, handlerVars, QueuesOK
  <2>2. QueuesOK'
    BY <1>7, HeldEntry DEF Reclaim, QueuesOK, queueVars, Take
  <2>3. JobsOK'
    BY <1>7, HeldEntry DEF Reclaim, JobsOK, jobVars, Take
  <2>4. EnvOK'
    BY <1>7 DEF Reclaim, EnvOK, envVars, Take
  <2> QED
    BY <2>1, <2>2, <2>3, <2>4 DEF Typed
<1>8. ASSUME NEW w \in Handler, CheckTerminal(w) PROVE Typed'
  <2>1. HandlersOK'
    BY <1>8 DEF CheckTerminal, HandlersOK, handlerVars, At, Busy, Label
  <2>2. QueuesOK'
    BY <1>8 DEF CheckTerminal, QueuesOK, queueVars
  <2>3. JobsOK'
    BY <1>8 DEF CheckTerminal, JobsOK, jobVars
  <2>4. EnvOK'
    BY <1>8 DEF CheckTerminal, EnvOK, envVars
  <2> QED
    BY <2>1, <2>2, <2>3, <2>4 DEF Typed
<1>9. ASSUME NEW w \in Handler, Begin(w) PROVE Typed'
  <2>1. HandlersOK'
    BY <1>9, GotoOK DEF Begin, HandlersOK, handlerVars, At, Busy, Label
  <2>2. QueuesOK'
    BY <1>9 DEF Begin, QueuesOK, queueVars
  <2>3. JobsOK'
    BY <1>9, HeldEntry
       DEF Begin, JobsOK, jobVars, WriteLive, At, Busy, Status, Live
  <2>4. EnvOK'
    BY <1>9 DEF Begin, EnvOK, envVars
  <2> QED
    BY <2>1, <2>2, <2>3, <2>4 DEF Typed
<1>10. ASSUME NEW w \in Handler, SlotTimeout(w) PROVE Typed'
  <2>1. HandlersOK'
    BY <1>10, EscapeOK DEF SlotTimeout, HandlersOK, handlerVars, At, Busy
  <2>2. QueuesOK'
    BY <1>10 DEF SlotTimeout, QueuesOK, queueVars
  <2>3. JobsOK'
    BY <1>10 DEF SlotTimeout, JobsOK, jobVars
  <2>4. EnvOK'
    BY <1>10 DEF SlotTimeout, EnvOK, envVars
  <2> QED
    BY <2>1, <2>2, <2>3, <2>4 DEF Typed
<1>11. ASSUME NEW w \in Handler, Progress(w) PROVE Typed'
  <2>1. HandlersOK'
    BY <1>11 DEF Progress, HandlersOK, handlerVars
  <2>2. QueuesOK'
    BY <1>11 DEF Progress, QueuesOK, queueVars
  <2>3. JobsOK'
    BY <1>11, HeldEntry DEF Progress, JobsOK, jobVars, CopyToDb, At, Busy
  <2>4. EnvOK'
    BY <1>11 DEF Progress, EnvOK, envVars
  <2> QED
    BY <2>1, <2>2, <2>3, <2>4 DEF Typed
<1>12. ASSUME NEW w \in Handler, PreprocessDone(w) PROVE Typed'
  <2>1. HandlersOK'
    BY <1>12, GotoOK
       DEF PreprocessDone, HandlersOK, handlerVars, At, Busy, Label
  <2>2. QueuesOK'
    BY <1>12, HeldEntry, FreshEntry
       DEF PreprocessDone, QueuesOK, queueVars, At, Busy, Stage
  <2>3. JobsOK'
    BY <1>12 DEF PreprocessDone, JobsOK, jobVars
  <2>4. EnvOK'
    BY <1>12 DEF PreprocessDone, EnvOK, envVars
  <2> QED
    BY <2>1, <2>2, <2>3, <2>4 DEF Typed
<1>13. ASSUME NEW w \in Handler, MarkQueued(w) PROVE Typed'
  <2>1. HandlersOK'
    BY <1>13, GotoOK, ConcludeOK
       DEF MarkQueued, HandlersOK, handlerVars, At, Busy, Label, Terminal
  <2>2. QueuesOK'
    BY <1>13 DEF MarkQueued, QueuesOK, queueVars
  <2>3. JobsOK'
    BY <1>13, HeldEntry DEF MarkQueued, JobsOK, jobVars, CopyToDb, At, Busy
  <2>4. EnvOK'
    BY <1>13 DEF MarkQueued, EnvOK, envVars
  <2> QED
    BY <2>1, <2>2, <2>3, <2>4 DEF Typed
<1>14. ASSUME NEW w \in Handler, SourceError(w) PROVE Typed'
  <2>1. HandlersOK'
    BY <1>14, GotoOK, EscapeOK, ConcludeOK
       DEF SourceError, HandlersOK, handlerVars, At, Busy, Label, Terminal
  <2>2. QueuesOK'
    <3>1. CASE held[w].dl < DownloadRetries /\ Delay(w, "preprocess", held[w].dl + 1)
      <4>1. held[w].dl + 1 \in 0..DownloadRetries
        BY <1>14, <3>1, HeldEntry, PipelineAssumption DEF SourceError, At, Busy
      <4> QED
        BY <1>14, <3>1, <4>1, DelayOK
           DEF SourceError, QueuesOK, queueVars, At, Busy, Stage
    <3>2. CASE UNCHANGED delayed
      BY <1>14, <3>2 DEF SourceError, QueuesOK
    <3> QED
      BY <1>14, <3>1, <3>2 DEF SourceError
  <2>3. JobsOK'
    BY <1>14 DEF SourceError, JobsOK, jobVars
  <2>4. EnvOK'
    BY <1>14 DEF SourceError, EnvOK, envVars
  <2> QED
    BY <2>1, <2>2, <2>3, <2>4 DEF Typed
<1>15. ASSUME NEW w \in Handler, StageError(w) PROVE Typed'
  <2>1. HandlersOK'
    BY <1>15, ConcludeOK
       DEF StageError, HandlersOK, handlerVars, At, Busy, Terminal
  <2>2. QueuesOK'
    BY <1>15 DEF StageError, QueuesOK, queueVars
  <2>3. JobsOK'
    BY <1>15 DEF StageError, JobsOK, jobVars
  <2>4. EnvOK'
    BY <1>15 DEF StageError, EnvOK, envVars
  <2> QED
    BY <2>1, <2>2, <2>3, <2>4 DEF Typed
<1>16. ASSUME NEW w \in Handler, ReviewDone(w) PROVE Typed'
  <2>1. HandlersOK'
    BY <1>16, ConcludeOK
       DEF ReviewDone, HandlersOK, handlerVars, At, Busy, Terminal
  <2>2. QueuesOK'
    BY <1>16 DEF ReviewDone, QueuesOK, queueVars
  <2>3. JobsOK'
    BY <1>16 DEF ReviewDone, JobsOK, jobVars
  <2>4. EnvOK'
    BY <1>16 DEF ReviewDone, EnvOK, envVars
  <2> QED
    BY <2>1, <2>2, <2>3, <2>4 DEF Typed
<1>17. ASSUME NEW w \in Handler, ModelError(w) PROVE Typed'
  <2>1. HandlersOK'
    BY <1>17, GotoOK DEF ModelError, HandlersOK, handlerVars, At, Busy, Label
  <2>2. QueuesOK'
    BY <1>17 DEF ModelError, QueuesOK, queueVars
  <2>3. JobsOK'
    BY <1>17 DEF ModelError, JobsOK, jobVars
  <2>4. EnvOK'
    BY <1>17 DEF ModelError, EnvOK, envVars
  <2> QED
    BY <2>1, <2>2, <2>3, <2>4 DEF Typed
<1>18. ASSUME NEW w \in Handler, PlanRetry(w) PROVE Typed'
  <2>1. HandlersOK'
    BY <1>18, GotoOK, EscapeOK, ConcludeOK
       DEF PlanRetry, HandlersOK, handlerVars, At, Busy, Label, Terminal
  <2>2. QueuesOK'
    BY <1>18, HeldEntry, FreshEntry
       DEF PlanRetry, QueuesOK, queueVars, At, Busy, Stage, Delay
  <2>3. JobsOK'
    BY <1>18 DEF PlanRetry, JobsOK, jobVars
  <2>4. EnvOK'
    BY <1>18 DEF PlanRetry, EnvOK, envVars
  <2> QED
    BY <2>1, <2>2, <2>3, <2>4 DEF Typed
<1>19. ASSUME NEW w \in Handler, MarkPending(w) PROVE Typed'
  <2>1. HandlersOK'
    BY <1>19, GotoOK DEF MarkPending, HandlersOK, handlerVars, At, Busy, Label
  <2>2. QueuesOK'
    BY <1>19 DEF MarkPending, QueuesOK, queueVars
  <2>3. JobsOK'
    BY <1>19, HeldEntry
       DEF MarkPending, JobsOK, jobVars, WriteLive, At, Busy, Status, Live
  <2>4. EnvOK'
    BY <1>19 DEF MarkPending, EnvOK, envVars
  <2> QED
    BY <2>1, <2>2, <2>3, <2>4 DEF Typed
<1>20. ASSUME NEW w \in Handler, Finish(w) PROVE Typed'
  <2>1. HandlersOK'
    BY <1>20, GotoOK, ReleaseOK, ConcludeOK, EscapeOK
       DEF Finish, HandlersOK, handlerVars, At, Busy, Label, Terminal
  <2>2. QueuesOK'
    BY <1>20 DEF Finish, QueuesOK, queueVars
  <2>3. JobsOK'
    BY <1>20, HeldEntry
       DEF Finish, JobsOK, jobVars, Record, At, Busy, Status, HandlersOK
  <2>4. EnvOK'
    BY <1>20 DEF Finish, EnvOK, envVars
  <2> QED
    BY <2>1, <2>2, <2>3, <2>4 DEF Typed
<1>21. ASSUME NEW w \in Handler, Notify(w) PROVE Typed'
  <2>1. HandlersOK'
    BY <1>21, GotoOK DEF Notify, HandlersOK, handlerVars, At, Busy, Label
  <2>2. QueuesOK'
    BY <1>21 DEF Notify, QueuesOK, queueVars
  <2>3. JobsOK'
    BY <1>21, HeldEntry DEF Notify, JobsOK, jobVars, At, Busy, HandlersOK
  <2>4. EnvOK'
    BY <1>21 DEF Notify, EnvOK, envVars
  <2> QED
    BY <2>1, <2>2, <2>3, <2>4 DEF Typed
<1>22. ASSUME NEW w \in Handler, DeadlineCut(w) PROVE Typed'
  <2>1. HandlersOK'
    BY <1>22, ConcludeOK
       DEF DeadlineCut, HandlersOK, handlerVars, At, Busy, Terminal
  <2>2. QueuesOK'
    BY <1>22 DEF DeadlineCut, QueuesOK, queueVars
  <2>3. JobsOK'
    BY <1>22, HeldEntry DEF DeadlineCut, JobsOK, jobVars, At, Busy, Terminal
  <2>4. EnvOK'
    BY <1>22 DEF DeadlineCut, EnvOK, envVars
  <2> QED
    BY <2>1, <2>2, <2>3, <2>4 DEF Typed
<1>23. ASSUME NEW w \in Handler, Ack(w) PROVE Typed'
  <2>1. HandlersOK'
    BY <1>23, ReleaseOK, EscapeOK DEF Ack, HandlersOK, handlerVars, At, Busy
  <2>2. QueuesOK'
    BY <1>23, HeldEntry DEF Ack, QueuesOK, queueVars
  <2>3. JobsOK'
    BY <1>23 DEF Ack, JobsOK, jobVars
  <2>4. EnvOK'
    BY <1>23 DEF Ack, EnvOK, envVars
  <2> QED
    BY <2>1, <2>2, <2>3, <2>4 DEF Typed
<1>24. ASSUME NEW w \in Handler, Rescue(w) PROVE Typed'
  <2>1. HandlersOK'
    <3>1. CASE Release(w)
      BY <3>1, ReleaseOK
    <3>2. CASE /\ pc' = [pc EXCEPT ![w] = "finish"]
               /\ goal' = [goal EXCEPT ![w] = "failed"]
               /\ past' = [past EXCEPT ![w] = TRUE]
               /\ UNCHANGED held
      BY <1>24, <3>2 DEF Rescue, HandlersOK, At, Busy, Label, Terminal
    <3>3. CASE /\ pc' = [pc EXCEPT ![w] = "scheduled"]
               /\ past' = [past EXCEPT ![w] = TRUE]
               /\ UNCHANGED <<held, goal>>
      BY <1>24, <3>3 DEF Rescue, HandlersOK, At, Busy, Label
    <3> QED
      BY <1>24, <3>1, <3>2, <3>3 DEF Rescue
  <2>2. QueuesOK'
    BY <1>24, HeldEntry, FreshEntry
       DEF Rescue, QueuesOK, queueVars, At, Busy, Stage, Delay
  <2>3. JobsOK'
    BY <1>24 DEF Rescue, JobsOK, jobVars
  <2>4. EnvOK'
    BY <1>24 DEF Rescue, EnvOK, envVars
  <2> QED
    BY <2>1, <2>2, <2>3, <2>4 DEF Typed
<1>25. ASSUME NEW w \in Handler, DeadLetter(w) PROVE Typed'
  <2>1. HandlersOK'
    BY <1>25, ReleaseOK DEF DeadLetter, HandlersOK, handlerVars
  <2>2. QueuesOK'
    BY <1>25, HeldEntry DEF DeadLetter, QueuesOK, queueVars, At, Busy
  <2>3. JobsOK'
    BY <1>25 DEF DeadLetter, JobsOK, jobVars
  <2>4. EnvOK'
    BY <1>25 DEF DeadLetter, EnvOK, envVars
  <2> QED
    BY <2>1, <2>2, <2>3, <2>4 DEF Typed
<1>26. ASSUME NEW r \in Review, DeadlinePasses(r) PROVE Typed'
  <2>1. HandlersOK'
    BY <1>26 DEF DeadlinePasses, HandlersOK, handlerVars
  <2>2. QueuesOK'
    BY <1>26 DEF DeadlinePasses, QueuesOK, queueVars
  <2>3. JobsOK'
    BY <1>26 DEF DeadlinePasses, JobsOK, jobVars
  <2>4. EnvOK'
    BY <1>26 DEF DeadlinePasses, EnvOK, envVars
  <2> QED
    BY <2>1, <2>2, <2>3, <2>4 DEF Typed
<1>27. ASSUME NEW r \in Review, ReconcileMark(r) PROVE Typed'
  <2>1. HandlersOK'
    BY <1>27 DEF ReconcileMark, HandlersOK, handlerVars
  <2>2. QueuesOK'
    BY <1>27 DEF ReconcileMark, QueuesOK, queueVars
  <2>3. JobsOK'
    BY <1>27 DEF ReconcileMark, JobsOK, jobVars, Status, Terminal
  <2>4. EnvOK'
    BY <1>27 DEF ReconcileMark, EnvOK, envVars
  <2> QED
    BY <2>1, <2>2, <2>3, <2>4 DEF Typed
<1>28. ASSUME NEW r \in Review, ReconcileReport(r) PROVE Typed'
  <2>1. HandlersOK'
    BY <1>28 DEF ReconcileReport, HandlersOK, handlerVars
  <2>2. QueuesOK'
    BY <1>28 DEF ReconcileReport, QueuesOK, queueVars
  <2>3. JobsOK'
    BY <1>28 DEF ReconcileReport, JobsOK, jobVars, Record, Status, Terminal
  <2>4. EnvOK'
    BY <1>28 DEF ReconcileReport, EnvOK, envVars
  <2> QED
    BY <2>1, <2>2, <2>3, <2>4 DEF Typed
<1>29. ASSUME ReconcileCrash PROVE Typed'
  <2>1. HandlersOK'
    BY <1>29 DEF ReconcileCrash, HandlersOK, handlerVars
  <2>2. QueuesOK'
    BY <1>29 DEF ReconcileCrash, QueuesOK, queueVars
  <2>3. JobsOK'
    BY <1>29 DEF ReconcileCrash, JobsOK, jobVars
  <2>4. EnvOK'
    BY <1>29, PipelineAssumption DEF ReconcileCrash, EnvOK, envVars
  <2> QED
    BY <2>1, <2>2, <2>3, <2>4 DEF Typed
<1>30. ASSUME NEW w \in Handler, Crash(w) PROVE Typed'
  <2>1. HandlersOK'
    BY <1>30, ReleaseOK DEF Crash, HandlersOK, handlerVars, Busy
  <2>2. QueuesOK'
    BY <1>30 DEF Crash, QueuesOK, queueVars
  <2>3. JobsOK'
    BY <1>30 DEF Crash, JobsOK, jobVars
  <2>4. EnvOK'
    BY <1>30, PipelineAssumption DEF Crash, EnvOK, envVars
  <2> QED
    BY <2>1, <2>2, <2>3, <2>4 DEF Typed
<1>31. ASSUME NEW w \in Handler, Interrupt(w) PROVE Typed'
  <2>1. HandlersOK'
    BY <1>31, ConcludeOK DEF Interrupt, HandlersOK, handlerVars, Busy, Terminal
  <2>2. QueuesOK'
    BY <1>31 DEF Interrupt, QueuesOK, queueVars
  <2>3. JobsOK'
    BY <1>31 DEF Interrupt, JobsOK, jobVars
  <2>4. EnvOK'
    BY <1>31, PipelineAssumption DEF Interrupt, EnvOK, envVars
  <2> QED
    BY <2>1, <2>2, <2>3, <2>4 DEF Typed
<1>32. ASSUME Promote PROVE Typed'
  <2>1. HandlersOK'
    BY <1>32 DEF Promote, HandlersOK, handlerVars
  <2>2. QueuesOK'
    BY <1>32 DEF Promote, QueuesOK, queueVars
  <2>3. JobsOK'
    BY <1>32 DEF Promote, JobsOK, jobVars
  <2>4. EnvOK'
    BY <1>32 DEF Promote, EnvOK, envVars
  <2> QED
    BY <2>1, <2>2, <2>3, <2>4 DEF Typed
<1>33. ASSUME UNCHANGED vars PROVE Typed'
  BY <1>33 DEF vars, jobVars, queueVars, handlerVars, envVars,
             HandlersOK, QueuesOK, JobsOK, EnvOK
<1> QED
  BY <1>1, <1>2, <1>3, <1>4, <1>5, <1>6, <1>7, <1>8, <1>9, <1>10, <1>11, <1>12,
     <1>13, <1>14, <1>15, <1>16, <1>17, <1>18, <1>19, <1>20, <1>21, <1>22,
     <1>23, <1>24, <1>25, <1>26, <1>27, <1>28, <1>29, <1>30, <1>31, <1>32, <1>33
     DEF Next, Step

\* Every reachable state is well typed, whatever the deployment, the number of
\* reviews, handlers and entries, and the faults that are allowed.
THEOREM TypeCorrect == Spec => []TypeOK
<1>1. Spec => []Typed
  BY InitTyped, NextTyped, PTL DEF Spec
<1> QED
  BY <1>1, TypedImpliesTypeOK, PTL

-----------------------------------------------------------------------------
(* Which steps move a handler. *)

\* A handler that a step does not touch.
Still(w) ==
  pc'[w] = pc[w] /\ held'[w] = held[w] /\ goal'[w] = goal[w] /\ past'[w] = past[w]

LEMMA MovesOne ==
  ASSUME Typed, NEW w \in Handler, NEW v \in Handler \ {w},
         \/ Release(v)
         \/ \E l : Goto(v, l)
         \/ \E t : Conclude(v, t)
         \/ Escape(v)
         \/ \E e : Take(v, e)
  PROVE  Still(w)
  BY DEF Typed, HandlersOK, Still, Release, Goto, Conclude, Escape, Take

\* Only a handler's own steps move it.
LEMMA OwnSteps ==
  ASSUME Typed, [Next]_vars, NEW w \in Handler
  PROVE  \/ Still(w)
         \/ Dequeue(w) \/ Reclaim(w) \/ \E r \in Review : RunInProcess(r, w)
         \/ Step(w) \/ SlotTimeout(w) \/ Crash(w) \/ Interrupt(w)
<1>1. ASSUME UNCHANGED handlerVars PROVE Still(w)
  BY <1>1 DEF Still, handlerVars
<1>2. ASSUME NEW v \in Handler \ {w},
             \/ Dequeue(v) \/ Reclaim(v) \/ Begin(v) \/ SlotTimeout(v) \/ PreprocessDone(v)
             \/ MarkQueued(v) \/ SourceError(v) \/ StageError(v) \/ ReviewDone(v) \/ ModelError(v)
             \/ PlanRetry(v) \/ MarkPending(v) \/ Finish(v) \/ Notify(v) \/ DeadlineCut(v)
             \/ Ack(v) \/ DeadLetter(v) \/ Crash(v) \/ Interrupt(v)
      PROVE  Still(w)
  <2>1. \/ Release(v)
        \/ \E l : Goto(v, l)
        \/ \E t : Conclude(v, t)
        \/ Escape(v)
        \/ \E e : Take(v, e)
    BY <1>2 DEF Dequeue, Reclaim, Begin, SlotTimeout, PreprocessDone, MarkQueued, SourceError,
         StageError, ReviewDone, ModelError, PlanRetry, MarkPending, Finish, Notify,
         DeadlineCut, Ack, DeadLetter, Crash, Interrupt
  <2> QED
    BY <2>1, MovesOne
<1>3. ASSUME NEW v \in Handler \ {w}, CheckTerminal(v) \/ \E r \in Review : RunInProcess(r, v)
      PROVE  Still(w)
  BY <1>3 DEF Still, Typed, HandlersOK, CheckTerminal, RunInProcess
<1>4. ASSUME NEW v \in Handler \ {w}, Rescue(v) PROVE Still(w)
  BY <1>4, MovesOne DEF Still, Typed, HandlersOK, Rescue
<1>5. ASSUME NEW v \in Handler, Progress(v) PROVE Still(w)
  BY <1>1, <1>5 DEF Progress
<1>6. ASSUME NEW r \in Review,
             \/ Create(r) \/ PersistCreated(r) \/ Enqueue(r) \/ Cancel(r) \/ DeadlinePasses(r)
             \/ ReconcileMark(r) \/ ReconcileReport(r)
      PROVE  Still(w)
  BY <1>1, <1>6 DEF Create, PersistCreated, Enqueue, Cancel, DeadlinePasses, ReconcileMark,
     ReconcileReport
<1>7. CASE Promote \/ ReconcileCrash \/ UNCHANGED vars
  BY <1>1, <1>7 DEF Promote, ReconcileCrash, vars
<1> QED
  BY <1>2, <1>3, <1>4, <1>5, <1>6, <1>7 DEF Next, Step

-----------------------------------------------------------------------------
(* Outcomes: what is recorded and what is reported. *)

\* A terminal status in the file or in the row was recorded as an outcome.
Recorded ==
  \A r \in Review : file[r] \in Terminal \/ db[r] \in Terminal => decided[r] # {}

\* A handler reports an outcome it has recorded.
Reported ==
  \A w \in Handler : pc[w] = "notify" => goal[w] \in decided[ReviewOf(w)]

\* The steps that write the file, the row or the history of outcomes.
JobStep ==
  \/ \E r \in Review : \/ Create(r) \/ PersistCreated(r) \/ Cancel(r)
                       \/ ReconcileMark(r) \/ ReconcileReport(r)
  \/ \E w \in Handler : \/ Begin(w) \/ Progress(w) \/ MarkQueued(w)
                        \/ MarkPending(w) \/ Finish(w)

LEMMA OnlyJobSteps ==
  ASSUME [Next]_vars, ~JobStep
  PROVE  UNCHANGED jobVars
  BY SMTT(60) DEF JobStep, Next, Step, vars, jobVars,
         Enqueue, RunInProcess, Dequeue, Reclaim, Take, CheckTerminal, SlotTimeout,
         PreprocessDone, SourceError, StageError, ReviewDone, ModelError, PlanRetry,
         Notify, DeadlineCut, Ack, Rescue, DeadLetter, DeadlinePasses,
         ReconcileCrash, Crash, Interrupt, Promote

\* A step records at most one outcome, and takes none back.
LEMMA DecidedGrows ==
  ASSUME Typed, [Next]_vars
  PROVE  \A r \in Review : decided[r] \subseteq decided'[r]
<1> DEFINE RecordsOne == \E r \in Review : \E t : decided' = [decided EXCEPT ![r] = @ \cup {t}]
<1>1. ASSUME NEW w \in Handler, Finish(w) PROVE RecordsOne
  BY <1>1, HeldEntry DEF Typed, Finish, At, Busy, Record
<1>2. RecordsOne \/ UNCHANGED decided
  BY <1>1, OnlyJobSteps
     DEF JobStep, jobVars, WriteLive, CopyToDb, Record, Create, PersistCreated, Cancel,
         ReconcileMark, ReconcileReport, Begin, Progress, MarkQueued, MarkPending
<1> HIDE DEF RecordsOne
<1>3. CASE RecordsOne
  BY <1>3 DEF Typed, JobsOK, RecordsOne
<1> QED
  BY <1>2, <1>3

LEMMA NextRecorded ==
  ASSUME Typed, Recorded, [Next]_vars
  PROVE  Recorded'
<1> USE DEF Typed, JobsOK, Recorded
<1>1. CASE ~JobStep
  BY <1>1, OnlyJobSteps DEF jobVars
<1>2. ASSUME NEW r \in Review, Create(r) PROVE Recorded'
  BY <1>2 DEF Create, Terminal
<1>3. ASSUME NEW r \in Review, PersistCreated(r) PROVE Recorded'
  BY <1>3 DEF PersistCreated, Terminal
<1>4. ASSUME NEW r \in Review, Cancel(r) PROVE Recorded'
  BY <1>4 DEF Cancel, Record
<1>5. ASSUME NEW r \in Review, ReconcileMark(r) PROVE Recorded'
  BY <1>5 DEF ReconcileMark
<1>6. ASSUME NEW r \in Review, ReconcileReport(r) PROVE Recorded'
  BY <1>6 DEF ReconcileReport, Record
<1>7. ASSUME NEW w \in Handler, Begin(w) \/ MarkPending(w) PROVE Recorded'
  BY <1>7 DEF Begin, MarkPending, WriteLive, Terminal
<1>8. ASSUME NEW w \in Handler, Progress(w) \/ MarkQueued(w) PROVE Recorded'
  BY <1>8 DEF Progress, MarkQueued, CopyToDb, jobVars
<1>9. ASSUME NEW w \in Handler, Finish(w) PROVE Recorded'
  BY SMTT(30), <1>9 DEF Finish, Record
<1> QED
  BY <1>1, <1>2, <1>3, <1>4, <1>5, <1>6, <1>7, <1>8, <1>9 DEF JobStep

\* Only Finish brings a handler to "notify".
LEMMA OnlyFinishNotifies ==
  ASSUME Typed, [Next]_vars, NEW w \in Handler, pc'[w] = "notify"
  PROVE  \/ pc[w] = "notify" /\ held'[w] = held[w] /\ goal'[w] = goal[w]
         \/ Finish(w) /\ Goto(w, "notify")
<1> USE DEF Typed, HandlersOK
<1>1. CASE Still(w)
  BY <1>1 DEF Still
<1>2. ~Dequeue(w) /\ ~Reclaim(w) /\ ~Crash(w) /\ ~Interrupt(w) /\ \A r \in Review : ~RunInProcess(r, w)
  BY DEF Dequeue, Reclaim, Take, Crash, Interrupt, Release, Conclude, RunInProcess
<1>3. /\ ~Release(w) /\ (\A t : ~Conclude(w, t)) /\ ~Escape(w)
      /\ \A l : Goto(w, l) => l = "notify"
  BY DEF Release, Conclude, Escape, Goto
<1>4. CASE Finish(w)
  BY <1>3, <1>4 DEF Finish
<1>5. /\ ~Begin(w) /\ ~PreprocessDone(w) /\ ~MarkQueued(w) /\ ~StageError(w) /\ ~ReviewDone(w)
      /\ ~ModelError(w) /\ ~MarkPending(w) /\ ~Notify(w) /\ ~DeadlineCut(w) /\ ~DeadLetter(w)
      /\ ~SlotTimeout(w) /\ ~SourceError(w) /\ ~PlanRetry(w) /\ ~Ack(w)
  BY <1>3 DEF Begin, PreprocessDone, MarkQueued, StageError, ReviewDone, ModelError,
     MarkPending, Notify, DeadlineCut, DeadLetter, SlotTimeout, SourceError, PlanRetry, Ack
<1>6. ~CheckTerminal(w) /\ ~Rescue(w)
  BY <1>3 DEF CheckTerminal, Rescue
<1> QED
  BY <1>1, <1>2, <1>4, <1>5, <1>6, OwnSteps DEF Step

\* Nobody reports an outcome that is not recorded.
LEMMA NextReported ==
  ASSUME Typed, Reported, [Next]_vars
  PROVE  Reported'
<1> SUFFICES ASSUME NEW w \in Handler, pc'[w] = "notify"
             PROVE  goal'[w] \in decided'[ReviewOf(w)']
  BY DEF Reported
<1>1. CASE pc[w] = "notify" /\ held'[w] = held[w] /\ goal'[w] = goal[w]
  BY <1>1, DecidedGrows, HeldEntry DEF Reported, ReviewOf, Typed, HandlersOK
<1>2. CASE Finish(w) /\ Goto(w, "notify")
  <2>1. ReviewOf(w) \in Review
    BY <1>2, HeldEntry DEF Finish, At, Busy, Typed
  <2> QED
    BY <1>2, <2>1 DEF Finish, Goto, Record, Typed, JobsOK, ReviewOf
<1> QED
  BY <1>1, <1>2, OnlyFinishNotifies

\* A callback is a Notify, a cut Notify or a reconciler's report.
LEMMA NextCalledBack ==
  ASSUME Typed, Reported, CallbackAfterRecord, [Next]_vars
  PROVE  CallbackAfterRecord'
<1> USE DEF Typed, JobsOK, CallbackAfterRecord
<1>1. ASSUME NEW w \in Handler, Notify(w) \/ DeadlineCut(w)
      PROVE  CallbackAfterRecord'
  <2>1. ReviewOf(w) \in Review /\ goal[w] \in decided[ReviewOf(w)]
    BY <1>1, HeldEntry DEF Notify, DeadlineCut, At, Busy, Reported
  <2> QED
    BY <1>1, <2>1 DEF Notify, DeadlineCut, At, jobVars
<1>2. ASSUME NEW r \in Review, ReconcileReport(r)
      PROVE  CallbackAfterRecord'
  BY <1>2 DEF ReconcileReport, Record
<1>3. UNCHANGED callbacks => CallbackAfterRecord'
  BY DecidedGrows
<1> QED
  BY SMTT(60), <1>1, <1>2, <1>3 DEF Next, Step, vars,
         Create, PersistCreated, Enqueue, RunInProcess, Cancel, Dequeue, Reclaim, Take,
         CheckTerminal, Begin, SlotTimeout, Progress, PreprocessDone, MarkQueued,
         SourceError, StageError, ReviewDone, ModelError, PlanRetry, MarkPending,
         Finish, Ack, Rescue, DeadLetter, DeadlinePasses,
         ReconcileMark, ReconcileCrash, Crash, Interrupt, Promote

\* The platform is only called back with outcomes recorded before, with any
\* number of handlers, duplicate deliveries, faults and crashes.
THEOREM CallbacksFollowRecords == Spec => []CallbackAfterRecord
<1>1. Init => Typed /\ Reported /\ CallbackAfterRecord
  BY InitTyped DEF Init, Reported, CallbackAfterRecord
<1>2. Typed /\ Reported /\ CallbackAfterRecord /\ [Next]_vars
        => (Typed /\ Reported /\ CallbackAfterRecord)'
  BY NextTyped, NextReported, NextCalledBack
<1> QED
  BY <1>1, <1>2, PTL DEF Spec

-----------------------------------------------------------------------------
(***************************************************************************)
(* At-least-once processing.  An entry stops carrying its review when it   *)
(* is settled or leaves Redis; the proof shows that every step that does   *)
(* either leaves a new entry, an outcome or a dead letter behind.          *)
(***************************************************************************)

SettledAt == {"enqueued", "scheduled", "notify", "ack"}

NotDropped(r) ==
  \/ decided[r] # {}
  \/ r \in dead
  \/ \E e \in Queue : e.review = r /\ ~Settled(e)

\* What is unsettled stays unsettled unless the handler that holds it moves on.
LEMMA SettledFrame ==
  ASSUME Typed, NEW w \in Handler, NEW e \in Entry, ~Settled(e),
         \A v \in Handler \ {w} : held'[v] = held[v] /\ pc'[v] = pc[v],
         held'[w] = e => pc'[w] \notin SettledAt
  PROVE  ~Settled(e)'
  BY DEF Settled, SettledAt

\* A handler that does not reach a settling step settles nothing.
LEMMA MovesKeepUnsettled ==
  ASSUME Typed, NEW w \in Handler, NEW e \in Entry, ~Settled(e),
         \/ Release(w)
         \/ \E t : Conclude(w, t)
         \/ \E l : Goto(w, l) /\ (l \in SettledAt => pc[w] \in SettledAt \/ held[w] # e)
         \/ Escape(w)
         \/ \E x \in Entry : Take(w, x)
         \/ UNCHANGED handlerVars
  PROVE  ~Settled(e)'
<1> USE DEF Typed, HandlersOK, SettledAt
<1>1. e # NoEntry
  BY PipelineAssumption
<1>2. /\ \A v \in Handler \ {w} : held'[v] = held[v] /\ pc'[v] = pc[v]
      /\ held'[w] = e => pc'[w] \notin SettledAt
  BY <1>1 DEF Release, Conclude, Goto, Escape, Take, handlerVars, Settled
<1> QED
  BY <1>2, SettledFrame

\* A new entry is in nobody's hands.
LEMMA FreshUnsettled ==
  ASSUME Typed, NEW e \in Entry, e.id \in FreshId,
         \A v \in Handler : held'[v] \in {held[v], NoEntry}
  PROVE  ~Settled(e)'
<1>1. ASSUME NEW v \in Handler, held[v] = e PROVE FALSE
  BY <1>1, PipelineAssumption DEF UsedIds, Busy, FreshId
<1> QED
  BY <1>1, PipelineAssumption DEF Settled

\* A handler that adds an entry for its review, in the stream or delayed,
\* leaves the review with an unsettled entry.
LEMMA AddedEntry ==
  ASSUME Typed, NEW r \in Review, NEW i \in FreshId, NEW s \in Stage,
         NEW d \in 0..DownloadRetries,
         [id |-> i, review |-> r, stage |-> s, dl |-> d] \in Queue',
         \A v \in Handler : held'[v] \in {held[v], NoEntry}
  PROVE  NotDropped(r)'
<1> DEFINE e == [id |-> i, review |-> r, stage |-> s, dl |-> d]
<1>1. e \in Entry
  BY FreshEntry
<1>2. ~Settled(e)'
  BY <1>1, FreshUnsettled
<1> QED
  BY <1>2 DEF NotDropped

LEMMA DelayedEntry ==
  ASSUME Typed, NEW w \in Handler, NEW r \in Review, r = ReviewOf(w),
         NEW s \in Stage, NEW d \in 0..DownloadRetries, Delay(w, s, d),
         \A v \in Handler : held'[v] \in {held[v], NoEntry}
  PROVE  NotDropped(r)'
<1>1. PICK i \in FreshId :
        [id |-> i, review |-> r, stage |-> s, dl |-> d] \in Queue'
  BY DEF Delay, Queue
<1> QED
  BY <1>1, AddedEntry

LEMMA NextNotDropped ==
  ASSUME Typed, Recorded, Reported, NoReviewDropped, [Next]_vars
  PROVE  NoReviewDropped'
<1> SUFFICES ASSUME NEW r \in Review, api'[r] = "accepted" PROVE NotDropped(r)'
  BY DEF NoReviewDropped, NotDropped
<1> USE DEF Typed
<1>1. CASE Enqueue(r)
  <2>1. PICK i \in FreshId, s \in Stage :
          [id |-> i, review |-> r, stage |-> s, dl |-> 0] \in Queue'
    BY <1>1 DEF Enqueue, Queue, Stage, EnvOK
  <2> QED
    BY <1>1, <2>1, AddedEntry, PipelineAssumption DEF Enqueue, handlerVars
<1>2. api[r] = "accepted" \/ Enqueue(r)
  BY SMTT(60) DEF EnvOK, Next, Step, vars, envVars,
         Create, PersistCreated, Enqueue, RunInProcess, Cancel, Dequeue, Reclaim, Take,
         CheckTerminal, Begin, SlotTimeout, Progress, PreprocessDone, MarkQueued,
         SourceError, StageError, ReviewDone, ModelError, PlanRetry, MarkPending,
         Finish, Notify, DeadlineCut, Ack, Rescue, DeadLetter, DeadlinePasses,
         ReconcileMark, ReconcileReport, ReconcileCrash, Crash, Interrupt, Promote
<1> SUFFICES ASSUME api[r] = "accepted" PROVE NotDropped(r)'
  BY <1>1, <1>2
<1>3. NotDropped(r)
  BY DEF NoReviewDropped, NotDropped
<1>4. dead \subseteq dead'
  BY SMTT(60) DEF Next, Step, vars, queueVars,
         Create, PersistCreated, Enqueue, RunInProcess, Cancel, Dequeue, Reclaim, Take,
         CheckTerminal, Begin, SlotTimeout, Progress, PreprocessDone, MarkQueued,
         SourceError, StageError, ReviewDone, ModelError, PlanRetry, MarkPending,
         Finish, Notify, DeadlineCut, Ack, Rescue, DeadLetter, DeadlinePasses,
         ReconcileMark, ReconcileReport, ReconcileCrash, Crash, Interrupt, Promote
<1>5. CASE decided[r] # {} \/ r \in dead
  BY <1>4, <1>5, DecidedGrows DEF NotDropped
<1> SUFFICES ASSUME decided[r] = {}, r \notin dead PROVE NotDropped(r)'
  BY <1>5
<1>6. PICK e \in Queue : e.review = r /\ ~Settled(e)
  BY <1>3 DEF NotDropped
<1>7. e \in Entry
  BY DEF QueuesOK, Queue
<1>8. e \in Queue' /\ ~Settled(e)' => NotDropped(r)'
  BY <1>6 DEF NotDropped
<1>9. ASSUME NEW w \in Handler, held[w] # NoEntry, ReviewOf(w) # r PROVE held[w] # e
  BY <1>6, <1>9 DEF ReviewOf
<1>10. ASSUME NEW w \in Handler, At(w, "ack") PROVE held[w] # e
  BY <1>6, <1>10 DEF At, Settled
\* Steps that leave every handler where it is.
<1>11. CASE UNCHANGED <<handlerVars, queueVars>>
  <2>1. ~Settled(e)'
    BY <1>6, <1>11 DEF Settled, handlerVars
  <2> QED
    BY <1>8, <1>11, <2>1 DEF queueVars, Queue
<1>12. CASE Promote \/ \E q \in Review : Enqueue(q)
  <2>1. ~Settled(e)'
    BY <1>6, <1>12 DEF Settled, Promote, Enqueue, handlerVars
  <2>2. e \in Queue'
    BY <1>12 DEF Promote, Enqueue, Queue
  <2> QED
    BY <1>8, <2>1, <2>2
\* Steps that take an entry.
<1>13. ASSUME NEW w \in Handler, Dequeue(w) \/ Reclaim(w) PROVE NotDropped(r)'
  <2>1. \E x \in Entry : Take(w, x)
    BY <1>13 DEF Dequeue, Reclaim, QueuesOK
  <2>2. e \in Queue'
    BY <1>13 DEF Dequeue, Reclaim, Take, Queue
  <2> QED
    BY <1>6, <1>7, <1>8, <2>1, <2>2, MovesKeepUnsettled
<1>14. ASSUME NEW w \in Handler, NEW q \in Review, RunInProcess(q, w) PROVE NotDropped(r)'
  <2>1. e \in Queue'
    BY <1>14 DEF RunInProcess, queueVars, Queue
  <2>2. ~Settled(e)'
    BY <1>6, <1>7, <1>14, SettledFrame DEF RunInProcess, SettledAt, HandlersOK
  <2> QED
    BY <1>8, <2>1, <2>2
\* A terminal row had its outcome recorded.
<1>15. ASSUME NEW w \in Handler, CheckTerminal(w) PROVE NotDropped(r)'
  <2>1. e \in Queue'
    BY <1>15 DEF CheckTerminal, queueVars, Queue
  <2>2. CASE pc' = [pc EXCEPT ![w] = "start"]
    BY <1>6, <1>7, <1>8, <1>15, <2>1, <2>2, SettledFrame
       DEF CheckTerminal, HandlersOK, SettledAt
  <2>3. CASE db[ReviewOf(w)] \in Terminal /\ pc' = [pc EXCEPT ![w] = "ack"]
    <3>1. ReviewOf(w) # r
      BY <2>3 DEF Recorded
    <3>2. held[w] # e
      BY <1>9, <1>15, <3>1 DEF CheckTerminal, At, Busy
    <3> QED
      BY <1>6, <1>7, <1>8, <1>15, <2>1, <2>3, <3>2, SettledFrame
         DEF CheckTerminal, HandlersOK
  <2> QED
    BY <1>15, <2>2, <2>3 DEF CheckTerminal
\* Steps that settle nothing and leave the queues alone, or only add to them.
<1>16. ASSUME NEW w \in Handler,
              \/ Begin(w) \/ SlotTimeout(w) \/ StageError(w) \/ ReviewDone(w)
              \/ ModelError(w) \/ MarkQueued(w) \/ MarkPending(w) \/ DeadlineCut(w)
              \/ Crash(w) \/ Interrupt(w) \/ Progress(w)
       PROVE  NotDropped(r)'
  <2>1. e \in Queue'
    BY <1>16 DEF Begin, SlotTimeout, StageError, ReviewDone, ModelError, MarkQueued,
         MarkPending, DeadlineCut, Crash, Interrupt, Progress, queueVars, Queue
  <2>2. \/ Release(w)
        \/ \E t : Conclude(w, t)
        \/ \E l : Goto(w, l) /\ (l \in SettledAt => pc[w] \in SettledAt)
        \/ Escape(w)
        \/ UNCHANGED handlerVars
    BY <1>16 DEF Begin, SlotTimeout, StageError, ReviewDone, ModelError, MarkQueued,
         MarkPending, DeadlineCut, Crash, Interrupt, Progress, At, SettledAt
  <2> QED
    BY <1>6, <1>7, <1>8, <2>1, <2>2, MovesKeepUnsettled
\* Steps that hand the work of an entry over.
<1>17. ASSUME NEW w \in Handler, held[w] # NoEntry, e \in Queue',
              NEW s \in Stage, NEW d \in 0..DownloadRetries, Delay(w, s, d),
              \A v \in Handler \ {w} : held'[v] = held[v] /\ pc'[v] = pc[v],
              held'[w] \in {held[w], NoEntry}
       PROVE  NotDropped(r)'
  <2>1. CASE ReviewOf(w) = r
    BY <1>17, <2>1, DelayedEntry
  <2>2. CASE ReviewOf(w) # r
    BY <1>6, <1>7, <1>8, <1>9, <1>17, <2>2, SettledFrame, PipelineAssumption
  <2> QED
    BY <2>1, <2>2
<1>18. ASSUME NEW w \in Handler, SourceError(w) PROVE NotDropped(r)'
  <2>1. e \in Queue'
    BY <1>18 DEF SourceError, Queue, Delay
  <2>2. held[w] # NoEntry /\ held[w].dl \in 0..DownloadRetries
    BY <1>18, HeldEntry DEF SourceError, At, Busy
  <2>3. CASE /\ held[w].dl < DownloadRetries
             /\ Delay(w, "preprocess", held[w].dl + 1)
             /\ Goto(w, "scheduled") \/ Escape(w)
    <3>1. held[w].dl + 1 \in 0..DownloadRetries
      BY <2>2, <2>3, PipelineAssumption
    <3> QED
      BY <1>17, <2>1, <2>2, <2>3, <3>1 DEF Goto, Escape, Release, Stage, HandlersOK
  <2>4. CASE Escape(w) \/ Conclude(w, "source_unavailable")
    BY <1>6, <1>7, <1>8, <2>1, <2>4, MovesKeepUnsettled
  <2> QED
    BY <1>18, <2>3, <2>4 DEF SourceError
<1>19. ASSUME NEW w \in Handler, PlanRetry(w) PROVE NotDropped(r)'
  <2>1. e \in Queue'
    BY <1>19 DEF PlanRetry, Queue, Delay
  <2>2. held[w] # NoEntry /\ held[w].dl \in 0..DownloadRetries
    BY <1>19, HeldEntry DEF PlanRetry, At, Busy
  <2>3. CASE Delay(w, "model", held[w].dl) /\ (Goto(w, "scheduled") \/ Escape(w))
    BY <1>17, <2>1, <2>2, <2>3 DEF Goto, Escape, Release, Stage, HandlersOK
  <2>4. CASE Escape(w) \/ Conclude(w, "failed")
    BY <1>6, <1>7, <1>8, <2>1, <2>4, MovesKeepUnsettled
  <2> QED
    BY <1>19, <2>3, <2>4 DEF PlanRetry
<1>20. ASSUME NEW w \in Handler, Rescue(w) PROVE NotDropped(r)'
  <2>1. e \in Queue'
    BY <1>20 DEF Rescue, Queue, Delay
  <2>2. held[w] # NoEntry /\ StageOf(w) \in Stage /\ held[w].dl \in 0..DownloadRetries
    BY <1>20, HeldEntry DEF Rescue, At, Busy
  <2>3. CASE Delay(w, StageOf(w), held[w].dl)
    BY <1>17, <1>20, <2>1, <2>2, <2>3 DEF Rescue, Release, HandlersOK
  <2>4. CASE pc' = [pc EXCEPT ![w] = "finish"] /\ UNCHANGED held
    BY <1>6, <1>7, <1>8, <2>1, <2>4, SettledFrame DEF HandlersOK, SettledAt
  <2>5. CASE Release(w)
    BY <1>6, <1>7, <1>8, <2>1, <2>5, MovesKeepUnsettled
  <2> QED
    BY <1>20, <2>3, <2>4, <2>5 DEF Rescue
<1>21. ASSUME NEW w \in Handler, PreprocessDone(w) PROVE NotDropped(r)'
  <2>1. e \in Queue'
    BY <1>21 DEF PreprocessDone, Queue
  <2>2. held[w] # NoEntry /\ held[w].dl \in 0..DownloadRetries
    BY <1>21, HeldEntry DEF PreprocessDone, At, Busy
  <2>3. CASE Goto(w, "inline")
    BY <1>6, <1>7, <1>8, <2>1, <2>3, MovesKeepUnsettled DEF SettledAt
  <2>4. CASE Goto(w, "enqueued") /\ ReviewOf(w) # r
    BY <1>6, <1>7, <1>8, <1>9, <2>1, <2>2, <2>4, MovesKeepUnsettled
  <2>5. CASE /\ Goto(w, "enqueued") /\ ReviewOf(w) = r
             /\ \E i \in FreshId :
                  stream' = stream \cup
                    {[id |-> i, review |-> ReviewOf(w), stage |-> "model", dl |-> held[w].dl]}
    <3>1. PICK i \in FreshId :
            [id |-> i, review |-> r, stage |-> "model", dl |-> held[w].dl] \in Queue'
      BY <2>5 DEF Queue
    <3>2. \A v \in Handler : held'[v] \in {held[v], NoEntry}
      BY <2>5 DEF Goto
    <3> QED
      BY <2>2, <3>1, <3>2, AddedEntry DEF Stage
  <2> QED
    BY <1>21, <2>3, <2>4, <2>5 DEF PreprocessDone
\* Steps that record or report an outcome: it is another review's.
<1>22. ASSUME NEW w \in Handler, Finish(w) PROVE NotDropped(r)'
  <2>1. e \in Queue'
    BY <1>22 DEF Finish, queueVars, Queue
  <2>2. CASE ReviewOf(w) = r
    BY <1>22, <2>2 DEF Finish, Record, JobsOK, NotDropped
  <2>3. CASE ReviewOf(w) # r
    <3>1. held[w] # e
      BY <1>9, <1>22, <2>3 DEF Finish, At, Busy
    <3>2. Release(w) \/ (\E t : Conclude(w, t)) \/ (\E l : Goto(w, l)) \/ Escape(w)
      BY <1>22 DEF Finish
    <3> QED
      BY <1>6, <1>7, <1>8, <2>1, <3>1, <3>2, MovesKeepUnsettled
  <2> QED
    BY <2>2, <2>3
<1>23. ASSUME NEW w \in Handler, Notify(w) PROVE NotDropped(r)'
  <2>1. e \in Queue'
    BY <1>23 DEF Notify, queueVars, Queue
  <2>2. held[w] # e
    BY <1>6, <1>23 DEF Notify, At, Settled
  <2> QED
    BY <1>6, <1>7, <1>8, <1>23, <2>1, <2>2, MovesKeepUnsettled DEF Notify
\* Steps that take an entry out of the pending list.
<1>24. ASSUME NEW w \in Handler, Ack(w) PROVE NotDropped(r)'
  <2>1. e \in Queue'
    BY <1>10, <1>24 DEF Ack, Queue
  <2> QED
    BY <1>6, <1>7, <1>8, <1>24, <2>1, MovesKeepUnsettled DEF Ack
<1>25. ASSUME NEW w \in Handler, DeadLetter(w) PROVE NotDropped(r)'
  <2>1. e \in Queue' \/ r \in dead'
    BY <1>6, <1>25 DEF DeadLetter, Queue, ReviewOf
  <2> QED
    BY <1>6, <1>7, <1>8, <1>25, <2>1, MovesKeepUnsettled DEF DeadLetter, NotDropped
<1> QED
  BY <1>11, <1>12, <1>13, <1>14, <1>15, <1>16, <1>18, <1>19, <1>20, <1>21, <1>22,
     <1>23, <1>24, <1>25
     DEF Next, Step, vars, Create, PersistCreated, Cancel, DeadlinePasses,
         ReconcileMark, ReconcileReport, ReconcileCrash

\* Once the API has accepted a review, its work is never lost: whatever Redis
\* or PostgreSQL call fails, wherever a worker stops, and however often an
\* entry is delivered, there is an outcome, a dead letter or an unsettled entry.
THEOREM NothingDropped == Spec => []NoReviewDropped
<1> DEFINE Inv == Typed /\ Recorded /\ Reported /\ NoReviewDropped
<1>1. Init => Inv
  BY InitTyped DEF Init, Recorded, Reported, NoReviewDropped, Terminal
<1>2. Inv /\ [Next]_vars => Inv'
  BY NextTyped, NextRecorded, NextReported, NextNotDropped
<1> QED
  BY <1>1, <1>2, PTL DEF Spec

-----------------------------------------------------------------------------
(***************************************************************************)
(* With punctual heartbeats an entry that is being handled stays pending,  *)
(* for its handler alone.  What makes this inductive is that the three     *)
(* Redis structures share no entry.                                        *)
(***************************************************************************)

Apart == stream \cap pel = {} /\ stream \cap delayed = {} /\ pel \cap delayed = {}

OwnPending ==
  \A w \in Handler : held[w] # NoEntry /\ ~IsLocal(w) =>
    held[w] \in pel /\ \A v \in Handler : held[v] = held[w] => v = w

\* The steps that move entries.
QueueStep ==
  \/ \E r \in Review : Enqueue(r)
  \/ Promote
  \/ \E w \in Handler : \/ Dequeue(w) \/ PreprocessDone(w) \/ SourceError(w) \/ PlanRetry(w)
                        \/ Rescue(w) \/ Ack(w) \/ DeadLetter(w)

LEMMA OnlyQueueSteps ==
  ASSUME [Next]_vars, ~QueueStep
  PROVE  UNCHANGED <<stream, pel, delayed>>
  BY SMTT(60) DEF QueueStep, Next, Step, vars, queueVars, Create, PersistCreated, RunInProcess,
         Cancel, Reclaim, Take, CheckTerminal, Begin, SlotTimeout, Progress, MarkQueued,
         StageError, ReviewDone, ModelError, MarkPending, Finish, Notify, DeadlineCut,
         DeadlinePasses, ReconcileMark, ReconcileReport, ReconcileCrash, Crash, Interrupt

\* A step adds at most fresh entries and moves entries one structure on.
LEMMA NextApart ==
  ASSUME Apart, [Next]_vars
  PROVE  Apart'
<1> USE DEF Apart
<1>1. ASSUME NEW i \in FreshId, NEW r, NEW s, NEW d
      PROVE  [id |-> i, review |-> r, stage |-> s, dl |-> d] \notin Queue
  BY DEF FreshId, UsedIds
<1>2. CASE ~QueueStep
  BY <1>2, OnlyQueueSteps
<1>3. ASSUME NEW r \in Review, Enqueue(r) PROVE Apart'
  BY <1>1, <1>3 DEF Enqueue, Queue
<1>4. CASE Promote
  BY <1>4 DEF Promote
<1>5. ASSUME NEW w \in Handler, Dequeue(w) PROVE Apart'
  BY <1>5 DEF Dequeue, Take
<1>6. ASSUME NEW w \in Handler, PreprocessDone(w) PROVE Apart'
  BY <1>1, <1>6 DEF PreprocessDone, Queue
<1>7. ASSUME NEW w \in Handler, SourceError(w) PROVE Apart'
  BY <1>1, <1>7 DEF SourceError, Delay, Queue
<1>8. ASSUME NEW w \in Handler, PlanRetry(w) PROVE Apart'
  BY <1>1, <1>8 DEF PlanRetry, Delay, Queue
<1>9. ASSUME NEW w \in Handler, Rescue(w) PROVE Apart'
  BY <1>1, <1>9 DEF Rescue, Delay, Queue
<1>10. ASSUME NEW w \in Handler, Ack(w) \/ DeadLetter(w) PROVE Apart'
  BY <1>10 DEF Ack, DeadLetter
<1> QED
  BY SMTT(30), <1>2, <1>3, <1>4, <1>5, <1>6, <1>7, <1>8, <1>9, <1>10 DEF QueueStep

\* Only these steps give a handler an entry or take one off the pending list.
PendingStep ==
  \/ \E r \in Review, w \in Handler : RunInProcess(r, w)
  \/ \E w \in Handler : Dequeue(w) \/ Reclaim(w) \/ Ack(w) \/ DeadLetter(w)

LEMMA OnlyPendingSteps ==
  ASSUME Typed, [Next]_vars, ~PendingStep
  PROVE  UNCHANGED pel /\ \A v \in Handler : held'[v] \in {held[v], NoEntry}
<1>1. UNCHANGED pel
  BY SMTT(60) DEF PendingStep, Next, Step, vars, queueVars,
         Create, PersistCreated, Enqueue, Cancel, CheckTerminal, Begin, SlotTimeout,
         Progress, PreprocessDone, MarkQueued, SourceError, StageError, ReviewDone,
         ModelError, PlanRetry, MarkPending, Finish, Notify, DeadlineCut, Rescue,
         DeadlinePasses, ReconcileMark, ReconcileReport, ReconcileCrash, Crash,
         Interrupt, Promote
<1>2. ASSUME NEW v \in Handler PROVE held'[v] \in {held[v], NoEntry}
  <2> USE DEF Typed, HandlersOK
  <2>1. CASE Still(v)
    BY <2>1 DEF Still
  <2>2. CASE \/ Release(v) \/ (\E t : Conclude(v, t)) \/ (\E l : Goto(v, l))
             \/ Escape(v) \/ UNCHANGED held
    BY <2>2 DEF Release, Conclude, Goto, Escape
  <2>3. CASE \/ CheckTerminal(v) \/ Begin(v) \/ SlotTimeout(v) \/ PreprocessDone(v)
             \/ MarkQueued(v) \/ SourceError(v) \/ StageError(v) \/ ReviewDone(v)
             \/ ModelError(v) \/ PlanRetry(v) \/ MarkPending(v) \/ Finish(v) \/ Notify(v)
             \/ DeadlineCut(v) \/ Rescue(v) \/ Crash(v) \/ Interrupt(v)
    BY <2>2, <2>3 DEF CheckTerminal, Begin, SlotTimeout, PreprocessDone, MarkQueued,
       SourceError, StageError, ReviewDone, ModelError, PlanRetry, MarkPending, Finish,
       Notify, DeadlineCut, Rescue, Crash, Interrupt
  <2> QED
    BY <2>1, <2>3, OwnSteps DEF PendingStep, Step
<1> QED
  BY <1>1, <1>2

LEMMA NextOwnPending ==
  ASSUME Typed, Apart, OwnPending, ~LateHeartbeats, [Next]_vars
  PROVE  OwnPending'
<1> USE DEF Typed, HandlersOK, OwnPending, IsLocal
<1>1. CASE ~PendingStep
  BY <1>1, OnlyPendingSteps
<1>2. ASSUME NEW r \in Review, NEW w \in Handler, RunInProcess(r, w) PROVE OwnPending'
  BY <1>2 DEF RunInProcess, queueVars
<1>3. ASSUME NEW w \in Handler, Dequeue(w) PROVE OwnPending'
  BY <1>3, PipelineAssumption DEF Dequeue, Take, Apart, QueuesOK
<1>4. ASSUME NEW w \in Handler, Reclaim(w) PROVE OwnPending'
  BY <1>4, PipelineAssumption DEF Reclaim, Take, QueuesOK
<1>5. ASSUME NEW w \in Handler, Ack(w) PROVE OwnPending'
  BY <1>5 DEF Ack, Release, Escape, Goto, At, Busy
<1>6. ASSUME NEW w \in Handler, DeadLetter(w) PROVE OwnPending'
  BY <1>6 DEF DeadLetter, Release, At, Busy
<1> QED
  BY <1>1, <1>2, <1>3, <1>4, <1>5, <1>6 DEF PendingStep

\* While heartbeats are punctual nobody but its handler acknowledges an entry,
\* so a crash always leaves the entry for XAUTOCLAIM.
THEOREM HeldIsPending == Spec => []HeldStaysPending
<1> DEFINE Inv == Typed /\ Apart /\ (~LateHeartbeats => OwnPending)
<1>1. Init => Inv
  BY InitTyped DEF Init, Apart, OwnPending
<1>2. Inv /\ [Next]_vars => Inv'
  BY NextTyped, NextApart, NextOwnPending
<1>3. Inv => HeldStaysPending
  BY DEF OwnPending, HeldStaysPending, Busy
<1> QED
  BY <1>1, <1>2, <1>3, PTL DEF Spec

-----------------------------------------------------------------------------
(***************************************************************************)
(* Dead letters of the staged deployment.  A review gets there through     *)
(* fail_workflow only, which the last-resort block of handle_message calls *)
(* once the deadline has passed; in single mode every escaped exception    *)
(* goes straight to the dead-letter stream, and the property fails.        *)
(***************************************************************************)

\* Staged queues hold staged entries, and only those are rescued.
StagedEntries ==
  /\ \A e \in Queue : e.stage # "single"
  /\ \A w \in Handler : held[w] # NoEntry /\ ~IsLocal(w) => StageOf(w) # "single"
  /\ \A w \in Handler : pc[w] = "rescue" => StageOf(w) # "single"

\* A handler past the try body is failing an expired review, or leaving.
LastResort ==
  \A w \in Handler :
    /\ past[w] => pc[w] \in {"ack", "scheduled", "finish", "notify", "deadletter"}
    /\ past[w] /\ pc[w] \in {"finish", "notify"} =>
         goal[w] = "failed" /\ expired[ReviewOf(w)]
    /\ pc[w] = "deadletter" => "failed" \in decided[ReviewOf(w)] /\ expired[ReviewOf(w)]

\* Only an exception that leaves a staged stage function brings a handler to
\* "rescue".
LEMMA OnlyEscapeRescues ==
  ASSUME Typed, [Next]_vars, NEW w \in Handler, pc'[w] = "rescue"
  PROVE  held'[w] = held[w] /\ (pc[w] = "rescue" \/ StageOf(w) # "single")
<1> USE DEF Typed, HandlersOK
<1>1. CASE Still(w)
  BY <1>1 DEF Still
<1>2. ~Dequeue(w) /\ ~Reclaim(w) /\ ~Crash(w) /\ ~Interrupt(w) /\ \A r \in Review : ~RunInProcess(r, w)
  BY DEF Dequeue, Reclaim, Take, Crash, Interrupt, Release, Conclude, RunInProcess
<1>3. ~Release(w) /\ (\A t : ~Conclude(w, t)) /\ \A l : Goto(w, l) => l = "rescue"
  BY DEF Release, Conclude, Goto
<1>4. ASSUME Escape(w) PROVE held'[w] = held[w] /\ StageOf(w) # "single"
  BY <1>3, <1>4 DEF Escape, Goto
<1>5. CASE SlotTimeout(w) \/ SourceError(w) \/ PlanRetry(w) \/ Finish(w) \/ Ack(w)
  BY <1>3, <1>4, <1>5 DEF SlotTimeout, SourceError, PlanRetry, Finish, Ack
<1>6. /\ ~Begin(w) /\ ~PreprocessDone(w) /\ ~MarkQueued(w) /\ ~StageError(w) /\ ~ReviewDone(w)
      /\ ~ModelError(w) /\ ~MarkPending(w) /\ ~Notify(w) /\ ~DeadlineCut(w) /\ ~DeadLetter(w)
  BY <1>3 DEF Begin, PreprocessDone, MarkQueued, StageError, ReviewDone, ModelError,
     MarkPending, Notify, DeadlineCut, DeadLetter
<1>7. ~CheckTerminal(w)
  BY DEF CheckTerminal
<1>8. ~Rescue(w)
  BY <1>3 DEF Rescue
<1> QED
  BY <1>1, <1>2, <1>5, <1>6, <1>7, <1>8, OwnSteps DEF Step

LEMMA NextStagedEntries ==
  ASSUME Modes = {"staged"}, Typed, StagedEntries, [Next]_vars
  PROVE  StagedEntries'
<1>1. \A e \in Queue' : e.stage # "single"
  <2> USE DEF StagedEntries, Queue
  <2>1. CASE ~QueueStep
    BY <2>1, OnlyQueueSteps
  <2>2. ASSUME NEW r \in Review, Enqueue(r) PROVE \A e \in Queue' : e.stage # "single"
    BY <2>2 DEF Enqueue
  <2>3. CASE Promote
    BY <2>3 DEF Promote
  <2>4. ASSUME NEW w \in Handler,
               \/ Dequeue(w) \/ PreprocessDone(w) \/ SourceError(w) \/ PlanRetry(w)
               \/ Ack(w) \/ DeadLetter(w)
        PROVE  \A e \in Queue' : e.stage # "single"
    BY <2>4 DEF Dequeue, Take, PreprocessDone, SourceError, PlanRetry, Ack, DeadLetter, Delay
  <2>5. ASSUME NEW w \in Handler, Rescue(w) PROVE \A e \in Queue' : e.stage # "single"
    BY <2>5 DEF Rescue, Delay, At
  <2> QED
    BY <2>1, <2>2, <2>3, <2>4, <2>5 DEF QueueStep
<1>2. \A w \in Handler :
        held'[w] # NoEntry /\ held'[w].id # LocalId => held'[w].stage # "single"
  <2> USE DEF StagedEntries, IsLocal, StageOf, Typed, HandlersOK
  <2>1. CASE ~PendingStep
    BY <2>1, OnlyPendingSteps
  <2>2. ASSUME NEW r \in Review, NEW v \in Handler, RunInProcess(r, v)
        PROVE  \A w \in Handler :
                 held'[w] # NoEntry /\ held'[w].id # LocalId => held'[w].stage # "single"
    BY <2>2 DEF RunInProcess
  <2>3. ASSUME NEW v \in Handler, Dequeue(v) \/ Reclaim(v)
        PROVE  \A w \in Handler :
                 held'[w] # NoEntry /\ held'[w].id # LocalId => held'[w].stage # "single"
    BY <2>3 DEF Dequeue, Reclaim, Take, Queue
  <2>4. ASSUME NEW v \in Handler, Ack(v) \/ DeadLetter(v)
        PROVE  \A w \in Handler :
                 held'[w] # NoEntry /\ held'[w].id # LocalId => held'[w].stage # "single"
    BY <2>4 DEF Ack, DeadLetter, Release, Escape, Goto
  <2> QED
    BY <2>1, <2>2, <2>3, <2>4 DEF PendingStep
<1>3. \A w \in Handler : pc'[w] = "rescue" => held'[w].stage # "single"
  BY OnlyEscapeRescues DEF StagedEntries, StageOf
<1> QED
  BY <1>1, <1>2, <1>3 DEF StagedEntries, IsLocal, StageOf

LEMMA ExpiredStays ==
  ASSUME Typed, [Next]_vars, NEW r \in Review, expired[r]
  PROVE  expired'[r]
  BY SMTT(60) DEF Typed, EnvOK, Next, Step, vars, envVars,
         Create, PersistCreated, Enqueue, RunInProcess, Cancel, Dequeue, Reclaim, Take,
         CheckTerminal, Begin, SlotTimeout, Progress, PreprocessDone, MarkQueued,
         SourceError, StageError, ReviewDone, ModelError, PlanRetry, MarkPending,
         Finish, Notify, DeadlineCut, Ack, Rescue, DeadLetter, DeadlinePasses,
         ReconcileMark, ReconcileReport, ReconcileCrash, Crash, Interrupt, Promote

LEMMA NextLastResort ==
  ASSUME Modes = {"staged"}, Typed, Reported, StagedEntries, LastResort, [Next]_vars
  PROVE  LastResort'
<1> DEFINE OK(w) ==
      /\ past'[w] => pc'[w] \in {"ack", "scheduled", "finish", "notify", "deadletter"}
      /\ past'[w] /\ pc'[w] \in {"finish", "notify"} =>
           goal'[w] = "failed" /\ expired'[held'[w].review]
      /\ pc'[w] = "deadletter" =>
           "failed" \in decided'[held'[w].review] /\ expired'[held'[w].review]
<1> SUFFICES ASSUME NEW w \in Handler PROVE OK(w)
  BY DEF LastResort, ReviewOf
<1> USE DEF Typed, HandlersOK, ReviewOf
<1>1. CASE held[w] # NoEntry
  <2>1. /\ held[w].review \in Review
        /\ decided[held[w].review] \subseteq decided'[held[w].review]
        /\ expired[held[w].review] => expired'[held[w].review]
    BY <1>1, HeldEntry, DecidedGrows, ExpiredStays
  <2>2. CASE Still(w)
    BY <2>1, <2>2 DEF LastResort, Still
  <2>3. CASE Crash(w) \/ Release(w)
    BY <2>3 DEF Crash, Release
  <2>4. CASE \/ Interrupt(w) \/ CheckTerminal(w) \/ Begin(w) \/ StageError(w)
             \/ ReviewDone(w) \/ ModelError(w) \/ PreprocessDone(w)
             \/ MarkQueued(w) \/ MarkPending(w) \/ DeadlineCut(w)
    BY <2>1, <2>4
       DEF Interrupt, CheckTerminal, Begin, StageError, ReviewDone, ModelError,
           PreprocessDone, MarkQueued, MarkPending, DeadlineCut,
           Goto, Conclude, At, LastResort
  <2>5. ASSUME Escape(w), ~past[w] PROVE OK(w)
    BY <1>1, <2>5 DEF Escape, Release, Goto, StagedEntries
  <2>6. CASE SlotTimeout(w) \/ SourceError(w) \/ PlanRetry(w)
    BY <2>5, <2>6 DEF SlotTimeout, SourceError, PlanRetry, Goto, Conclude, At, LastResort
  <2>7. CASE Finish(w)
    BY <2>1, <2>3, <2>5, <2>7 DEF Finish, Goto, Conclude, At, LastResort
  <2>8. CASE Notify(w)
    BY <2>1, <2>8 DEF Notify, Goto, At, LastResort, Reported
  <2>9. CASE Ack(w)
    BY <2>3, <2>5, <2>9 DEF Ack
  <2>10. CASE Rescue(w)
    BY <2>1, <2>3, <2>10 DEF Rescue, At, LastResort
  <2>11. CASE DeadLetter(w)
    BY <2>3, <2>11 DEF DeadLetter
  <2>12. ~Dequeue(w) /\ ~Reclaim(w) /\ \A r \in Review : ~RunInProcess(r, w)
    BY <1>1 DEF Dequeue, Reclaim, Take, RunInProcess
  <2> QED
    BY <2>2, <2>3, <2>4, <2>6, <2>7, <2>8, <2>9, <2>10, <2>11, <2>12, OwnSteps DEF Step
<1>2. CASE held[w] = NoEntry
  <2>1. pc[w] = "idle" /\ ~past[w]
    BY <1>2 DEF LastResort
  <2>2. pc'[w] \in {"idle", "claimed", "start"} /\ ~past'[w]
    BY <1>2, <2>1, OwnSteps
       DEF Still, Step, Dequeue, Reclaim, Take, RunInProcess, CheckTerminal, Begin, SlotTimeout,
           PreprocessDone, MarkQueued, SourceError, StageError, ReviewDone, ModelError,
           PlanRetry, MarkPending, Finish, Notify, DeadlineCut, Ack, Rescue, DeadLetter,
           Crash, Interrupt, At, Busy
  <2> QED
    BY <2>2
<1> QED
  BY <1>1, <1>2

LEMMA NextDeadLetters ==
  ASSUME Typed, LastResort, DeadLetterAfterFailure, [Next]_vars
  PROVE  DeadLetterAfterFailure'
<1> USE DEF DeadLetterAfterFailure, Typed
<1>1. dead \subseteq Review
  BY DEF QueuesOK
<1>2. ASSUME NEW w \in Handler, DeadLetter(w) PROVE DeadLetterAfterFailure'
  <2>1. dead' \subseteq dead \cup {ReviewOf(w)} /\ ReviewOf(w) \in Review
    BY <1>2, HeldEntry DEF DeadLetter, At, Busy
  <2>2. "failed" \in decided[ReviewOf(w)] /\ expired[ReviewOf(w)]
    BY <1>2 DEF DeadLetter, At, LastResort
  <2> QED
    BY <1>1, <2>1, <2>2, DecidedGrows, ExpiredStays
<1>3. CASE UNCHANGED dead
  BY <1>1, <1>3, DecidedGrows, ExpiredStays
<1> QED
  BY SMTT(60), <1>2, <1>3 DEF Next, Step, vars, queueVars,
         Create, PersistCreated, Enqueue, RunInProcess, Cancel, Dequeue, Reclaim, Take,
         CheckTerminal, Begin, SlotTimeout, Progress, PreprocessDone, MarkQueued,
         SourceError, StageError, ReviewDone, ModelError, PlanRetry, MarkPending,
         Finish, Notify, DeadlineCut, Ack, Rescue, DeadlinePasses,
         ReconcileMark, ReconcileReport, ReconcileCrash, Crash, Interrupt, Promote

\* In the staged deployment a review is in the dead-letter stream only after it
\* was recorded as failed and its 30 minutes were over.
THEOREM DeadLettersAreFinal ==
  ASSUME Modes = {"staged"}
  PROVE  Spec => []DeadLetterAfterFailure
<1> DEFINE Inv == Typed /\ Reported /\ StagedEntries /\ LastResort /\ DeadLetterAfterFailure
<1>1. Init => Inv
  BY InitTyped
     DEF Init, Reported, StagedEntries, LastResort, DeadLetterAfterFailure, Queue
<1>2. Inv /\ [Next]_vars => Inv'
  BY NextTyped, NextReported, NextStagedEntries, NextLastResort, NextDeadLetters
<1> QED
  BY <1>1, <1>2, PTL DEF Spec

-----------------------------------------------------------------------------
(***************************************************************************)
(* Refinement: the pipeline implements ReviewObligation.  A step decides,  *)
(* dead-letters or accepts at most one review; an accepted review that is  *)
(* neither is owed by an entry, by NoReviewDropped.                        *)
(***************************************************************************)

\* What a review's phase depends on, apart from the entry that carries it, is
\* left alone by a step.
Untouched(q) ==
  /\ decided'[q] = decided[q]
  /\ q \in dead' <=> q \in dead
  /\ api'[q] = "accepted" <=> api[q] = "accepted"

\* With nothing dropped, the phase of a review does not depend on the queues.
PlainPhase(q) ==
  IF decided[q] # {} \/ q \in dead THEN "settled"
  ELSE IF api[q] = "accepted" THEN "owed" ELSE "new"

LEMMA PhaseIsPlain ==
  ASSUME NoReviewDropped, NEW q \in Review
  PROVE  PhaseOf(q) = PlainPhase(q)
  BY DEF NoReviewDropped, PhaseOf, PlainPhase, Owing

\* A step that records an outcome accepts and dead-letters nothing.
LEMMA RecordingTouchesOne ==
  ASSUME Typed, JobStep
  PROVE  \E r : \A q \in Review \ {r} : Untouched(q)
<1> USE DEF Typed, JobsOK, EnvOK, Untouched
<1>1. ASSUME NEW r \in Review, Create(r)
      PROVE  \A q \in Review \ {r} : Untouched(q)
  BY <1>1 DEF Create, queueVars
<1>2. ASSUME NEW r \in Review, PersistCreated(r)
      PROVE  \A q \in Review \ {r} : Untouched(q)
  BY <1>2 DEF PersistCreated, queueVars
<1>3. ASSUME NEW r \in Review, Cancel(r)
      PROVE  \A q \in Review \ {r} : Untouched(q)
  BY <1>3 DEF Cancel, Record, queueVars, envVars
<1>4. ASSUME NEW r \in Review, ReconcileMark(r) \/ ReconcileReport(r)
      PROVE  \A q \in Review \ {r} : Untouched(q)
  BY <1>4 DEF ReconcileMark, ReconcileReport, Record, queueVars
<1>5. ASSUME NEW w \in Handler, Begin(w) \/ Progress(w) \/ MarkQueued(w) \/ MarkPending(w)
      PROVE  \A q \in Review : Untouched(q)
  BY <1>5 DEF Begin, Progress, MarkQueued, MarkPending, WriteLive, CopyToDb,
              jobVars, queueVars, envVars
<1>6. ASSUME NEW w \in Handler, Finish(w)
      PROVE  \A q \in Review \ {ReviewOf(w)} : Untouched(q)
  BY <1>6 DEF Finish, Record, queueVars, envVars
<1> QED
  BY <1>1, <1>2, <1>3, <1>4, <1>5, <1>6 DEF JobStep

\* Every other step accepts a review, dead-letters one, or does neither.
LEMMA OtherStepTouchesOne ==
  ASSUME Typed, [Next]_vars, ~JobStep
  PROVE  \E r : \A q \in Review \ {r} : Untouched(q)
<1>1. UNCHANGED decided
  BY OnlyJobSteps DEF jobVars
<1>2. ASSUME NEW r \in Review, Enqueue(r)
      PROVE  \A q \in Review \ {r} : Untouched(q)
  BY <1>1, <1>2 DEF Enqueue, Untouched, Typed, EnvOK
<1>3. ASSUME NEW r \in Review, NEW w \in Handler, RunInProcess(r, w)
      PROVE  \A q \in Review \ {r} : Untouched(q)
  BY <1>1, <1>3 DEF RunInProcess, Untouched, Typed, EnvOK, queueVars
<1>4. ASSUME NEW w \in Handler, DeadLetter(w)
      PROVE  \A q \in Review \ {ReviewOf(w)} : Untouched(q)
  BY <1>1, <1>4 DEF DeadLetter, Untouched, envVars
<1>5. UNCHANGED <<dead, api>> => \A q \in Review : Untouched(q)
  BY <1>1 DEF Untouched
<1>6. \/ \E r \in Review : Enqueue(r) \/ \E w \in Handler : RunInProcess(r, w)
      \/ \E w \in Handler : DeadLetter(w)
      \/ UNCHANGED <<dead, api>>
  BY SMTT(60) DEF JobStep, Next, Step, vars, queueVars, envVars,
         Dequeue, Reclaim, Take, CheckTerminal, SlotTimeout, PreprocessDone,
         SourceError, StageError, ReviewDone, ModelError, PlanRetry,
         Notify, DeadlineCut, Ack, Rescue, DeadlinePasses,
         ReconcileCrash, Crash, Interrupt, Promote
<1> QED
  BY <1>2, <1>3, <1>4, <1>5, <1>6

\* What has been accepted or dead-lettered stays so.
LEMMA AcceptedStays ==
  ASSUME Typed, [Next]_vars, NEW r \in Review
  PROVE  /\ api[r] = "accepted" => api'[r] = "accepted"
         /\ r \in dead => r \in dead'
  BY SMTT(60) DEF Typed, EnvOK, Next, Step, vars, envVars, queueVars,
         Create, PersistCreated, Enqueue, RunInProcess, Cancel, Dequeue, Reclaim, Take,
         CheckTerminal, Begin, SlotTimeout, Progress, PreprocessDone, MarkQueued,
         SourceError, StageError, ReviewDone, ModelError, PlanRetry, MarkPending,
         Finish, Notify, DeadlineCut, Ack, Rescue, DeadLetter, DeadlinePasses,
         ReconcileMark, ReconcileReport, ReconcileCrash, Crash, Interrupt, Promote

\* Every step of the pipeline is a step of the obligation, or none.
LEMMA StepKeepsObligation ==
  ASSUME Typed, NoReviewDropped, NoReviewDropped', [Next]_vars
  PROVE  [Obligation!Next]_([r \in Review |-> PhaseOf(r)])
<1> DEFINE phase == [r \in Review |-> PlainPhase(r)]
<1>1. [r \in Review |-> PhaseOf(r)] = phase
  BY PhaseIsPlain
<1>2. [r \in Review |-> PhaseOf(r)]' = phase'
  <2>1. \A q \in Review : PhaseOf(q)' = PlainPhase(q)'
    BY DEF NoReviewDropped, PhaseOf, PlainPhase, Owing
  <2> QED
    BY <2>1
<1>3. PICK r : \A q \in Review \ {r} : Untouched(q)
  BY RecordingTouchesOne, OtherStepTouchesOne
<1>4. \A q \in Review \ {r} : PlainPhase(q)' = PlainPhase(q)
  BY <1>3 DEF Untouched, PlainPhase
<1>5. CASE r \notin Review
  BY <1>1, <1>2, <1>4, <1>5
<1>6. CASE r \in Review
  <2>1. \/ PlainPhase(r)' = PlainPhase(r)
        \/ PlainPhase(r) = "new" /\ PlainPhase(r)' = "owed"
        \/ PlainPhase(r) \in {"new", "owed"} /\ PlainPhase(r)' = "settled"
    BY <1>6, AcceptedStays, DecidedGrows DEF PlainPhase
  <2>2. phase' = [phase EXCEPT ![r] = PlainPhase(r)']
    BY <1>4
  <2>3. CASE PlainPhase(r)' = PlainPhase(r)
    BY <1>1, <1>2, <1>4, <1>6, <2>3
  <2>4. CASE PlainPhase(r) = "new" /\ PlainPhase(r)' = "owed"
    <3>1. Obligation!Accept(r)
      BY <1>1, <1>2, <1>6, <2>2, <2>4 DEF Obligation!Accept
    <3> QED
      BY <1>6, <3>1 DEF Obligation!Next
  <2>5. CASE PlainPhase(r) \in {"new", "owed"} /\ PlainPhase(r)' = "settled"
    <3>1. Obligation!Settle(r)
      BY <1>1, <1>2, <1>6, <2>2, <2>5 DEF Obligation!Settle
    <3> QED
      BY <1>6, <3>1 DEF Obligation!Next
  <2> QED
    BY <2>1, <2>3, <2>4, <2>5
<1> QED
  BY <1>5, <1>6

\* The pipeline implements the obligation: whatever the deployment, the faults,
\* crashes and duplicates, what is accepted is owed until it is settled.
THEOREM PipelineKeepsObligation == Spec => KeepsObligation
<1> DEFINE Inv == Typed /\ Recorded /\ Reported /\ NoReviewDropped
<1>1. Init => Inv
  BY InitTyped DEF Init, Recorded, Reported, NoReviewDropped, Terminal
<1>2. Inv /\ [Next]_vars => Inv'
  BY NextTyped, NextRecorded, NextReported, NextNotDropped
<1>3. Init => Obligation!Init
  BY DEF Init, Obligation!Init, PhaseOf
<1>4. Inv /\ Inv' /\ [Next]_vars => [Obligation!Next]_([r \in Review |-> PhaseOf(r)])
  BY StepKeepsObligation
<1> QED
  BY <1>1, <1>2, <1>3, <1>4, PTL DEF Spec, KeepsObligation, Obligation!Spec
-----------------------------------------------------------------------------
(***************************************************************************)
(* Work is not multiplied.  The bound counts more than the property does:  *)
(* an entry whose handler is only reporting its outcome still counts,      *)
(* since the deadline can send that handler back.  While nothing fails, a  *)
(* new entry comes only with the hand-over of another, and only a crash or *)
(* a shutdown takes a hand-over back.                                      *)
(***************************************************************************)

Faultless == ~PgFaults /\ ~RedisFaults /\ ~LateHeartbeats

HandedAt    == {"enqueued", "scheduled", "ack"}
Handed(e)   == \E w \in Handler : held[w] = e /\ pc[w] \in HandedAt
Unhanded(r) == {e \in Queue : e.review = r /\ ~Handed(e)}

\* Without Redis failures nothing runs in the API process, and entries are those
\* of accepted reviews.
Genuine ==
  /\ \A e \in Queue : e.id \in EntryId /\ api[e.review] = "accepted"
  /\ \A w \in Handler : held[w] # NoEntry => ~IsLocal(w)

Bounded(S, n) == IsFiniteSet(S) /\ Cardinality(S) <= 1 + n

WorkBounded == \A r \in Review : Bounded(Unhanded(r), crashes)

\* How a bounded set may change with the counter.
LEMMA BoundedSubset ==
  ASSUME NEW S, NEW T \in SUBSET S, NEW m \in Nat, NEW n \in Nat, m <= n, Bounded(S, m)
  PROVE  Bounded(T, n)
<1>1. IsFiniteSet(T) /\ Cardinality(T) <= Cardinality(S)
  BY FS_Subset DEF Bounded
<1>2. Cardinality(T) \in Nat /\ Cardinality(S) \in Nat
  BY <1>1, FS_CardinalityType DEF Bounded
<1> QED
  BY <1>1, <1>2 DEF Bounded

LEMMA BoundedAdd ==
  ASSUME NEW S, NEW x, NEW n \in Nat, Bounded(S, n)
  PROVE  Bounded(S \cup {x}, n + 1)
<1>1. /\ IsFiniteSet(S \cup {x})
      /\ Cardinality(S \cup {x}) = IF x \in S THEN Cardinality(S) ELSE Cardinality(S) + 1
  BY FS_AddElement DEF Bounded
<1>2. Cardinality(S) \in Nat
  BY FS_CardinalityType DEF Bounded
<1> QED
  BY <1>1, <1>2 DEF Bounded

LEMMA BoundedReplace ==
  ASSUME NEW S, NEW x \in S, NEW y, NEW n \in Nat, Bounded(S, n)
  PROVE  Bounded((S \ {x}) \cup {y}, n)
<1>1. IsFiniteSet(S \ {x}) /\ Cardinality(S \ {x}) = Cardinality(S) - 1
  BY FS_RemoveElement DEF Bounded
<1>2. /\ IsFiniteSet((S \ {x}) \cup {y})
      /\ Cardinality((S \ {x}) \cup {y})
           = IF y \in S \ {x} THEN Cardinality(S \ {x}) ELSE Cardinality(S \ {x}) + 1
  BY <1>1, FS_AddElement
<1>3. Cardinality(S) \in Nat
  BY FS_CardinalityType DEF Bounded
<1> QED
  BY <1>1, <1>2, <1>3 DEF Bounded

\* One entry is within every bound.
LEMMA BoundedOne ==
  ASSUME NEW x, NEW n \in Nat
  PROVE  Bounded({x}, n)
  BY FS_Singleton DEF Bounded

\* A step of one handler that adds no entry, and takes no hand-over back.
LEMMA QuietStep ==
  ASSUME NEW w \in Handler, Queue' \subseteq Queue, NEW r,
         \A v \in Handler \ {w} : held'[v] = held[v] /\ pc'[v] = pc[v],
         pc[w] \in HandedAt =>
           (held'[w] = held[w] /\ pc'[w] \in HandedAt) \/ held[w] \notin Queue'
  PROVE  Unhanded(r)' \subseteq Unhanded(r)
<1> SUFFICES ASSUME NEW e \in Queue', e.review = r, ~Handed(e)'
             PROVE  e \in Queue /\ ~Handed(e)
  BY DEF Unhanded
<1>1. ASSUME NEW v \in Handler, held[v] = e, pc[v] \in HandedAt PROVE FALSE
  BY <1>1 DEF Handed
<1> QED
  BY <1>1 DEF Handed

\* A step that replaces a handler's entry by a new one.
LEMMA HandOverStep ==
  ASSUME NEW w \in Handler, held[w] \in Queue, pc[w] \notin HandedAt,
         \A v \in Handler : held[v] = held[w] => v = w,
         NEW y, y.review = ReviewOf(w), Queue' \subseteq Queue \cup {y},
         held' = held, pc'[w] \in HandedAt,
         \A v \in Handler \ {w} : pc'[v] = pc[v],
         crashes \in Nat, crashes' = crashes, WorkBounded
  PROVE  WorkBounded'
<1> SUFFICES ASSUME NEW r \in Review PROVE Bounded(Unhanded(r)', crashes)
  BY DEF WorkBounded
<1>1. Bounded(Unhanded(r), crashes)
  BY DEF WorkBounded
<1>2. ASSUME NEW e, Handed(e) PROVE Handed(e)'
  BY <1>2 DEF Handed
<1>3. CASE ReviewOf(w) = r
  <2>1. held[w] \in Unhanded(r)
    BY <1>3 DEF Unhanded, Handed, ReviewOf
  <2>2. Handed(held[w])'
    BY DEF Handed
  <2>3. Unhanded(r)' \subseteq (Unhanded(r) \ {held[w]}) \cup {y}
    BY <1>2, <2>2 DEF Unhanded
  <2>4. Bounded((Unhanded(r) \ {held[w]}) \cup {y}, crashes)
    BY <1>1, <2>1, BoundedReplace
  <2> QED
    BY <2>3, <2>4, BoundedSubset
<1>4. CASE ReviewOf(w) # r
  <2>1. Unhanded(r)' \subseteq Unhanded(r)
    BY <1>2, <1>4 DEF Unhanded
  <2> QED
    BY <1>1, <2>1, BoundedSubset
<1> QED
  BY <1>3, <1>4

\* A step that stops a handler: its entry may count again.
LEMMA StoppingStep ==
  ASSUME NEW w \in Handler, Queue' = Queue,
         \A v \in Handler \ {w} : held'[v] = held[v] /\ pc'[v] = pc[v],
         crashes \in Nat, crashes' = crashes + 1, WorkBounded
  PROVE  WorkBounded'
<1> SUFFICES ASSUME NEW r \in Review PROVE Bounded(Unhanded(r)', crashes + 1)
  BY DEF WorkBounded
<1>1. Unhanded(r)' \subseteq Unhanded(r) \cup {held[w]}
  BY DEF Unhanded, Handed
<1>2. Bounded(Unhanded(r) \cup {held[w]}, crashes + 1)
  BY BoundedAdd DEF WorkBounded
<1> QED
  BY <1>1, <1>2, BoundedSubset

LEMMA NextGenuine ==
  ASSUME Faultless, Typed, OwnPending, Genuine, [Next]_vars
  PROVE  Genuine'
<1> USE DEF Typed, QueuesOK
<1>1. \A e \in Queue : e.id \in EntryId /\ e.review \in Review /\ api'[e.review] = "accepted"
  BY AcceptedStays DEF Genuine, Queue, Entry
<1>2. ASSUME NEW w \in Handler, held[w] # NoEntry
      PROVE  api'[ReviewOf(w)] = "accepted"
  BY <1>1, <1>2 DEF Genuine, OwnPending, Queue, ReviewOf
<1>3. \A e \in Queue' : e.id \in EntryId /\ api'[e.review] = "accepted"
  <2> DEFINE Goal == \A e \in Queue' : e.id \in EntryId /\ api'[e.review] = "accepted"
  <2>1. CASE Queue' \subseteq Queue
    BY <1>1, <2>1
  <2>2. ASSUME NEW r \in Review, Enqueue(r) PROVE Goal
    <3>1. PICK i \in FreshId, s \in Stage :
            Queue' = Queue \cup {[id |-> i, review |-> r, dl |-> 0, stage |-> s]}
      BY <2>2 DEF Enqueue, Faultless, Stage, Queue
    <3>2. api'[r] = "accepted"
      BY <2>2 DEF Enqueue, Faultless, EnvOK
    <3> QED
      BY <1>1, <3>1, <3>2 DEF FreshId
  <2>3. ASSUME NEW w \in Handler, NEW s, NEW d, held[w] # NoEntry, Delay(w, s, d),
               UNCHANGED <<stream, pel>>
        PROVE  Goal
    <3>1. PICK i \in FreshId :
            Queue' = Queue \cup {[id |-> i, review |-> ReviewOf(w), stage |-> s, dl |-> d]}
      BY <2>3 DEF Delay, Queue
    <3> QED
      BY <1>1, <1>2, <2>3, <3>1 DEF FreshId
  <2>4. ASSUME NEW w \in Handler, PreprocessDone(w) PROVE Goal
    <3>1. PICK i \in FreshId :
            Queue' = Queue \cup {[id |-> i, review |-> ReviewOf(w), stage |-> "model",
                                  dl |-> held[w].dl]}
      BY <2>4 DEF PreprocessDone, Faultless, Queue
    <3> QED
      BY <1>1, <1>2, <2>4, <3>1 DEF PreprocessDone, At, Busy, FreshId
  <2>5. ASSUME NEW w \in Handler, SourceError(w) \/ PlanRetry(w) \/ Rescue(w) PROVE Goal
    <3>1. held[w] # NoEntry /\ UNCHANGED <<stream, pel>>
      BY <2>5 DEF SourceError, PlanRetry, Rescue, At, Busy
    <3>2. UNCHANGED delayed \/ \E s, d : Delay(w, s, d)
      BY <2>5 DEF SourceError, PlanRetry, Rescue
    <3> QED
      BY <2>1, <2>3, <3>1, <3>2 DEF Queue
  <2>6. ASSUME NEW w \in Handler, Dequeue(w) \/ Ack(w) \/ DeadLetter(w)
        PROVE  Queue' \subseteq Queue
    BY <2>6 DEF Dequeue, Ack, DeadLetter, Take, Queue
  <2>7. CASE Promote
    BY <2>1, <2>7 DEF Promote, Queue
  <2>8. CASE ~QueueStep
    BY <2>1, <2>8, OnlyQueueSteps DEF Queue
  <2> QED
    BY <2>1, <2>2, <2>4, <2>5, <2>6, <2>7, <2>8 DEF QueueStep
<1>4. ASSUME NEW v \in Handler, held'[v] # NoEntry PROVE held'[v].id # LocalId
  <2> USE DEF Genuine, IsLocal, HandlersOK
  <2>1. CASE ~PendingStep
    BY <1>4, <2>1, OnlyPendingSteps
  <2>2. ASSUME NEW w \in Handler, Dequeue(w) \/ Reclaim(w) PROVE held'[v].id # LocalId
    BY <1>1, <1>4, <2>2, PipelineAssumption DEF Dequeue, Reclaim, Take, Queue
  <2>3. ASSUME NEW w \in Handler, Ack(w) \/ DeadLetter(w) PROVE held'[v].id # LocalId
    BY <1>4, <2>3 DEF Ack, DeadLetter, Release, Escape, Goto
  <2> QED
    BY <2>1, <2>2, <2>3 DEF PendingStep, RunInProcess, Faultless
<1> QED
  BY <1>3, <1>4 DEF Genuine, IsLocal

LEMMA NextWorkBounded ==
  ASSUME Faultless, Typed, Apart, OwnPending, Genuine, WorkBounded, [Next]_vars
  PROVE  WorkBounded'
<1> USE DEF Typed, HandlersOK
<1>1. crashes \in Nat
  BY DEF EnvOK
<1>2. ASSUME \A r \in Review : Unhanded(r)' \subseteq Unhanded(r),
             crashes' \in {crashes, crashes + 1}
      PROVE  WorkBounded'
  BY <1>1, <1>2, BoundedSubset DEF WorkBounded
<1>3. ASSUME NEW w \in Handler, held[w] # NoEntry
      PROVE  /\ held[w] \in pel /\ held[w] \in Queue
             /\ \A v \in Handler : held[v] = held[w] => v = w
             /\ held[w] \notin stream /\ held[w] \notin delayed
  BY <1>3 DEF Genuine, OwnPending, Queue, Apart
\* Steps that leave every handler and every entry where they are.
<1>4. CASE UNCHANGED <<handlerVars, Queue>> /\ crashes' \in {crashes, crashes + 1}
  <2>1. \A r \in Review : Unhanded(r)' \subseteq Unhanded(r)
    BY <1>4 DEF Unhanded, Handed, handlerVars
  <2> QED
    BY <1>2, <1>4, <2>1
<1>5. ASSUME NEW r \in Review, Enqueue(r) PROVE WorkBounded'
  <2>1. PICK i \in FreshId, s \in Stage :
          Queue' = Queue \cup {[id |-> i, review |-> r, dl |-> 0, stage |-> s]}
    BY <1>5 DEF Enqueue, Faultless, Stage, Queue
  <2> DEFINE e == [id |-> i, review |-> r, dl |-> 0, stage |-> s]
  <2>2. \A f \in Queue : f.review # r
    BY <1>5 DEF Enqueue, Genuine
  <2>3. \A f : Handed(f) => Handed(f)'
    BY <1>5 DEF Enqueue, Handed, handlerVars
  <2>4. Unhanded(r)' \subseteq {e}
    BY <2>1, <2>2 DEF Unhanded
  <2>5. \A q \in Review \ {r} : Unhanded(q)' \subseteq Unhanded(q)
    BY <2>1, <2>3 DEF Unhanded
  <2>6. crashes' = crashes
    BY <1>5 DEF Enqueue
  <2>7. Bounded(Unhanded(r)', crashes)
    <3>1. Bounded({e}, crashes)
      BY <1>1, BoundedOne
    <3> HIDE DEF e
    <3> QED
      BY <1>1, <2>4, <3>1, BoundedSubset
  <2>8. ASSUME NEW q \in Review \ {r} PROVE Bounded(Unhanded(q)', crashes)
    BY <1>1, <2>5, BoundedSubset DEF WorkBounded
  <2> QED
    BY <2>6, <2>7, <2>8 DEF WorkBounded
<1>6. CASE Promote
  BY <1>4, <1>6 DEF Promote, Queue, envVars
\* Steps of a handler that only move it, or take an entry out.
<1>7. ASSUME NEW w \in Handler,
             \/ Dequeue(w) \/ Reclaim(w) \/ CheckTerminal(w) \/ Begin(w) \/ SlotTimeout(w)
             \/ StageError(w) \/ ReviewDone(w) \/ ModelError(w)
             \/ MarkQueued(w) \/ MarkPending(w) \/ Finish(w) \/ Notify(w) \/ DeadlineCut(w)
      PROVE  WorkBounded'
  <2>1. Queue' \subseteq Queue /\ crashes' = crashes
    BY <1>7 DEF Dequeue, Reclaim, Take, CheckTerminal, Begin, SlotTimeout, StageError,
         ReviewDone, ModelError, MarkQueued, MarkPending, Finish, Notify, DeadlineCut,
         Queue, queueVars, envVars
  <2>2. \A v \in Handler \ {w} : held'[v] = held[v] /\ pc'[v] = pc[v]
    BY <1>7 DEF Dequeue, Reclaim, Take, CheckTerminal, Begin, SlotTimeout, StageError,
         ReviewDone, ModelError, MarkQueued, MarkPending, Finish, Notify, DeadlineCut,
         Goto, Conclude, Release, Escape
  <2>3. pc[w] \in HandedAt => held'[w] = held[w] /\ pc'[w] \in HandedAt
    BY <1>7 DEF Dequeue, Reclaim, Take, CheckTerminal, Begin, SlotTimeout, StageError,
         ReviewDone, ModelError, MarkQueued, MarkPending, Finish, Notify, DeadlineCut,
         Goto, At, HandedAt, Faultless
  <2> QED
    BY <1>2, <2>1, <2>2, <2>3, QuietStep
<1>8. ASSUME NEW w \in Handler, Ack(w) \/ DeadLetter(w) PROVE WorkBounded'
  <2>1. pel' = pel \ {held[w]} /\ Release(w) /\ UNCHANGED <<stream, delayed, crashes>>
    BY <1>8 DEF Ack, DeadLetter, Faultless, envVars
  <2>2. held[w] \notin Queue'
    BY <1>3, <1>8, <2>1 DEF Ack, DeadLetter, At, Busy, Queue
  <2> QED
    BY <1>2, <2>1, <2>2, QuietStep DEF Release, Queue
\* Steps that hand the work of an entry over to a new one, or only move.
<1>9. ASSUME NEW w \in Handler, held[w] # NoEntry, pc[w] \notin HandedAt,
             NEW y, y.review = ReviewOf(w), Queue' \subseteq Queue \cup {y},
             held' = held, pc'[w] \in HandedAt,
             \A v \in Handler \ {w} : pc'[v] = pc[v], crashes' = crashes
      PROVE  WorkBounded'
  BY <1>1, <1>3, <1>9, HandOverStep
<1>10. ASSUME NEW w \in Handler, PreprocessDone(w) PROVE WorkBounded'
  <2>1. PICK i \in FreshId :
          Queue' = Queue \cup {[id |-> i, review |-> ReviewOf(w), stage |-> "model",
                                dl |-> held[w].dl]}
    BY <1>10 DEF PreprocessDone, Faultless, Queue
  <2> QED
    BY <1>9, <1>10, <2>1 DEF PreprocessDone, Faultless, Goto, At, Busy, HandedAt, envVars
<1>11. ASSUME NEW w \in Handler, SourceError(w) \/ PlanRetry(w) \/ Rescue(w)
       PROVE  WorkBounded'
  <2>1. /\ held[w] # NoEntry /\ pc[w] \notin HandedAt
        /\ UNCHANGED <<stream, pel, held, crashes>>
        /\ \A v \in Handler \ {w} : pc'[v] = pc[v]
    BY <1>11 DEF SourceError, PlanRetry, Rescue, Goto, Conclude, At, Busy, HandedAt,
         Faultless, envVars
  <2>2. CASE UNCHANGED delayed
    BY <1>2, <2>1, <2>2, QuietStep DEF Queue
  <2>3. ASSUME NEW s, NEW d, Delay(w, s, d), pc'[w] = "scheduled" PROVE WorkBounded'
    <3>1. PICK i \in FreshId :
            Queue' = Queue \cup {[id |-> i, review |-> ReviewOf(w), stage |-> s, dl |-> d]}
      BY <2>1, <2>3 DEF Delay, Queue
    <3> QED
      BY <1>9, <2>1, <2>3, <3>1 DEF HandedAt
  <2>4. UNCHANGED delayed \/ \E s, d : Delay(w, s, d) /\ pc'[w] = "scheduled"
    BY <1>11 DEF SourceError, PlanRetry, Rescue, Goto, Faultless
  <2> QED
    BY <2>2, <2>3, <2>4
\* Steps that stop a handler.
<1>12. ASSUME NEW w \in Handler, Crash(w) \/ Interrupt(w) PROVE WorkBounded'
  BY <1>1, <1>12, StoppingStep
     DEF Crash, Interrupt, Release, Conclude, queueVars, Queue
\* The others leave handlers and queues alone.
<1>13. ASSUME ~QueueStep, \A w \in Handler :
                /\ ~Reclaim(w) /\ ~Step(w) /\ ~SlotTimeout(w) /\ ~Crash(w) /\ ~Interrupt(w)
       PROVE  UNCHANGED <<handlerVars, Queue>> /\ crashes' \in {crashes, crashes + 1}
  BY SMTT(60), <1>13 DEF Next, QueueStep, vars, handlerVars, queueVars, envVars, Queue, Faultless,
       Create, PersistCreated, RunInProcess, Cancel, Progress, DeadlinePasses,
       ReconcileMark, ReconcileReport, ReconcileCrash
<1> QED
  BY <1>4, <1>5, <1>6, <1>7, <1>8, <1>10, <1>11, <1>12, <1>13 DEF QueueStep, Step

\* While Redis and PostgreSQL answer and heartbeats are punctual, a review is in at
\* most one unsettled entry, and one more per crash or shutdown: retries, hand-overs
\* and promotions never multiply the work.
THEOREM WorkIsNotMultiplied == Spec => []WorkNotMultiplied
<1> DEFINE Inv == /\ Typed /\ Apart
                  /\ Faultless => OwnPending /\ Genuine /\ WorkBounded
<1>1. Init => Inv
  <2>1. ASSUME Init, NEW r \in Review PROVE Bounded(Unhanded(r), crashes)
    <3>1. Unhanded(r) = {} /\ crashes = 0
      BY <2>1 DEF Init, Unhanded, Queue
    <3> QED
      BY <3>1, FS_EmptySet DEF Bounded
  <2> QED
    BY <2>1, InitTyped DEF Init, Apart, OwnPending, Genuine, WorkBounded, Queue
<1>2. Inv /\ [Next]_vars => Inv'
  BY NextTyped, NextApart, NextOwnPending, NextGenuine, NextWorkBounded DEF Faultless
<1>3. Inv => WorkNotMultiplied
  <2> SUFFICES ASSUME Inv, Faultless, NEW r \in Review
               PROVE  Cardinality({e \in Queue : e.review = r /\ ~Settled(e)}) <= 1 + crashes
    BY DEF WorkNotMultiplied, Faultless
  <2> DEFINE Unsettled == {e \in Queue : e.review = r /\ ~Settled(e)}
  <2>1. Unsettled \subseteq Unhanded(r)
    BY DEF Unhanded, Handed, HandedAt, Settled
  <2>2. crashes \in Nat /\ Bounded(Unhanded(r), crashes)
    BY DEF Typed, EnvOK, WorkBounded
  <2>3. Bounded(Unsettled, crashes)
    <3> HIDE DEF Unsettled
    <3> QED
      BY <2>1, <2>2, BoundedSubset
  <2> QED
    BY <2>3 DEF Bounded
<1> QED
  BY <1>1, <1>2, <1>3, PTL DEF Spec
=============================================================================
