------------------------------ MODULE ModelReview ------------------------------
(***************************************************************************)
(* The model stage of one review (_run_model_review and what it calls):    *)
(* the frames of a segment are reviewed in batches that run concurrently;  *)
(* each model call is routed over the provider channels and retried within *)
(* a budget; a batch that keeps failing is split; an error that escapes    *)
(* ends the run, and a later run of the stage finds the cached batches.    *)
(*                                                                         *)
(* asyncio.gather raises the first error and leaves the other batches      *)
(* running, so batches of an earlier run may run beside the current one.   *)
(* A channel in cooldown is skipped; as every review shares the cooldowns, *)
(* any channel may be.                                                     *)
(***************************************************************************)
EXTENDS Integers, Sequences, SequencesExt

CONSTANTS Frames,            \* frames of the segment
          BatchSize,         \* VIDEO_REVIEW_FRAME_BATCH_SIZE
          MinSize,           \* ..._FRAME_BATCH_MIN_SIZE
          MaxDepth,          \* ..._FRAME_BATCH_MAX_SPLIT_DEPTH
          Concurrency,       \* ..._FRAME_BATCH_CONCURRENCY
          Channels,          \* the channels' families, in the order of routing
          ParseAttempts, TransientAttempts, RateAttempts,
          Budget,            \* extra attempts of a run
          Errors,            \* bound: the kinds of error that channels raise
          MaxRuns            \* bound: runs that fit before the deadline

\* final: auth, permanent and other errors; contract: parse and validation.
Kinds     == {"block", "contract", "rate", "transient", "circuit", "final"}

ASSUME ReviewAssumption ==
  /\ {Frames, BatchSize, MinSize, Concurrency, MaxRuns} \subseteq Nat \ {0}
  /\ {ParseAttempts, TransientAttempts, RateAttempts} \subseteq Nat \ {0}
  /\ MaxDepth \in Nat /\ Budget \in Nat
  /\ Channels \in Seq({"gemini", "grok"}) /\ Channels # <<>>
  /\ Errors \subseteq Kinds \ {"block"}

VARIABLES
  stage,     \* waiting, running, done, failed
  run,       \* number of runs that began
  carried,   \* metadata["model_excluded_families"]
  task,      \* each run's batches
  excluded,  \* each run's router.excluded_families
  used,      \* each run's retry budget used
  cache,     \* frame batches with a cached result
  result     \* per batch, the frames whose results are in the report, in order

request == <<stage, run, carried>>
vars    == <<request, task, excluded, used, cache, result>>

Families == ToSet(Channels)
Starts   == {s \in 0..(Frames - 1) : s % BatchSize = 0}
Task     == (1..MaxRuns) \X Starts

Retryable == Kinds \ {"final"}

AttemptLimit(k) ==
  CASE k = "contract"                  -> ParseAttempts
    [] k = "rate"                      -> RateAttempts
    [] k \in {"transient", "circuit"}  -> TransientAttempts
    [] OTHER                           -> 1

-----------------------------------------------------------------------------
(* Pieces of a batch *)

Upto(n) == IF n < Frames THEN n ELSE Frames

\* The batch that starts after s frames, as one piece.
Batch(s) == [from |-> s + 1, to |-> Upto(s + BatchSize), depth |-> 0]

Size(p)     == p.to - p.from + 1
FramesOf(p) == [i \in 1..Size(p) |-> p.from + i - 1]
Key(p)      == <<p.from, p.to>>

\* Mutation of Halves: the halves overlap by the frame in the middle.
HalvesOverlap(p) ==
  LET mid == p.from + Size(p) \div 2
  IN  << [from |-> p.from, to |-> mid,  depth |-> p.depth + 1],
         [from |-> mid,    to |-> p.to, depth |-> p.depth + 1] >>

\* batch[:midpoint] and batch[midpoint:], midpoint = max(1, len // 2).
Halves(p) ==
  LET half == IF Size(p) > 1 THEN Size(p) \div 2 ELSE 1
      mid  == p.from + half
  IN  << [from |-> p.from, to |-> mid - 1, depth |-> p.depth + 1],
         [from |-> mid,    to |-> p.to,    depth |-> p.depth + 1] >>

-----------------------------------------------------------------------------
(* A batch's progress: the pieces still to do, in order, and for the first  *)
(* of them whether its last analysis runs, the attempt, the next channel    *)
(* and the error of the previous one.                                       *)

Idle == [pc |-> "gone", todo |-> <<>>, again |-> FALSE, attempt |-> 1,
         ch |-> 1, kind |-> "transient", got |-> <<>>, refused |-> {}]

Set(t, s) == task' = [task EXCEPT ![t] = s]

Active(r) ==
  {t \in Task : t[1] = r /\ task[t].pc \in {"lookup", "route", "checking", "calling"}}

Init ==
  /\ stage = "waiting" /\ run = 0 /\ carried = {}
  /\ task = [t \in Task |-> Idle]
  /\ excluded = [r \in 1..MaxRuns |-> {}]
  /\ used = [r \in 1..MaxRuns |-> 0]
  /\ cache = {} /\ result = [s \in Starts |-> <<>>]

\* The worker runs the stage, with a router and a retry budget of its own.
Begin ==
  /\ stage = "waiting" /\ run < MaxRuns
  /\ stage' = "running" /\ run' = run + 1
  /\ task' = [t \in Task |->
                IF t[1] = run + 1
                THEN [Idle EXCEPT !.pc = "queued", !.todo = <<Batch(t[2])>>]
                ELSE task[t]]
  /\ excluded' = [excluded EXCEPT ![run + 1] = carried]
  /\ UNCHANGED <<carried, used, cache, result>>

\* The batch semaphore lets the batches of a run in, in order.
Start(t) ==
  /\ task[t].pc = "queued"
  /\ \A s \in Starts : s < t[2] => task[<<t[1], s>>].pc # "queued"
  /\ Cardinality(Active(t[1])) < Concurrency
  /\ Set(t, [task[t] EXCEPT !.pc = "lookup"])
  /\ UNCHANGED <<request, excluded, used, cache, result>>

\* The batch after its first piece has a result.
Finished(s) ==
  LET rest == Tail(s.todo)
      got  == s.got \o FramesOf(Head(s.todo))
  IN  IF rest = <<>> THEN [Idle EXCEPT !.pc = "done", !.got = got]
      ELSE [Idle EXCEPT !.pc = "lookup", !.got = got, !.todo = rest,
                        !.refused = s.refused]

-----------------------------------------------------------------------------
(* An error of a model call *)

\* Mutation of MayRetry: the budget is not consulted.
MayRetryUnbudgeted(t, k) == task[t].attempt < AttemptLimit(k)

MayRetry(t, k) == task[t].attempt < AttemptLimit(k) /\ used[t[1]] < Budget

\* Mutation of Reanalyse: nothing remembers that this was the last analysis.
ReanalyseAgain(s) ==
  [s EXCEPT !.pc = "route", !.attempt = 1, !.ch = 1, !.kind = "transient"]

\* A small batch is analysed once more.
Reanalyse(s) ==
  [s EXCEPT !.pc = "route", !.attempt = 1, !.ch = 1, !.kind = "transient", !.again = TRUE]

Split(s) == [Idle EXCEPT !.pc = "lookup", !.got = s.got, !.refused = s.refused,
                         !.todo = Halves(Head(s.todo)) \o Tail(s.todo)]

\* The batch raises.  The first error of a run ends it; the others go nowhere.
Escape(t, k, families) ==
  IF stage = "running" /\ t[1] = run
  THEN /\ task' = [u \in Task |->
                     IF u = t \/ (u[1] = run /\ task[u].pc = "done") THEN Idle
                     ELSE task[u]]
       /\ IF k \in Retryable /\ run < MaxRuns
          THEN stage' = "waiting"
               /\ carried' = IF families # {} THEN families ELSE carried
          ELSE stage' = "failed" /\ UNCHANGED carried
  ELSE Set(t, Idle) /\ UNCHANGED <<stage, carried>>

\* The piece is split, analysed once more, or its batch raises.
GiveUp(t, k, families) ==
  LET s     == task[t]
      p     == Head(s.todo)
      large == Size(p) > MinSize
      last  == k # "transient" \/ s.again
  IN  \/ ~last /\ large /\ p.depth < MaxDepth
         /\ Set(t, Split(s)) /\ UNCHANGED <<stage, carried>>
      \/ ~last /\ ~large
         /\ Set(t, Reanalyse(s)) /\ UNCHANGED <<stage, carried>>
      \/ (last \/ (large /\ p.depth >= MaxDepth))
         /\ Escape(t, k, families)

\* What a Redis error is classified as, by its text.
RedisErrors == {"transient", "final"}

\* An attempt failed; only an exhausted router tells the excluded families.
\* Recording the result may raise, which ends the attempts.
Fail(t, k, families) ==
  \/ /\ MayRetry(t, k)
     /\ used' = [used EXCEPT ![t[1]] = @ + 1]
     /\ Set(t, [task[t] EXCEPT !.pc = "route", !.attempt = @ + 1, !.ch = 1,
                               !.kind = "transient"])
     /\ UNCHANGED <<stage, carried>>
  \/ ~MayRetry(t, k) /\ GiveUp(t, k, families) /\ UNCHANGED used
  \/ k # "circuit" /\ UNCHANGED used /\ \E e \in RedisErrors : GiveUp(t, e, {})

-----------------------------------------------------------------------------
(* The frame batch cache *)

\* The cache has the piece, unless it expired or Redis is or was away; reading
\* it may raise.
LookUp(t) ==
  /\ task[t].pc = "lookup"
  /\ \/ /\ \/ Key(Head(task[t].todo)) \in cache /\ Set(t, Finished(task[t]))
           \/ Set(t, [task[t] EXCEPT !.pc = "route"])
        /\ UNCHANGED <<stage, carried>>
     \/ \E k \in RedisErrors : Escape(t, k, {})
  /\ UNCHANGED <<run, excluded, used, cache, result>>

\* The first analysis of a piece writes its result to the cache.  An error of
\* that write loses the result, and so does an error of
\* recording the call, which counts as an error of the attempt.
Answer(t) ==
  /\ task[t].pc = "calling"
  /\ \/ /\ Set(t, Finished(task[t]))
        /\ cache' = IF task[t].again THEN cache
                    ELSE cache \cup {Key(Head(task[t].todo))}
        /\ UNCHANGED <<stage, carried, used>>
     \/ /\ ~task[t].again /\ UNCHANGED <<cache, used>>
        /\ \E k \in RedisErrors : GiveUp(t, k, {})
     \/ UNCHANGED cache /\ \E k \in RedisErrors : Fail(t, k, {})
  /\ UNCHANGED <<run, excluded, result>>

-----------------------------------------------------------------------------
(* ProviderRouter.execute *)

Family(t) == Channels[task[t].ch]

\* The channels from the next one on whose family is not excluded.
Candidates(t) ==
  {c \in task[t].ch..Len(Channels) : Channels[c] \notin excluded[t[1]]}

\* The router takes the first of them and asks whether it cools down, ...
Consider(t) ==
  /\ task[t].pc = "route"
  /\ \E c \in Candidates(t) :
       /\ \A d \in Candidates(t) : c <= d
       /\ Set(t, [task[t] EXCEPT !.pc = "checking", !.ch = c])
  /\ UNCHANGED <<request, excluded, used, cache, result>>

\* ... skips it, or calls it, even if another batch has excluded it meanwhile.
Try(t) ==
  /\ task[t].pc = "checking"
  /\ \/ Set(t, [task[t] EXCEPT !.pc = "route", !.ch = @ + 1])
     \/ Set(t, [task[t] EXCEPT !.pc = "calling"])
  /\ UNCHANGED <<request, excluded, used, cache, result>>

\* No channel is left: the error is that of the last one tried, or the block.
Exhausted(t) ==
  LET out == excluded[t[1]]
  IN  /\ task[t].pc = "route" /\ Candidates(t) = {}
      /\ Fail(t, IF "gemini" \in out /\ Families \subseteq out THEN "block"
                 ELSE task[t].kind, out)
      /\ UNCHANGED <<run, excluded, cache, result>>

NextChannel(t, k) ==
  Set(t, [task[t] EXCEPT !.pc = "route", !.ch = @ + 1, !.kind = k,
            !.refused = IF k = "block" THEN @ \cup {Family(t)} ELSE @])

\* Mutation of Refused: the block excludes nothing.
RefusedOnce(t) ==
  /\ task[t].pc = "calling"
  /\ NextChannel(t, "block")
  /\ UNCHANGED <<request, excluded, used, cache, result>>

\* The provider's content policy blocks the request: its family is excluded.
Refused(t) ==
  /\ task[t].pc = "calling"
  /\ NextChannel(t, "block")
  /\ excluded' = [excluded EXCEPT ![t[1]] = @ \cup {Family(t)}]
  /\ UNCHANGED <<request, used, cache, result>>

ChannelError(t) ==
  /\ task[t].pc = "calling"
  /\ \E k \in Errors : NextChannel(t, k)
  /\ UNCHANGED <<request, excluded, used, cache, result>>

\* wait_for cuts the routing where it awaits: a TimeoutError of its own.
Cut(t) ==
  /\ task[t].pc \in {"checking", "calling"}
  /\ Fail(t, "transient", {})
  /\ UNCHANGED <<run, excluded, cache, result>>

-----------------------------------------------------------------------------

\* gather has all results; they are put in the order of the batches.
Complete ==
  /\ stage = "running"
  /\ \A s \in Starts : task[<<run, s>>].pc = "done"
  /\ result' = [s \in Starts |-> task[<<run, s>>].got]
  /\ stage' = "done"
  /\ task' = [t \in Task |-> IF t[1] = run THEN Idle ELSE task[t]]
  /\ UNCHANGED <<run, carried, excluded, used, cache>>

\* The deadline cancels the run with its batches, or is found to be over.
Deadline ==
  /\ stage \in {"waiting", "running"}
  /\ stage' = "failed"
  /\ task' = [t \in Task |-> IF stage = "running" /\ t[1] = run THEN Idle ELSE task[t]]
  /\ UNCHANGED <<run, carried, excluded, used, cache, result>>

Call(t) ==
  \/ Start(t) \/ LookUp(t) \/ Consider(t) \/ Try(t) \/ Exhausted(t)
  \/ Answer(t) \/ Refused(t) \/ ChannelError(t) \/ Cut(t)

Calls == \E t \in Task : Call(t)

Next == Begin \/ Complete \/ Deadline \/ Calls

Spec == Init /\ [][Next]_vars

\* As long as a batch can go on, the event loop runs one of them; a provider
\* answers, fails or is cut by wait_for.
Fairness == WF_vars(Calls)

FairSpec == Spec /\ Fairness

-----------------------------------------------------------------------------
(* Properties *)

Piece == {p \in [from : 1..Frames, to : 1..Frames, depth : 0..MaxDepth] :
            p.from <= p.to}

\* Types of all variables; a call has at most the configured attempts, and a
\* run no more extra ones than its budget.
TypeOK ==
  /\ stage \in {"waiting", "running", "done", "failed"}
  /\ run \in 0..MaxRuns
  /\ carried \subseteq Families
  /\ \A t \in Task :
       /\ task[t].pc \in {"queued", "lookup", "route", "checking", "calling",
                         "done", "gone"}
       /\ task[t].todo \in Seq(Piece)
       /\ task[t].again \in BOOLEAN
       /\ \E k \in Kinds : task[t].attempt \in 1..AttemptLimit(k)
       /\ task[t].ch \in 1..(Len(Channels) + 1)
       /\ task[t].kind \in Kinds
       /\ task[t].got \in Seq(1..Frames)
       /\ task[t].refused \subseteq Families
  /\ excluded \in [1..MaxRuns -> SUBSET Families]
  /\ used \in [1..MaxRuns -> 0..Budget]
  /\ cache \subseteq (1..Frames) \X (1..Frames)
  /\ result \in [Starts -> Seq(1..Frames)]

\* A completed review is whole: whatever was split, retried, cached or left
\* behind by an earlier run, every batch has all its frames once, in order.
CompletedIsWhole ==
  stage = "done" =>
    \A s \in Starts : result[s] = [i \in 1..(Upto(s + BatchSize) - s) |-> s + i]

\* A batch that a provider family blocked is not sent to that family again in
\* its run: not over another channel, nor by a retry, nor as a part of it.
BlockedNotAskedAgain ==
  [][\A t \in Task :
       task[t].pc # "calling" /\ task'[t].pc = "calling"
         => Channels[task'[t].ch] \notin task[t].refused]_vars

\* Every batch comes to an end, also one that is left over from an earlier run:
\* retries, splits and last analyses do not go round in circles.
BatchesSettle == <>[](\A t \in Task : task[t].pc \in {"done", "gone"})

\* A retry of the stage knows the families that blocked the run before it.
ExclusionSurvivesRetry ==
  [][stage = "running" /\ stage' = "waiting" => excluded[run] \subseteq carried']_vars
==============================================================================
