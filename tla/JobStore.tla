------------------------------- MODULE JobStore -------------------------------
(***************************************************************************)
(* The files of one review (store.py) and those who follow it: the worker  *)
(* that reviews it, API requests that cancel it, the reconciler that fails *)
(* it when its row in PostgreSQL has long said processing, and a browser   *)
(* on its event stream (stream_review in main.py, connectStream in         *)
(* app.js).                                                                *)
(*                                                                         *)
(* Worker and API are processes without a common lock.  jobs/<id>.json is  *)
(* read, truncated and written anew by update_job, and a reader of the     *)
(* empty file gets an exception.  <id>.jsonl is only appended to, but the  *)
(* line of a "complete" event holds the report and takes several writes.   *)
(***************************************************************************)
EXTENDS Naturals, Sequences, FiniteSets

CONSTANTS Worker,       \* worker processes that review it (two: a duplicate delivery)
          Canceller,    \* requests that cancel it
          Reconciler,   \* passes of reconcile_stale_reviews
          MaxWriters,   \* bound: workers, requests and passes that come
          MaxDeaths     \* bound: processes that die

ASSUME JobAssumption == {MaxWriters, MaxDeaths} \subseteq Nat

Writer == Worker \cup Canceller \cup Reconciler
Ended  == {"completed", "failed", "cancelled", "source_unavailable"}

VARIABLES
  does,     \* what each writer does next
  target,   \* the status it is writing
  file,     \* status in the job file
  torn,     \* is the job file empty or mixed up?
  over,     \* writers whose open file another one has written to
  report,   \* has the report been saved?
  log,      \* pieces of the event file
  live,     \* does the review's row in PostgreSQL say processing?
  mixed,    \* history: has a writer written over another's open file?
  client,   \* connecting, reading, checking, closed, or refused
  offset,   \* how far the open stream has read
  sent,     \* what it delivered over this connection
  deaths

writerVars == <<does, target>>
fileVars   == <<file, torn, over, mixed, report, log, live>>
clientVars == <<client, offset, sent>>
jobVars    == <<writerVars, fileVars, clientVars, deaths>>

JobInit ==
  /\ does = [w \in Writer |-> "start"]
  /\ target = [w \in Writer |-> "none"]
  /\ file = "pending" /\ torn = FALSE /\ over = {} /\ mixed = FALSE
  /\ report = FALSE /\ live = FALSE
  /\ log = <<"status">>
  /\ client = "connecting" /\ offset = 0 /\ sent = <<>>
  /\ deaths = 0

Doing(w, l) == does' = [does EXCEPT ![w] = l]

MayCome(w) ==
  does[w] = "start" /\ Cardinality({v \in Writer : does[v] # "start"}) < MaxWriters

-----------------------------------------------------------------------------
(* Lines.  "head" and "rest" are the two halves of the line of a "complete"  *)
(* event; the other events are written at once.  A line that is not yet      *)
(* whole, or into which another process has written, is not JSON.            *)

LineEnds(s) == {i \in 1..Len(s) : s[i] # "head"}

Parses(s) ==
  \A i \in 1..Len(s) :
    /\ s[i] = "head" => i < Len(s) /\ s[i + 1] = "rest"
    /\ s[i] = "rest" => i > 1 /\ s[i - 1] = "head"

\* The events of pieces that parse.
EventsOf(s) == {IF s[i] = "rest" THEN "complete" ELSE s[i] : i \in LineEnds(s)}

From(n) == SubSeq(log, n + 1, Len(log))

-----------------------------------------------------------------------------
(* Writers *)

\* update_job begins: the worker starts or ends its work, a cancel request has
\* found a status that is not terminal.
Update(w, s) ==
  /\ target' = [target EXCEPT ![w] = s]
  /\ Doing(w, "read")

\* Reading a torn file raises: a worker fails the review, a request answers 500.
Raise(w) ==
  IF w \in Worker /\ target[w] # "failed"
  THEN Update(w, "failed")
  ELSE Doing(w, "gone") /\ target' = [target EXCEPT ![w] = "none"]

StartWork(w) ==
  /\ w \in Worker /\ MayCome(w)
  /\ Update(w, "processing")
  /\ UNCHANGED <<fileVars, clientVars, deaths>>

\* _run_model_review saves the report before the status.  Without one, a stage
\* fails, the source cannot be had, or its download is put off to another task.
EndWork(w) ==
  /\ w \in Worker /\ does[w] = "work"
  /\ \/ report' = TRUE /\ Update(w, "completed")
     \/ UNCHANGED report /\ \E s \in {"failed", "source_unavailable", "pending"} : Update(w, s)
  /\ UNCHANGED <<file, torn, over, mixed, log, live, clientVars, deaths>>

\* api_v1_cancel_review and cancel_review.
Cancel(w) ==
  /\ w \in Canceller /\ MayCome(w)
  /\ \/ ~torn /\ file \notin Ended /\ Update(w, "cancelled")
     \/ (torn \/ file \in Ended) /\ Doing(w, "gone") /\ UNCHANGED target
  /\ UNCHANGED <<fileVars, clientVars, deaths>>

\* mark_stale_processing_jobs_failed has found a row that says processing and is
\* old, and fails it; reconcile_stale_reviews writes the file after it.
MarkStale(w) ==
  /\ w \in Reconciler /\ MayCome(w)
  /\ live /\ live' = FALSE
  /\ Update(w, "failed")
  /\ UNCHANGED <<file, torn, over, mixed, report, log, clientVars, deaths>>

\* The event that follows a status, or its first half.  For source_unavailable and
\* download_retry the page has no listener; the reconciler appends a status event.
Piece(w) ==
  CASE target[w] = "processing" \/ w \in Reconciler         -> "status"
    [] target[w] = "completed"                              -> "head"
    [] target[w] \in {"source_unavailable", "pending"}      -> "unheard"
    [] OTHER                                                -> "error"

\* Mutation of ReadJob: the event is appended before the status is written.
EventFirst(w) ==
  /\ does[w] = "read"
  /\ log' = IF target[w] = "completed" THEN log \o <<"head", "rest">> ELSE Append(log, Piece(w))
  /\ IF torn THEN Raise(w) ELSE Doing(w, "open") /\ UNCHANGED target
  /\ UNCHANGED <<file, torn, over, mixed, report, live, clientVars, deaths>>

ReadJob(w) ==
  /\ does[w] = "read"
  /\ IF torn THEN Raise(w) ELSE Doing(w, "open") /\ UNCHANGED target
  /\ UNCHANGED <<fileVars, clientVars, deaths>>

\* write_text opens the file for writing, which empties it, ...
OpenJob(w) ==
  /\ does[w] = "open"
  /\ torn' = TRUE
  /\ Doing(w, "write")
  /\ UNCHANGED <<target, file, over, mixed, report, log, live, clientVars, deaths>>

\* Mutation of WriteJob: the new content is left in a buffer that nobody flushes.
WriteJobLost(w) ==
  /\ does[w] = "write"
  /\ Doing(w, "event")
  /\ UNCHANGED <<target, fileVars, clientVars, deaths>>

\* ... and writes.  When another process has written meanwhile, what is longer
\* sticks out behind.
WriteJob(w) ==
  /\ does[w] = "write"
  /\ file' = target[w]
  /\ torn' \in IF w \in over THEN BOOLEAN ELSE {FALSE}
  /\ mixed' = (mixed \/ w \in over)
  /\ over' = (over \cup {v \in Writer : does[v] = "write"}) \ {w}
  /\ Doing(w, "event")
  /\ UNCHANGED <<target, report, log, live, clientVars, deaths>>

\* The row follows the file, unless PostgreSQL is away; then add_event: the line,
\* or the first part of a long one.
AppendEvent(w) ==
  /\ does[w] = "event"
  /\ live' \in {live, target[w] = "processing"}
  /\ log' = Append(log, Piece(w))
  /\ Doing(w, CASE target[w] = "processing" -> "work"
                [] target[w] = "completed"  -> "flush"
                [] OTHER                    -> "gone")
  /\ UNCHANGED <<target, file, torn, over, mixed, report, clientVars, deaths>>

FlushEvent(w) ==
  /\ does[w] = "flush"
  /\ log' = Append(log, "rest")
  /\ Doing(w, "gone")
  /\ UNCHANGED <<target, file, torn, over, mixed, report, live, clientVars, deaths>>

\* A process dies, perhaps with the file open.
Die(w) ==
  /\ deaths < MaxDeaths /\ does[w] \notin {"start", "gone"}
  /\ deaths' = deaths + 1
  /\ does' = [does EXCEPT ![w] = "dead"]
  /\ UNCHANGED <<target, fileVars, clientVars>>

Write(w) ==
  \/ StartWork(w) \/ EndWork(w) \/ ReadJob(w) \/ OpenJob(w) \/ WriteJob(w)
  \/ AppendEvent(w) \/ FlushEvent(w)

-----------------------------------------------------------------------------
(* The event stream and the browser *)

\* GET /video/reviews/{id}/stream: get_job on a torn file is a 500, after which
\* an EventSource does not try again.
Connect ==
  /\ client = "connecting"
  /\ client' = IF torn THEN "refused" ELSE "reading"
  /\ UNCHANGED <<offset, sent, writerVars, fileVars, deaths>>

\* The response ends: the EventSource will connect again, and read from the start.
EndResponse == client' = "connecting" /\ offset' = 0 /\ sent' = <<>>

\* Mutation of Deliver: the new offset is not kept for the next read.
DeliverAgain ==
  /\ client = "reading"
  /\ IF Parses(From(offset))
     THEN sent' = sent \o From(offset) /\ client' = "checking" /\ UNCHANGED offset
     ELSE EndResponse
  /\ UNCHANGED <<writerVars, fileVars, deaths>>

\* The generator reads the new lines and sends them.  A line that is not JSON
\* ends the response; a "complete" or "error" event makes the browser close it,
\* any other is shown or has no listener.
Deliver ==
  /\ client = "reading"
  /\ IF Parses(From(offset))
     THEN /\ sent' = sent \o From(offset)
          /\ offset' = Len(log)
          /\ client' = IF EventsOf(From(offset)) \cap {"complete", "error"} # {}
                       THEN "closed" ELSE "checking"
     ELSE EndResponse
  /\ UNCHANGED <<writerVars, fileVars, deaths>>

\* Mutation of CheckStatus: the browser does not connect again.
CheckStatusOnce ==
  /\ client = "checking"
  /\ client' = IF torn \/ file \in Ended THEN "ended" ELSE "reading"
  /\ UNCHANGED <<offset, sent, writerVars, fileVars, deaths>>

\* It then reads the status: a terminal one ends the response, and so does the
\* exception of a torn file.  Events that came between the two reads have not
\* been sent.
CheckStatus ==
  /\ client = "checking"
  /\ IF torn \/ file \in Ended THEN EndResponse
     ELSE client' = "reading" /\ UNCHANGED <<offset, sent>>
  /\ UNCHANGED <<writerVars, fileVars, deaths>>

Follow == Connect \/ Deliver \/ CheckStatus

JobNext ==
  \/ \E w \in Writer : Write(w) \/ Cancel(w) \/ MarkStale(w) \/ Die(w)
  \/ Follow

JobSpec == JobInit /\ [][JobNext]_jobVars

\* Processes that have begun go on, and so do the stream and the browser.
JobFairness ==
  /\ \A w \in Writer : WF_jobVars(Write(w))
  /\ WF_jobVars(Follow)

-----------------------------------------------------------------------------
(* Properties *)

\* Types of all variables.
JobTypeOK ==
  /\ does \in [Writer -> {"start", "read", "open", "write", "event", "flush", "work",
                          "gone", "dead"}]
  /\ target \in [Writer -> {"none", "pending", "processing"} \cup Ended]
  /\ file \in {"pending", "processing"} \cup Ended
  /\ torn \in BOOLEAN /\ over \subseteq Writer /\ mixed \in BOOLEAN
  /\ report \in BOOLEAN /\ live \in BOOLEAN
  /\ log \in Seq({"status", "head", "rest", "error", "unheard"})
  /\ client \in {"connecting", "reading", "checking", "closed", "refused"}
  /\ offset \in 0..Len(log) /\ sent \in Seq({"status", "head", "rest", "error", "unheard"})
  /\ deaths \in 0..MaxDeaths

\* What a connection delivers is the event file from its start, every event
\* once, although it is read while two processes append to it.
SentIsPrefix ==
  Len(sent) <= Len(log) /\ sent = SubSeq(log, 1, Len(sent)) /\ Parses(sent)

\* A browser that is told that the review is complete finds its report and
\* has missed no status: the event comes after both.
CompleteIsBacked ==
  "rest" \in {sent[i] : i \in 1..Len(sent)} =>
    report /\ \E w \in Worker : target[w] = "completed" /\ does[w] \notin {"read", "open", "write"}

\* The job file is unreadable only while somebody writes it, or after a process
\* died or two overlapped while writing it.
TornWhileWritten ==
  torn => deaths > 0 \/ mixed \/ \E w \in Writer : does[w] = "write"

\* A browser that follows a review hears of its end, although the stream stops on
\* the status, perhaps before the last event: once the events can be read and one of
\* them is "complete" or "error", a connection delivers it, unless it was refused.
\* The other ends - source_unavailable, and the reconciler's - it never hears of: it
\* reads the whole file again and again.
BrowserHearsEnd ==
  <>[](Parses(log) /\ EventsOf(log) \cap {"complete", "error"} # {})
    => <>(client \in {"closed", "refused"})
=============================================================================
