---------------------------- MODULE SourceDownload ----------------------------
(***************************************************************************)
(* The download of one review's source (download_video in downloader.py)   *)
(* with the retries of the task around it (_handle_source_download_error   *)
(* in tasks.py).  What has arrived is kept in a .part file; the next       *)
(* request asks for the rest with Range, whose answer may be the rest, the *)
(* whole file, or an error.  A retry of the task, by any worker, goes on   *)
(* with the file that the request names; a first try has its own.          *)
(*                                                                         *)
(* A file is the sequence of its chunks, each by the version of the source *)
(* that it came from: nothing ties a range to the version of the part.     *)
(***************************************************************************)
EXTENDS Naturals, Sequences, FiniteSets

CONSTANTS Fetcher,        \* handlers of the review's entries
          Dir,            \* bound: directories of downloads
          NoDir,
          NoFile,
          Size,           \* chunks of the source
          MaxVersion,     \* bound: versions of the source
          FetchAttempts,  \* download_retry_attempts
          TaskRetries,    \* download_task_retry_attempts
          MaxFetchCrashes \* bound: crashes and deliveries to a second handler

ASSUME DownloadAssumption ==
  /\ NoDir \notin Dir /\ NoFile \notin Seq(1..MaxVersion)
  /\ {Size, MaxVersion, FetchAttempts} \subseteq Nat \ {0}
  /\ {TaskRetries, MaxFetchCrashes} \subseteq Nat

VARIABLES
  source,    \* the version the source serves
  entries,   \* requests in the queue or being handled: retry number, part to resume
  fetch,     \* per handler: where it is, its entry, directory, attempt, response
  part,      \* per directory: the .part file
  saved,     \* per directory: the finished file
  cache,     \* the copy in the object store, one for all reviews of the URL
  ended,     \* how the review ended
  broken,    \* history: directories written by two at once, spliced, or cut short;
             \* NoDir stands for the copy in the object store
  crashed    \* crashes and second deliveries

diskVars     == <<part, saved, cache>>
downloadVars == <<source, entries, fetch, diskVars, ended, broken, crashed>>

Entry0 == [retry |-> 0, resume |-> NoDir]
Idle   == [at |-> "idle", entry |-> Entry0, dir |-> NoDir, attempt |-> 0, version |-> 0, got |-> 0]

DownloadInit ==
  /\ source = 1
  /\ entries = {Entry0}
  /\ fetch = [h \in Fetcher |-> Idle]
  /\ part = [d \in Dir |-> NoFile] /\ saved = [d \in Dir |-> NoFile]
  /\ cache = NoFile
  /\ ended = {} /\ broken = {} /\ crashed = 0

Whole(v)   == [i \in 1..Size |-> v]
Offset(d)  == IF part[d] = NoFile THEN 0 ELSE Len(part[d])
InUse      == {fetch[h].dir : h \in Fetcher}
Handled(e) == {h \in Fetcher : fetch[h].at # "idle" /\ fetch[h].entry = e}
Unused     == {d \in Dir : d \notin InUse /\ part[d] = NoFile /\ saved[d] = NoFile}

-----------------------------------------------------------------------------
(* The task *)

Enter(h, e, d) ==
  fetch' = [fetch EXCEPT ![h] = [Idle EXCEPT !.at = "cache", !.entry = e, !.dir = d, !.attempt = 1]]

\* A handler takes an entry, perhaps one that another still works on.
TakeEntry(h) ==
  /\ fetch[h].at = "idle"
  /\ \E e \in entries :
       /\ \/ Handled(e) = {} /\ UNCHANGED crashed
          \/ Handled(e) # {} /\ crashed < MaxFetchCrashes /\ crashed' = crashed + 1
       /\ IF e.resume # NoDir THEN Enter(h, e, e.resume) ELSE \E d \in Unused : Enter(h, e, d)
  /\ UNCHANGED <<source, entries, diskVars, ended, broken>>

\* The entry is settled.
Settle(h, outcome, more) ==
  /\ entries' = (entries \ {fetch[h].entry}) \cup more
  /\ ended' = ended \cup outcome
  /\ fetch' = [fetch EXCEPT ![h] = Idle]

Retry(h, n, d) == Settle(h, {}, {[retry |-> n, resume |-> d]}) /\ UNCHANGED part

RetriesLeft(h) == fetch[h].entry.retry < TaskRetries

\* The part to resume: the one there is, or the one of the request.
ResumeDir(h) == IF part[fetch[h].dir] = NoFile THEN fetch[h].entry.resume ELSE fetch[h].dir

EndUnavailable(h) ==
  /\ Settle(h, {"unavailable"}, {})
  /\ part' = [part EXCEPT ![fetch[h].dir] = NoFile]

\* Mutation of GiveUp: the retry does not know the partial file.
GiveUpForgets(h, retryable) ==
  \/ retryable /\ RetriesLeft(h) /\ Retry(h, fetch[h].entry.retry + 1, NoDir)
  \/ EndUnavailable(h)

\* Mutation of GiveUp: the number of the retry is not written to the request.
GiveUpUncounted(h, retryable) ==
  \/ retryable /\ RetriesLeft(h) /\ Retry(h, fetch[h].entry.retry, ResumeDir(h))
  \/ EndUnavailable(h)

\* _handle_source_download_error: a retry of the task that resumes the partial
\* file, or the end, which deletes it: also when Redis does not take the retry.
GiveUp(h, retryable) ==
  \/ retryable /\ RetriesLeft(h) /\ Retry(h, fetch[h].entry.retry + 1, ResumeDir(h))
  \/ EndUnavailable(h)

-----------------------------------------------------------------------------
(* download_video *)

\* The copy in the object store is used, ...
CacheHit(h) ==
  LET d == fetch[h].dir IN
  /\ fetch[h].at = "cache" /\ cache # NoFile
  /\ saved' = [saved EXCEPT ![d] = cache]
  /\ part' = [part EXCEPT ![d] = NoFile]
  /\ broken' = IF NoDir \in broken THEN broken \cup {d} ELSE broken
  /\ Settle(h, {"ready"}, {})
  /\ UNCHANGED <<source, cache, crashed>>

\* ... is switched off, or is absent or cannot be read, which removes the file.
CacheMiss(h) ==
  /\ fetch[h].at = "cache"
  /\ fetch' = [fetch EXCEPT ![h].at = "request"]
  /\ saved' \in {saved, [saved EXCEPT ![fetch[h].dir] = NoFile]}
  /\ UNCHANGED <<source, entries, part, cache, ended, broken, crashed>>

\* A failing attempt: the next one after a pause, or the task's turn.
FailFetch(h, retryable) ==
  IF retryable /\ fetch[h].attempt < FetchAttempts
  THEN /\ fetch' = [fetch EXCEPT ![h].at = "request", ![h].attempt = @ + 1]
       /\ UNCHANGED <<entries, ended, part>>
  ELSE GiveUp(h, retryable)

\* The slot, the connection or the status: time is over, 5xx, 429 (retryable),
\* 403, 404 or, when the part is complete already, 416.
RequestFails(h) ==
  /\ fetch[h].at = "request"
  /\ \E retryable \in BOOLEAN : FailFetch(h, retryable)
  /\ UNCHANGED <<source, saved, cache, broken, crashed>>

Others(h) == {i \in Fetcher \ {h} : fetch[i].at = "stream" /\ fetch[i].dir = fetch[h].dir}

Respond(h, file, got) ==
  LET d == fetch[h].dir IN
  /\ part' = [part EXCEPT ![d] = file]
  /\ fetch' = [fetch EXCEPT ![h].at = "stream", ![h].version = source, ![h].got = got]
  /\ broken' = IF Others(h) # {} \/ \E i \in 1..Len(file) : file[i] # source
               THEN broken \cup {d}
               ELSE IF file = <<>> /\ saved[d] = NoFile THEN broken \ {d} ELSE broken
  /\ UNCHANGED <<source, entries, saved, cache, ended, crashed>>

\* Mutation of Restarted: a response with the whole file is appended as well.
RestartedAppends(h) ==
  /\ fetch[h].at = "request"
  /\ Respond(h, IF Offset(fetch[h].dir) = 0 THEN <<>> ELSE part[fetch[h].dir], 0)

\* 200: the whole file, into an emptied part.
Restarted(h) ==
  /\ fetch[h].at = "request"
  /\ Respond(h, <<>>, 0)

\* 206 whose Content-Range begins where the part ends.
Resumed(h) ==
  LET d == fetch[h].dir IN
  /\ fetch[h].at = "request"
  /\ Offset(d) \in 1..(Size - 1)
  /\ Respond(h, part[d], Offset(d))

\* The next chunk; the open file may have become another handler's finished one.
Receive(h) ==
  LET d == fetch[h].dir IN
  /\ fetch[h].at = "stream" /\ fetch[h].got < Size
  /\ fetch' = [fetch EXCEPT ![h].got = @ + 1]
  /\ part' = IF part[d] = NoFile \/ Len(part[d]) >= 2 * Size THEN part
             ELSE [part EXCEPT ![d] = Append(@, fetch[h].version)]
  /\ UNCHANGED <<source, entries, saved, cache, ended, broken, crashed>>

\* A timeout, also of the download as a whole, or a network error.
Interrupted(h) ==
  /\ fetch[h].at = "stream"
  /\ FailFetch(h, TRUE)
  /\ UNCHANGED <<source, saved, cache, broken, crashed>>

\* An error that is not handled: a Content-Range that does not fit, a body
\* shorter than declared, a part that another handler has moved.  The stage
\* fails; the part stays.
Unhandled(h) ==
  /\ fetch[h].at \in {"request", "stream"}
  /\ Settle(h, {"failed"}, {})
  /\ UNCHANGED <<source, diskVars, broken, crashed>>

\* The body ends, early if its length is not declared; the part is renamed.
FinishFetch(h) ==
  LET d == fetch[h].dir IN
  /\ fetch[h].at = "stream" /\ part[d] # NoFile
  /\ saved' = [saved EXCEPT ![d] = part[d]]
  /\ part' = [part EXCEPT ![d] = NoFile]
  /\ broken' = IF fetch[h].got < Size THEN broken \cup {d} ELSE broken
  /\ Settle(h, {"ready"}, {})
  /\ UNCHANGED <<source, cache, crashed>>

\* The background upload of a finished file to the object store, at any time
\* after it; once more changes nothing that has not been possible before.
UploadCache(d) ==
  /\ saved[d] # NoFile
  /\ cache' = saved[d]
  /\ broken' = IF d \in broken THEN broken \cup {NoDir} ELSE broken \ {NoDir}
  /\ UNCHANGED <<source, entries, fetch, part, saved, ended, crashed>>

-----------------------------------------------------------------------------

\* The worker dies; its entry will be delivered again.
FetchCrash(h) ==
  /\ fetch[h].at # "idle" /\ crashed < MaxFetchCrashes
  /\ crashed' = crashed + 1
  /\ fetch' = [fetch EXCEPT ![h] = Idle]
  /\ UNCHANGED <<source, entries, diskVars, ended, broken>>

SourceChanges ==
  /\ source < MaxVersion
  /\ source' = source + 1
  /\ UNCHANGED <<entries, fetch, diskVars, ended, broken, crashed>>

Fetch(h) ==
  \/ TakeEntry(h) \/ CacheHit(h) \/ CacheMiss(h) \/ RequestFails(h) \/ Restarted(h)
  \/ Resumed(h) \/ Receive(h) \/ Interrupted(h) \/ Unhandled(h) \/ FinishFetch(h)

DownloadNext ==
  \/ \E h \in Fetcher : Fetch(h) \/ FetchCrash(h)
  \/ \E d \in Dir : UploadCache(d)
  \/ SourceChanges

DownloadSpec == DownloadInit /\ [][DownloadNext]_downloadVars

\* Handlers go on: the server answers, or a timeout ends the attempt.
DownloadFairness == \A h \in Fetcher : WF_downloadVars(Fetch(h))

-----------------------------------------------------------------------------
(* Properties *)

\* Types of all variables.
DownloadTypeOK ==
  /\ source \in 1..MaxVersion
  /\ entries \subseteq [retry : 0..TaskRetries, resume : Dir \cup {NoDir}]
  /\ fetch \in [Fetcher -> [at : {"idle", "cache", "request", "stream"},
                            entry : [retry : 0..TaskRetries, resume : Dir \cup {NoDir}],
                            dir : Dir \cup {NoDir}, attempt : 0..FetchAttempts,
                            version : 0..MaxVersion, got : 0..Size]]
  /\ \A d \in Dir : {part[d], saved[d]} \subseteq Seq(1..MaxVersion) \cup {NoFile}
  /\ cache \in Seq(1..MaxVersion) \cup {NoFile}
  /\ ended \subseteq {"ready", "unavailable", "failed"}
  /\ broken \subseteq Dir \cup {NoDir}
  /\ crashed \in 0..MaxFetchCrashes

\* Whatever interruptions, resumed and restarted responses, retries and crashes
\* it took, a finished file, and the copy of it in the object store that later
\* reviews will get, is one version of the source, whole: unless two
\* handlers shared the part, it was resumed after the source had changed, or a
\* body without a declared length ended early.
FileIsWhole ==
  /\ \A d \in Dir \ broken : saved[d] # NoFile => \E v \in 1..source : saved[d] = Whole(v)
  /\ NoDir \notin broken /\ cache # NoFile => \E v \in 1..source : cache = Whole(v)

\* A partial file is the one of a handler at work or of a retry that will
\* resume it, or something ended without the code that deletes it: a crash, or
\* an error that is not handled.
PartialsOwned ==
  \A d \in Dir : part[d] # NoFile =>
    \/ d \in InUse
    \/ \E e \in entries : e.resume = d
    \/ crashed > 0
    \/ "failed" \in ended

\* The attempts and retries come to an end: every entry is settled.
DownloadSettles == <>[](entries = {})
=============================================================================
