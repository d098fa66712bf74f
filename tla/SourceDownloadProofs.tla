------------------------- MODULE SourceDownloadProofs -------------------------
(***************************************************************************)
(* Theorems about SourceDownload for every set of handlers, directories    *)
(* and versions of the source, every size and every number of attempts,    *)
(* retries and crashes.                                                    *)
(***************************************************************************)
EXTENDS SourceDownload, SequenceTheorems, TLAPS

FileType    == Seq(1..MaxVersion) \cup {NoFile}
EntryRecord == [retry : 0..TaskRetries, resume : Dir \cup {NoDir}]
FetchRecord == [at : {"idle", "cache", "request", "stream"}, entry : EntryRecord,
                dir : Dir \cup {NoDir}, attempt : 0..FetchAttempts,
                version : 0..MaxVersion, got : 0..Size]

DownloadTyped ==
  /\ source \in 1..MaxVersion
  /\ entries \subseteq EntryRecord
  /\ fetch \in [Fetcher -> FetchRecord]
  /\ part \in [Dir -> FileType] /\ saved \in [Dir -> FileType]
  /\ cache \in FileType
  /\ ended \subseteq {"ready", "unavailable", "failed"}
  /\ broken \subseteq Dir \cup {NoDir}
  /\ crashed \in 0..MaxFetchCrashes

\* A handler at work, and no other, has a directory, the one to resume if its
\* entry names one;
\* a response is of a version that the source has had.
Placed ==
  \A h \in Fetcher :
    /\ IF fetch[h].at = "idle" THEN fetch[h].dir = NoDir ELSE fetch[h].dir \in Dir
    /\ fetch[h].at # "idle" /\ fetch[h].entry.resume # NoDir => fetch[h].dir = fetch[h].entry.resume
    /\ fetch[h].at = "stream" => fetch[h].version \in 1..source

LEMMA TypedIsDownloadTypeOK == DownloadTyped => DownloadTypeOK
  BY DEF DownloadTyped, DownloadTypeOK, FileType, EntryRecord, FetchRecord

LEMMA DownloadNumbers ==
  /\ Size \in Nat \ {0} /\ MaxVersion \in Nat \ {0} /\ FetchAttempts \in Nat \ {0}
  /\ TaskRetries \in Nat /\ MaxFetchCrashes \in Nat
  /\ NoDir \notin Dir /\ NoFile \notin Seq(1..MaxVersion)
  BY DownloadAssumption

-----------------------------------------------------------------------------
(* Types *)

LEMMA IdleTyped == Entry0 \in EntryRecord /\ Idle \in FetchRecord
<1>1. Entry0 \in EntryRecord
  BY DownloadNumbers DEF Entry0, EntryRecord
<1>2. 0 \in 0..FetchAttempts /\ 0 \in 0..MaxVersion /\ 0 \in 0..Size
  BY DownloadNumbers
<1> QED
  BY <1>1, <1>2 DEF Idle, FetchRecord

LEMMA DownloadInitTyped == DownloadInit => DownloadTyped /\ Placed
  BY IdleTyped, DownloadNumbers DEF DownloadInit, DownloadTyped, Placed, FileType, Idle

\* How the record of a handler moves.
LEMMA FetchMoves ==
  ASSUME NEW f \in FetchRecord, NEW a \in {"idle", "cache", "request", "stream"}
  PROVE  /\ [f EXCEPT !.at = a] \in FetchRecord
         /\ f.attempt + 1 \in 0..FetchAttempts =>
              [f EXCEPT !.at = a, !.attempt = f.attempt + 1] \in FetchRecord
         /\ \A v \in 0..MaxVersion, g \in 0..Size :
              [f EXCEPT !.at = a, !.version = v, !.got = g] \in FetchRecord
         /\ \A g \in 0..Size : [f EXCEPT !.got = g] \in FetchRecord
<1> DEFINE A == 0..FetchAttempts
           V == 0..MaxVersion
           G == 0..Size
           E == EntryRecord
           D == Dir \cup {NoDir}
           L == {"idle", "cache", "request", "stream"}
<1>1. FetchRecord = [at : L, entry : E, dir : D, attempt : A, version : V, got : G]
  BY DEF FetchRecord
<1> HIDE DEF A, V, G, E, D, L
<1>2. a \in L
  BY DEF L
<1>3. [f EXCEPT !.at = a] \in FetchRecord
  BY <1>1, <1>2
<1>4. f.attempt + 1 \in A => [f EXCEPT !.at = a, !.attempt = f.attempt + 1] \in FetchRecord
  BY <1>1, <1>2
<1>5. \A v \in V, g \in G : [f EXCEPT !.at = a, !.version = v, !.got = g] \in FetchRecord
  BY <1>1, <1>2
<1>6. \A g \in G : [f EXCEPT !.got = g] \in FetchRecord
  BY <1>1
<1> QED
  BY <1>3, <1>4, <1>5, <1>6 DEF A, V, G

LEMMA EnteredTyped ==
  ASSUME NEW e \in EntryRecord, NEW d \in Dir
  PROVE  [Idle EXCEPT !.at = "cache", !.entry = e, !.dir = d, !.attempt = 1] \in FetchRecord
<1>1. 1 \in 0..FetchAttempts /\ 0 \in 0..MaxVersion /\ 0 \in 0..Size
  BY DownloadNumbers
<1> QED
  BY <1>1 DEF Idle, FetchRecord

\* What becomes of a handler whose attempt fails.
LEMMA FailMoves ==
  ASSUME DownloadTyped, Placed, NEW h \in Fetcher, NEW r \in BOOLEAN,
         fetch[h].at \in {"request", "stream"}, FailFetch(h, r)
  PROVE  \/ /\ fetch[h].attempt + 1 \in 0..FetchAttempts
            /\ fetch' = [fetch EXCEPT ![h] = [fetch[h] EXCEPT !.at = "request",
                                                             !.attempt = fetch[h].attempt + 1]]
            /\ UNCHANGED <<entries, ended, part>>
         \/ \E more \in SUBSET EntryRecord, outcome \in {{}, {"unavailable"}} :
              /\ Settle(h, outcome, more)
              /\ part' \in {part, [part EXCEPT ![fetch[h].dir] = NoFile]}
              /\ part' = part /\ part[fetch[h].dir] # NoFile =>
                   \E e \in more : e.resume = fetch[h].dir
<1> USE DownloadNumbers DEF DownloadTyped, Placed
<1>f. fetch[h] \in FetchRecord
  OBVIOUS
<1>1. CASE r /\ fetch[h].attempt < FetchAttempts
  <2>1. fetch[h].attempt + 1 \in 0..FetchAttempts
    BY <1>f, <1>1 DEF FetchRecord
  <2>2. fetch' = [fetch EXCEPT ![h] = [fetch[h] EXCEPT !.at = "request",
                                                      !.attempt = fetch[h].attempt + 1]]
        /\ UNCHANGED <<entries, ended, part>>
    BY <1>1 DEF FailFetch
  <2> QED
    BY <2>1, <2>2
<1>2. CASE ~(r /\ fetch[h].attempt < FetchAttempts)
  <2>1. GiveUp(h, r)
    BY <1>2 DEF FailFetch
  <2>2. CASE EndUnavailable(h)
    <3>1. Settle(h, {"unavailable"}, {}) /\ part' = [part EXCEPT ![fetch[h].dir] = NoFile]
      BY <2>2 DEF EndUnavailable
    <3>2. part' = part => part[fetch[h].dir] = NoFile
      BY <3>1
    <3> QED
      BY <3>1, <3>2
  <2>3. CASE RetriesLeft(h) /\ Retry(h, fetch[h].entry.retry + 1, ResumeDir(h))
    <3> DEFINE e == [retry |-> fetch[h].entry.retry + 1, resume |-> ResumeDir(h)]
    <3>1. Settle(h, {}, {e}) /\ part' = part
      BY <2>3 DEF Retry
    <3>2. e \in EntryRecord
      <4>1. fetch[h].entry.retry + 1 \in 0..TaskRetries
        BY <1>f, <2>3 DEF RetriesLeft, FetchRecord, EntryRecord
      <4>2. ResumeDir(h) \in Dir \cup {NoDir}
        BY <1>f DEF ResumeDir, FetchRecord, EntryRecord
      <4> QED
        BY <4>1, <4>2 DEF EntryRecord
    <3>3. part[fetch[h].dir] # NoFile => e.resume = fetch[h].dir
      BY DEF ResumeDir
    <3> QED
      BY <3>1, <3>2, <3>3
  <2> QED
    BY <2>1, <2>2, <2>3 DEF GiveUp
<1> QED
  BY <1>1, <1>2

\* A handler that settles its entry leaves everything well typed.
LEMMA SettleTyped ==
  ASSUME DownloadTyped, Placed, NEW h \in Fetcher, NEW more \in SUBSET EntryRecord,
         NEW outcome \in SUBSET {"ready", "unavailable", "failed"}, Settle(h, outcome, more)
  PROVE  /\ entries' \subseteq EntryRecord /\ ended' \subseteq {"ready", "unavailable", "failed"}
         /\ fetch' \in [Fetcher -> FetchRecord]
         /\ source' = source => Placed'
<1>1. fetch' \in [Fetcher -> FetchRecord] /\ fetch'[h] = Idle
      /\ \A i \in Fetcher \ {h} : fetch'[i] = fetch[i]
  BY IdleTyped DEF Settle, DownloadTyped
<1>2. Idle.at = "idle" /\ Idle.dir = NoDir
  BY DEF Idle
<1>3. source' = source => Placed'
  BY <1>1, <1>2 DEF Placed
<1> QED
  BY <1>1, <1>3 DEF Settle, DownloadTyped

LEMMA EnterKeeps ==
  ASSUME DownloadTyped, Placed, NEW h \in Fetcher, NEW e \in entries, NEW d \in Dir,
         e.resume # NoDir => d = e.resume, source' = source, Enter(h, e, d)
  PROVE  fetch' \in [Fetcher -> FetchRecord] /\ Placed'
<1> DEFINE f == [Idle EXCEPT !.at = "cache", !.entry = e, !.dir = d, !.attempt = 1]
<1>1. f \in FetchRecord /\ f.at = "cache" /\ f.entry = e /\ f.dir = d
  BY EnteredTyped DEF DownloadTyped, Idle
<1>2. fetch' = [fetch EXCEPT ![h] = f]
  BY DEF Enter
<1> HIDE DEF f
<1>3. fetch' \in [Fetcher -> FetchRecord] /\ fetch'[h] = f
      /\ \A i \in Fetcher \ {h} : fetch'[i] = fetch[i]
  BY <1>1, <1>2 DEF DownloadTyped
<1> QED
  BY <1>1, <1>3 DEF Placed

LEMMA TakeEntryTyped ==
  ASSUME DownloadTyped, Placed, NEW h \in Fetcher, TakeEntry(h)
  PROVE  DownloadTyped' /\ Placed'
<1>1. PICK e \in entries :
        /\ \/ Handled(e) = {} /\ UNCHANGED crashed
           \/ Handled(e) # {} /\ crashed < MaxFetchCrashes /\ crashed' = crashed + 1
        /\ IF e.resume # NoDir THEN Enter(h, e, e.resume) ELSE \E d \in Unused : Enter(h, e, d)
  BY DEF TakeEntry
<1>2. UNCHANGED <<source, entries, part, saved, cache, ended, broken>>
  BY DEF TakeEntry, diskVars
<1>3. \E d \in Dir : Enter(h, e, d) /\ (e.resume # NoDir => d = e.resume)
  BY <1>1 DEF Unused, DownloadTyped, EntryRecord
<1>4. fetch' \in [Fetcher -> FetchRecord] /\ Placed'
  BY <1>2, <1>3, EnterKeeps
<1>5. crashed' \in 0..MaxFetchCrashes
  BY <1>1, DownloadNumbers DEF DownloadTyped
<1> QED
  BY <1>2, <1>4, <1>5 DEF DownloadTyped

\* The types when only a handler's record changes, to the given one.
LEMMA FetchStepTyped ==
  ASSUME DownloadTyped, Placed, NEW h \in Fetcher, NEW f \in FetchRecord,
         fetch' = [fetch EXCEPT ![h] = f], source' = source,
         f.dir = fetch[h].dir, f.entry = fetch[h].entry, fetch[h].at # "idle",
         f.at # "idle", f.at = "stream" => f.version \in 1..source
  PROVE  fetch' \in [Fetcher -> FetchRecord] /\ Placed'
<1>1. fetch' \in [Fetcher -> FetchRecord] /\ fetch'[h] = f
      /\ \A i \in Fetcher \ {h} : fetch'[i] = fetch[i]
  BY DEF DownloadTyped
<1> QED
  BY <1>1 DEF Placed

\* A file that a handler writes stays a file.
LEMMA PartTyped ==
  ASSUME DownloadTyped, NEW d \in Dir, NEW c \in FileType
  PROVE  [part EXCEPT ![d] = c] \in [Dir -> FileType]
  BY DEF DownloadTyped

LEMMA SavedTyped ==
  ASSUME DownloadTyped, NEW d \in Dir, NEW c \in FileType
  PROVE  [saved EXCEPT ![d] = c] \in [Dir -> FileType]
  BY DEF DownloadTyped

LEMMA NoFileTyped == NoFile \in FileType /\ <<>> \in FileType
  BY DEF FileType

LEMMA FailFetchTyped ==
  ASSUME DownloadTyped, Placed, NEW h \in Fetcher, NEW r \in BOOLEAN,
         fetch[h].at \in {"request", "stream"}, FailFetch(h, r),
         UNCHANGED <<source, saved, cache, broken, crashed>>
  PROVE  DownloadTyped' /\ Placed'
<1>d. fetch[h].dir \in Dir /\ fetch[h] \in FetchRecord
  BY DEF Placed, DownloadTyped
<1>1. CASE /\ fetch[h].attempt + 1 \in 0..FetchAttempts
           /\ fetch' = [fetch EXCEPT ![h] = [fetch[h] EXCEPT !.at = "request",
                                                            !.attempt = fetch[h].attempt + 1]]
           /\ UNCHANGED <<entries, ended, part>>
  <2> DEFINE f == [fetch[h] EXCEPT !.at = "request", !.attempt = fetch[h].attempt + 1]
  <2>1. f \in FetchRecord
    BY Zenon, <1>1, <1>d, FetchMoves
  <2>2. f.at = "request" /\ f.dir = fetch[h].dir /\ f.entry = fetch[h].entry
    BY <1>d DEF FetchRecord
  <2> HIDE DEF f
  <2>3. fetch' \in [Fetcher -> FetchRecord] /\ Placed'
    <3>1. fetch' = [fetch EXCEPT ![h] = f]
      BY <1>1 DEF f
    <3> QED
      BY <3>1, <2>1, <2>2, FetchStepTyped
  <2> QED
    BY SMTT(30), <1>1, <2>3 DEF DownloadTyped
<1>2. ASSUME NEW more \in SUBSET EntryRecord, NEW outcome \in {{}, {"unavailable"}},
             Settle(h, outcome, more),
             part' \in {part, [part EXCEPT ![fetch[h].dir] = NoFile]}
      PROVE  DownloadTyped' /\ Placed'
  <2>1. outcome \in SUBSET {"ready", "unavailable", "failed"}
    OBVIOUS
  <2>2. /\ entries' \subseteq EntryRecord /\ ended' \subseteq {"ready", "unavailable", "failed"}
        /\ fetch' \in [Fetcher -> FetchRecord] /\ Placed'
    BY <1>2, <2>1, SettleTyped
  <2>3. part' \in [Dir -> FileType]
    BY <1>2, <1>d, PartTyped, NoFileTyped DEF DownloadTyped
  <2> QED
    BY <2>2, <2>3 DEF DownloadTyped
<1>3. \/ /\ fetch[h].attempt + 1 \in 0..FetchAttempts
         /\ fetch' = [fetch EXCEPT ![h] = [fetch[h] EXCEPT !.at = "request",
                                                          !.attempt = fetch[h].attempt + 1]]
         /\ UNCHANGED <<entries, ended, part>>
      \/ \E more \in SUBSET EntryRecord, outcome \in {{}, {"unavailable"}} :
           /\ Settle(h, outcome, more)
           /\ part' \in {part, [part EXCEPT ![fetch[h].dir] = NoFile]}
  BY ZenonT(60), FailMoves
<1> QED
  BY <1>1, <1>2, <1>3

LEMMA RespondTyped ==
  ASSUME DownloadTyped, Placed, NEW h \in Fetcher, fetch[h].at = "request",
         NEW file \in Seq(1..MaxVersion), NEW got \in 0..Size, Respond(h, file, got)
  PROVE  /\ DownloadTyped' /\ Placed'
         /\ fetch' = [fetch EXCEPT ![h] = [fetch[h] EXCEPT !.at = "stream", !.version = source,
                                                          !.got = got]]
<1> DEFINE f == [fetch[h] EXCEPT !.at = "stream", !.version = source, !.got = got]
<1>d. fetch[h].dir \in Dir /\ fetch[h] \in FetchRecord
  BY DEF Placed, DownloadTyped
<1>1. source \in 0..MaxVersion /\ source \in 1..source
  BY DownloadNumbers DEF DownloadTyped
<1>2. f \in FetchRecord
  BY Zenon, <1>1, <1>d, FetchMoves
<1>3. f.at = "stream" /\ f.dir = fetch[h].dir /\ f.entry = fetch[h].entry /\ f.version = source
  BY <1>d DEF FetchRecord
<1>4. fetch' = [fetch EXCEPT ![h] = f]
  BY DEF Respond
<1> HIDE DEF f
<1>5. fetch' \in [Fetcher -> FetchRecord] /\ Placed'
  <2>1. source' = source
    BY DEF Respond
  <2> QED
    BY <1>1, <1>2, <1>3, <1>4, <2>1, FetchStepTyped
<1>6. part' \in [Dir -> FileType]
  BY <1>d, PartTyped DEF Respond, FileType
<1>7. broken' \subseteq Dir \cup {NoDir}
  BY <1>d DEF Respond, DownloadTyped
<1> QED
  BY <1>4, <1>5, <1>6, <1>7 DEF Respond, DownloadTyped, f

\* The answers with the whole file and with the rest of the part.
LEMMA Responses ==
  ASSUME DownloadTyped, Placed, NEW h \in Fetcher, Restarted(h) \/ Resumed(h)
  PROVE  /\ fetch[h].at = "request"
         /\ \E file \in Seq(1..MaxVersion), got \in 0..Size :
              got = Len(file) /\ Respond(h, file, got)
<1>1. CASE Restarted(h)
  <2>1. <<>> \in Seq(1..MaxVersion) /\ Len(<<>>) = 0 /\ 0 \in 0..Size
    BY DownloadNumbers
  <2> QED
    BY <1>1, <2>1 DEF Restarted
<1>2. CASE Resumed(h)
  <2> DEFINE d == fetch[h].dir
  <2>1. d \in Dir
    BY <1>2 DEF Resumed, Placed
  <2>2. part[d] # NoFile /\ Offset(d) = Len(part[d]) /\ Len(part[d]) \in 0..Size
    BY <1>2, DownloadNumbers DEF Resumed, Offset
  <2>3. part[d] \in Seq(1..MaxVersion)
    BY <2>1, <2>2 DEF DownloadTyped, FileType
  <2> QED
    BY <1>2, <2>2, <2>3 DEF Resumed
<1> QED
  BY <1>1, <1>2

LEMMA ReceiveTyped ==
  ASSUME DownloadTyped, Placed, NEW h \in Fetcher, Receive(h)
  PROVE  DownloadTyped' /\ Placed'
<1> DEFINE f == [fetch[h] EXCEPT !.got = fetch[h].got + 1]
           d == fetch[h].dir
<1>d. d \in Dir /\ fetch[h] \in FetchRecord /\ fetch[h].at = "stream"
      /\ fetch[h].version \in 1..source
  BY DEF Placed, DownloadTyped, Receive
<1>1. fetch[h].got + 1 \in 0..Size
  BY SMTT(30), <1>d, DownloadNumbers DEF Receive, FetchRecord
<1>2. f \in FetchRecord
  BY Zenon, <1>1, <1>d, FetchMoves
<1>3. f.at = "stream" /\ f.dir = fetch[h].dir /\ f.entry = fetch[h].entry
      /\ f.version = fetch[h].version
  BY <1>d DEF FetchRecord
<1>4. fetch' = [fetch EXCEPT ![h] = f] /\ source' = source
  BY DEF Receive
<1> HIDE DEF f
<1>5. fetch' \in [Fetcher -> FetchRecord] /\ Placed'
  BY <1>d, <1>2, <1>3, <1>4, FetchStepTyped
<1>6. part' \in [Dir -> FileType]
  <2>1. CASE part[d] # NoFile /\ part' = [part EXCEPT ![d] = Append(part[d], fetch[h].version)]
    <3>1. part[d] \in Seq(1..MaxVersion) /\ fetch[h].version \in 1..MaxVersion
      BY <2>1, <1>d, DownloadNumbers DEF DownloadTyped, FileType
    <3>2. Append(part[d], fetch[h].version) \in FileType
      BY <3>1, AppendProperties DEF FileType
    <3> QED
      BY <2>1, <3>2, <1>d, PartTyped
  <2>2. CASE part' = part
    BY <2>2 DEF DownloadTyped
  <2> QED
    BY <2>1, <2>2 DEF Receive
<1> QED
  BY <1>4, <1>5, <1>6 DEF Receive, DownloadTyped

LEMMA DownloadNextTyped ==
  DownloadTyped /\ Placed /\ [DownloadNext]_downloadVars => DownloadTyped' /\ Placed'
<1> SUFFICES ASSUME DownloadTyped, Placed, [DownloadNext]_downloadVars
             PROVE  DownloadTyped' /\ Placed'
  OBVIOUS
<1>1. ASSUME NEW h \in Fetcher, TakeEntry(h) PROVE DownloadTyped' /\ Placed'
  BY <1>1, TakeEntryTyped
<1>2. ASSUME NEW h \in Fetcher, CacheHit(h) PROVE DownloadTyped' /\ Placed'
  <2>d. fetch[h].dir \in Dir /\ cache \in FileType
    BY <1>2 DEF CacheHit, Placed, DownloadTyped
  <2>1. /\ entries' \subseteq EntryRecord /\ ended' \subseteq {"ready", "unavailable", "failed"}
        /\ fetch' \in [Fetcher -> FetchRecord] /\ Placed'
    <3>1. Settle(h, {"ready"}, {}) /\ source' = source
      BY <1>2 DEF CacheHit
    <3> QED
      BY <3>1, SettleTyped
  <2>2. saved' \in [Dir -> FileType] /\ part' \in [Dir -> FileType]
    BY <1>2, <2>d, SavedTyped, PartTyped, NoFileTyped DEF CacheHit
  <2>3. broken' \subseteq Dir \cup {NoDir}
    BY <1>2, <2>d DEF CacheHit, DownloadTyped
  <2> QED
    BY <1>2, <2>1, <2>2, <2>3 DEF CacheHit, DownloadTyped
<1>3. ASSUME NEW h \in Fetcher, CacheMiss(h) PROVE DownloadTyped' /\ Placed'
  <2> DEFINE f == [fetch[h] EXCEPT !.at = "request"]
  <2>d. fetch[h].dir \in Dir /\ fetch[h] \in FetchRecord /\ fetch[h].at = "cache"
    BY SMTT(30), <1>3 DEF CacheMiss, Placed, DownloadTyped
  <2>1. f \in FetchRecord
    BY Zenon, <2>d, FetchMoves
  <2>2. f.at = "request" /\ f.dir = fetch[h].dir /\ f.entry = fetch[h].entry
    BY <2>d DEF FetchRecord
  <2>3. fetch' = [fetch EXCEPT ![h] = f] /\ source' = source
    BY <1>3 DEF CacheMiss
  <2> HIDE DEF f
  <2>4. fetch' \in [Fetcher -> FetchRecord] /\ Placed'
    BY <2>d, <2>1, <2>2, <2>3, FetchStepTyped
  <2>5. saved' \in [Dir -> FileType]
    BY <1>3, <2>d, SavedTyped, NoFileTyped DEF CacheMiss, DownloadTyped
  <2> QED
    BY <1>3, <2>4, <2>5 DEF CacheMiss, DownloadTyped
<1>4. ASSUME NEW h \in Fetcher, RequestFails(h) PROVE DownloadTyped' /\ Placed'
  BY <1>4, FailFetchTyped DEF RequestFails
<1>5. ASSUME NEW h \in Fetcher, Restarted(h) \/ Resumed(h) PROVE DownloadTyped' /\ Placed'
  BY <1>5, Responses, RespondTyped
<1>6. ASSUME NEW h \in Fetcher, Receive(h) PROVE DownloadTyped' /\ Placed'
  BY <1>6, ReceiveTyped
<1>7. ASSUME NEW h \in Fetcher, Interrupted(h) PROVE DownloadTyped' /\ Placed'
  BY <1>7, FailFetchTyped DEF Interrupted
<1>8. ASSUME NEW h \in Fetcher, Unhandled(h) PROVE DownloadTyped' /\ Placed'
  <2>1. Settle(h, {"failed"}, {}) /\ UNCHANGED <<source, part, saved, cache, broken, crashed>>
    BY <1>8 DEF Unhandled, diskVars
  <2>2. /\ entries' \subseteq EntryRecord /\ ended' \subseteq {"ready", "unavailable", "failed"}
        /\ fetch' \in [Fetcher -> FetchRecord] /\ Placed'
    BY <2>1, SettleTyped
  <2> QED
    BY <2>1, <2>2 DEF DownloadTyped
<1>9. ASSUME NEW h \in Fetcher, FinishFetch(h) PROVE DownloadTyped' /\ Placed'
  <2>d. fetch[h].dir \in Dir /\ part[fetch[h].dir] \in FileType
    BY <1>9 DEF FinishFetch, Placed, DownloadTyped
  <2>1. /\ entries' \subseteq EntryRecord /\ ended' \subseteq {"ready", "unavailable", "failed"}
        /\ fetch' \in [Fetcher -> FetchRecord] /\ Placed'
    <3>1. Settle(h, {"ready"}, {}) /\ source' = source
      BY <1>9 DEF FinishFetch
    <3> QED
      BY <3>1, SettleTyped
  <2>2. saved' \in [Dir -> FileType] /\ part' \in [Dir -> FileType]
    BY <1>9, <2>d, SavedTyped, PartTyped, NoFileTyped DEF FinishFetch
  <2>3. broken' \subseteq Dir \cup {NoDir}
    BY <1>9, <2>d DEF FinishFetch, DownloadTyped
  <2> QED
    BY <1>9, <2>1, <2>2, <2>3 DEF FinishFetch, DownloadTyped
<1>10. ASSUME NEW h \in Fetcher, FetchCrash(h) PROVE DownloadTyped' /\ Placed'
  <2>1. fetch' \in [Fetcher -> FetchRecord] /\ fetch'[h] = Idle
        /\ \A i \in Fetcher \ {h} : fetch'[i] = fetch[i]
    BY <1>10, IdleTyped DEF FetchCrash, DownloadTyped
  <2>2. crashed' \in 0..MaxFetchCrashes
    BY <1>10, DownloadNumbers DEF FetchCrash, DownloadTyped
  <2>3. UNCHANGED <<source, entries, part, saved, cache, ended, broken>>
    BY <1>10 DEF FetchCrash, diskVars
  <2>4. Placed'
    BY <2>1, <2>3 DEF Placed, Idle
  <2> QED
    BY <2>1, <2>2, <2>3, <2>4 DEF DownloadTyped
<1>11. ASSUME NEW d \in Dir, UploadCache(d) PROVE DownloadTyped' /\ Placed'
  <2>1. cache' \in FileType /\ broken' \subseteq Dir \cup {NoDir}
    BY <1>11 DEF UploadCache, DownloadTyped
  <2>2. Placed'
    BY <1>11 DEF UploadCache, Placed
  <2> QED
    BY <1>11, <2>1, <2>2 DEF UploadCache, DownloadTyped
<1>12. ASSUME SourceChanges PROVE DownloadTyped' /\ Placed'
  <2>1. source' \in 1..MaxVersion /\ source' = source + 1 /\ source \in Nat
    BY <1>12, DownloadNumbers DEF SourceChanges, DownloadTyped
  <2>2. UNCHANGED <<entries, fetch, part, saved, cache, ended, broken, crashed>>
    BY <1>12 DEF SourceChanges, diskVars
  <2>3. \A n \in 1..source : n \in 1..source'
    BY <2>1
  <2>4. Placed'
    BY <2>2, <2>3 DEF Placed
  <2> QED
    BY <2>1, <2>2, <2>4 DEF DownloadTyped
<1>13. CASE UNCHANGED downloadVars
  BY <1>13 DEF downloadVars, diskVars, DownloadTyped, Placed
<1> QED
  BY <1>1, <1>2, <1>3, <1>4, <1>5, <1>6, <1>7, <1>8, <1>9, <1>10, <1>11, <1>12, <1>13
     DEF DownloadNext, Fetch

\* Downloads have the types of DownloadTypeOK, and a handler has its directory.
THEOREM DownloadTypeCorrect == DownloadSpec => [](DownloadTyped /\ Placed /\ DownloadTypeOK)
<1> DEFINE Inv == DownloadTyped /\ Placed
<1>1. DownloadInit => Inv
  BY DownloadInitTyped
<1>2. Inv /\ [DownloadNext]_downloadVars => Inv'
  BY DownloadNextTyped
<1>3. Inv => DownloadTyped /\ Placed /\ DownloadTypeOK
  BY TypedIsDownloadTypeOK
<1> QED
  BY <1>1, <1>2, <1>3, PTL DEF DownloadSpec

-----------------------------------------------------------------------------
(* Partial files *)

Owned(d) ==
  \/ d \in InUse
  \/ \E e \in entries : e.resume = d
  \/ crashed > 0
  \/ "failed" \in ended

\* An entry that is settled gives up the ownership of its own directory alone.
LEMMA SettleOwns ==
  ASSUME DownloadTyped, Placed, NEW h \in Fetcher, NEW outcome, NEW more,
         Settle(h, outcome, more), crashed' = crashed, fetch[h].at # "idle",
         NEW d \in Dir, Owned(d),
         d = fetch[h].dir => "failed" \in outcome \/ \E e \in more : e.resume = d
  PROVE  Owned(d)'
<1>1. \A i \in Fetcher \ {h} : fetch'[i] = fetch[i]
  BY DEF Settle, DownloadTyped
<1>2. CASE \E i \in Fetcher \ {h} : fetch[i].dir = d
  BY <1>1, <1>2 DEF Owned, InUse
<1>3. CASE d = fetch[h].dir
  BY <1>3 DEF Settle, Owned
<1>4. CASE d # fetch[h].dir /\ \E e \in entries : e.resume = d
  <2>1. fetch[h].entry.resume # d
    BY <1>4, DownloadNumbers DEF Placed
  <2> QED
    BY <1>4, <2>1 DEF Settle, Owned
<1> QED
  BY <1>2, <1>3, <1>4 DEF Owned, InUse, Settle

\* A step that leaves the directories of the handlers and the entries alone.
LEMMA StayOwned ==
  ASSUME DownloadTyped, NEW d \in Dir, Owned(d), NEW h \in Fetcher, NEW f \in FetchRecord,
         fetch' = [fetch EXCEPT ![h] = f], f.dir = fetch[h].dir,
         UNCHANGED <<entries, ended, crashed>>
  PROVE  Owned(d)'
<1>1. fetch'[h] = f /\ \A i \in Fetcher \ {h} : fetch'[i] = fetch[i]
  BY DEF DownloadTyped
<1> QED
  BY <1>1 DEF Owned, InUse

LEMMA FailFetchOwns ==
  ASSUME DownloadTyped, Placed, PartialsOwned, NEW h \in Fetcher, NEW r \in BOOLEAN,
         fetch[h].at \in {"request", "stream"}, FailFetch(h, r), crashed' = crashed
  PROVE  PartialsOwned'
<1>d. fetch[h].dir \in Dir /\ fetch[h] \in FetchRecord
  BY DEF Placed, DownloadTyped
<1>1. SUFFICES ASSUME NEW d \in Dir, part'[d] # NoFile PROVE Owned(d)'
  BY DEF PartialsOwned, Owned
<1>2. CASE /\ fetch[h].attempt + 1 \in 0..FetchAttempts
           /\ fetch' = [fetch EXCEPT ![h] = [fetch[h] EXCEPT !.at = "request",
                                                            !.attempt = fetch[h].attempt + 1]]
           /\ UNCHANGED <<entries, ended, part>>
  <2>1. Owned(d)
    BY <1>1, <1>2 DEF PartialsOwned, Owned
  <2> DEFINE f == [fetch[h] EXCEPT !.at = "request", !.attempt = fetch[h].attempt + 1]
  <2>2. f \in FetchRecord
    BY Zenon, <1>2, <1>d, FetchMoves
  <2>3. f.dir = fetch[h].dir
    BY <1>d DEF FetchRecord
  <2>4. fetch' = [fetch EXCEPT ![h] = f] /\ UNCHANGED <<entries, ended, crashed>>
    BY <1>2
  <2> HIDE DEF f
  <2> QED
    BY Zenon, <2>1, <2>2, <2>3, <2>4, StayOwned
<1>3. ASSUME NEW more \in SUBSET EntryRecord, NEW outcome \in {{}, {"unavailable"}},
             Settle(h, outcome, more),
             part' \in {part, [part EXCEPT ![fetch[h].dir] = NoFile]},
             part' = part /\ part[fetch[h].dir] # NoFile => \E e \in more : e.resume = fetch[h].dir
      PROVE  Owned(d)'
  <2>1. part'[d] = part[d] /\ Owned(d)
    BY <1>1, <1>3, <1>d DEF DownloadTyped, PartialsOwned, Owned
  <2>2. d = fetch[h].dir => \E e \in more : e.resume = d
    BY <1>1, <1>3, <1>d DEF DownloadTyped
  <2> QED
    BY <1>3, <2>1, <2>2, SettleOwns
<1>4. \/ /\ fetch[h].attempt + 1 \in 0..FetchAttempts
         /\ fetch' = [fetch EXCEPT ![h] = [fetch[h] EXCEPT !.at = "request",
                                                          !.attempt = fetch[h].attempt + 1]]
         /\ UNCHANGED <<entries, ended, part>>
      \/ \E more \in SUBSET EntryRecord, outcome \in {{}, {"unavailable"}} :
           /\ Settle(h, outcome, more)
           /\ part' \in {part, [part EXCEPT ![fetch[h].dir] = NoFile]}
           /\ part' = part /\ part[fetch[h].dir] # NoFile =>
                \E e \in more : e.resume = fetch[h].dir
  BY FailMoves
<1> QED
  BY <1>2, <1>3, <1>4

LEMMA DownloadNextOwns ==
  DownloadTyped /\ Placed /\ PartialsOwned /\ [DownloadNext]_downloadVars => PartialsOwned'
<1> SUFFICES ASSUME DownloadTyped, Placed, PartialsOwned, [DownloadNext]_downloadVars
             PROVE  PartialsOwned'
  OBVIOUS
<1>o. \A d \in Dir : part[d] # NoFile => Owned(d)
  BY DEF PartialsOwned, Owned
<1>p. SUFFICES ASSUME NEW d \in Dir, part'[d] # NoFile PROVE Owned(d)'
  BY DEF PartialsOwned, Owned
<1>1. ASSUME NEW h \in Fetcher, TakeEntry(h) PROVE Owned(d)'
  <2>1. part' = part /\ entries' = entries /\ ended' = ended
    BY <1>1 DEF TakeEntry, diskVars
  <2>2. Owned(d)
    BY <1>o, <1>p, <2>1
  <2>3. crashed' = crashed \/ crashed' = crashed + 1
    BY <1>1 DEF TakeEntry
  <2>4. PICK e, p : Enter(h, e, p)
    BY <1>1 DEF TakeEntry
  <2>5. \A i \in Fetcher \ {h} : fetch'[i] = fetch[i]
    BY <2>4 DEF Enter, DownloadTyped
  <2>6. fetch[h].dir # d
    BY <1>1, DownloadNumbers DEF TakeEntry, Placed
  <2> QED
    BY <2>1, <2>2, <2>3, <2>5, <2>6, DownloadNumbers DEF Owned, InUse, DownloadTyped
<1>2. ASSUME NEW h \in Fetcher, CacheHit(h) \/ FinishFetch(h) PROVE Owned(d)'
  <2>1. /\ fetch[h].dir \in Dir /\ fetch[h].at # "idle"
        /\ part' = [part EXCEPT ![fetch[h].dir] = NoFile]
        /\ Settle(h, {"ready"}, {}) /\ crashed' = crashed
    BY <1>2 DEF CacheHit, FinishFetch, Placed
  <2>2. d # fetch[h].dir /\ Owned(d)
    BY <1>o, <1>p, <2>1 DEF DownloadTyped
  <2> QED
    BY <2>1, <2>2, SettleOwns
<1>3. ASSUME NEW h \in Fetcher, CacheMiss(h) PROVE Owned(d)'
  <2> DEFINE f == [fetch[h] EXCEPT !.at = "request"]
  <2>1. f \in FetchRecord /\ f.dir = fetch[h].dir
    <3>1. fetch[h] \in FetchRecord
      BY DEF DownloadTyped
    <3>2. f \in FetchRecord
      BY Zenon, <3>1, FetchMoves
    <3> QED
      BY <3>1, <3>2 DEF FetchRecord
  <2>2. fetch' = [fetch EXCEPT ![h] = f] /\ UNCHANGED <<entries, ended, crashed>> /\ part' = part
    BY <1>3 DEF CacheMiss
  <2>3. Owned(d)
    BY <1>o, <1>p, <2>2
  <2> HIDE DEF f
  <2> QED
    BY Zenon, <2>1, <2>2, <2>3, StayOwned
<1>4. ASSUME NEW h \in Fetcher, RequestFails(h) \/ Interrupted(h) PROVE Owned(d)'
  <2>1. PartialsOwned'
    BY <1>4, FailFetchOwns DEF RequestFails, Interrupted
  <2> QED
    BY <1>p, <2>1 DEF PartialsOwned, Owned
<1>5. ASSUME NEW h \in Fetcher, Restarted(h) \/ Resumed(h) PROVE Owned(d)'
  <2>1. PICK file \in Seq(1..MaxVersion), got \in 0..Size : Respond(h, file, got)
    BY <1>5, Responses
  <2> DEFINE f == [fetch[h] EXCEPT !.at = "stream", !.version = source, !.got = got]
  <2>2. fetch[h] \in FetchRecord /\ fetch[h].dir \in Dir
    BY <1>5, Responses DEF DownloadTyped, Placed
  <2>3. f \in FetchRecord /\ f.dir = fetch[h].dir
    <3>1. source \in 0..MaxVersion
      BY DownloadNumbers DEF DownloadTyped
    <3>2. f \in FetchRecord
      BY Zenon, <2>2, <3>1, FetchMoves
    <3> QED
      BY SMTT(30), <2>2, <3>2 DEF FetchRecord
  <2>4. /\ fetch' = [fetch EXCEPT ![h] = f] /\ UNCHANGED <<entries, ended, crashed>>
        /\ part' = [part EXCEPT ![fetch[h].dir] = file]
    BY <2>1 DEF Respond
  <2>5. CASE d = fetch[h].dir
    <3>1. fetch'[h] = f
      BY <2>4 DEF DownloadTyped
    <3> QED
      BY <2>3, <2>5, <3>1 DEF Owned, InUse
  <2>6. CASE d # fetch[h].dir
    <3>1. Owned(d)
      BY <1>o, <1>p, <2>4, <2>6 DEF DownloadTyped
    <3> HIDE DEF f
    <3> QED
      BY <2>3, <2>4, <3>1, StayOwned
  <2> QED
    BY <2>5, <2>6
<1>6. ASSUME NEW h \in Fetcher, Receive(h) PROVE Owned(d)'
  <2> DEFINE f == [fetch[h] EXCEPT !.got = fetch[h].got + 1]
  <2>1. f \in FetchRecord /\ f.dir = fetch[h].dir
    <3>1. fetch[h] \in FetchRecord /\ fetch[h].got + 1 \in 0..Size
      BY SMTT(60), <1>6, DownloadNumbers DEF DownloadTyped, Receive, FetchRecord
    <3>2. f \in FetchRecord
      BY Zenon, <3>1, FetchMoves
    <3> QED
      BY <3>1, <3>2 DEF FetchRecord
  <2>2. fetch' = [fetch EXCEPT ![h] = f] /\ UNCHANGED <<entries, ended, crashed>>
    BY <1>6 DEF Receive
  <2>3. part[d] # NoFile
    BY <1>6, <1>p DEF Receive, DownloadTyped
  <2> HIDE DEF f
  <2> QED
    BY <1>o, <2>1, <2>2, <2>3, StayOwned
<1>7. ASSUME NEW h \in Fetcher, Unhandled(h) PROVE Owned(d)'
  BY <1>7 DEF Unhandled, Settle, Owned
<1>8. ASSUME NEW h \in Fetcher, FetchCrash(h) PROVE Owned(d)'
  BY <1>8 DEF FetchCrash, Owned, DownloadTyped
<1>9. ASSUME NEW c \in Dir, UploadCache(c) PROVE Owned(d)'
  BY <1>9, <1>o, <1>p DEF UploadCache, Owned, InUse
<1>10. ASSUME SourceChanges PROVE Owned(d)'
  BY <1>10, <1>o, <1>p DEF SourceChanges, diskVars, Owned, InUse
<1>11. CASE UNCHANGED downloadVars
  BY <1>11, <1>o, <1>p DEF downloadVars, diskVars, Owned, InUse
<1> QED
  BY <1>1, <1>2, <1>3, <1>4, <1>5, <1>6, <1>7, <1>8, <1>9, <1>10, <1>11
     DEF DownloadNext, Fetch

\* A partial file is never forgotten: a handler works on it, a retry in the queue
\* names it, or a crash or an error that is not handled ended what wrote it.
THEOREM PartialsAreOwned == DownloadSpec => []PartialsOwned
<1>1. DownloadInit => PartialsOwned
  BY DEF DownloadInit, PartialsOwned
<1>2. DownloadTyped /\ Placed /\ PartialsOwned /\ [DownloadNext]_downloadVars => PartialsOwned'
  BY DownloadNextOwns
<1>3. DownloadSpec => [](DownloadTyped /\ Placed)
  BY DownloadTypeCorrect, PTL
<1> QED
  BY <1>1, <1>2, <1>3, PTL DEF DownloadSpec

-----------------------------------------------------------------------------
(* Finished files *)

\* A response writes alone, what it has written is all there is in the part,
\* and all of it is of the response's version, while the directory is sound.
StreamSound(h) ==
  fetch[h].at = "stream" /\ fetch[h].dir \notin broken =>
    /\ Others(h) = {}
    /\ part[fetch[h].dir] # NoFile =>
         /\ Len(part[fetch[h].dir]) = fetch[h].got
         /\ \A i \in 1..fetch[h].got : part[fetch[h].dir][i] = fetch[h].version

\* A file is one of the first n versions, whole.
WholeOf(c, n) == \E v \in 1..n : c = Whole(v)

WholeInv == (\A h \in Fetcher : StreamSound(h)) /\ FileIsWhole

\* A part of the size of the source, all of it of one version, is that version.
LEMMA AllOfOneVersion ==
  ASSUME NEW c \in Seq(1..MaxVersion), Len(c) = Size, NEW v, \A i \in 1..Size : c[i] = v
  PROVE  c = Whole(v)
<1>1. DOMAIN c = 1..Size /\ c = [i \in DOMAIN c |-> c[i]]
  OBVIOUS
<1> QED
  BY <1>1 DEF Whole

LEMMA FileIsWholeMeans ==
  FileIsWhole <=>
    /\ \A d \in Dir \ broken : saved[d] # NoFile => WholeOf(saved[d], source)
    /\ NoDir \notin broken /\ cache # NoFile => WholeOf(cache, source)
  BY DEF FileIsWhole, WholeOf

LEMMA NextFileIsWholeMeans ==
  FileIsWhole' <=>
    /\ \A d \in Dir \ broken' : saved'[d] # NoFile => WholeOf(saved'[d], source')
    /\ NoDir \notin broken' /\ cache' # NoFile => WholeOf(cache', source')
  BY DEF FileIsWhole, WholeOf, Whole

\* What holds of the files goes on when they and the versions stay.
LEMMA FilesStay ==
  ASSUME FileIsWhole, UNCHANGED <<source, saved, cache>>, broken \subseteq broken'
  PROVE  FileIsWhole'
  BY DEF FileIsWhole, Whole

\* A step that gives no response to a handler and does not touch what is streamed.
LEMMA StreamsStay ==
  ASSUME DownloadTyped, \A h \in Fetcher : StreamSound(h),
         \A i \in Fetcher : fetch'[i].at = "stream" => fetch'[i] = fetch[i],
         \A i \in Fetcher : fetch'[i].at = "stream" =>
           part'[fetch[i].dir] \in {part[fetch[i].dir], NoFile},
         \A i \in Fetcher : fetch[i].at = "stream" /\ fetch[i].dir \notin broken' =>
           fetch[i].dir \notin broken
  PROVE  \A h \in Fetcher : StreamSound(h)'
<1> SUFFICES ASSUME NEW h \in Fetcher, fetch'[h].at = "stream", fetch'[h].dir \notin broken'
             PROVE  /\ Others(h)' = {}
                    /\ part'[fetch'[h].dir] # NoFile =>
                         /\ Len(part'[fetch'[h].dir]) = fetch'[h].got
                         /\ \A i \in 1..fetch'[h].got :
                              part'[fetch'[h].dir][i] = fetch'[h].version
  BY DEF StreamSound
<1>1. fetch'[h] = fetch[h]
  OBVIOUS
<1>2. fetch[h].dir \notin broken /\ StreamSound(h)
  BY <1>1
<1>3. Others(h)' \subseteq Others(h)
  BY <1>1 DEF Others
<1>4. Others(h) = {}
  BY <1>1, <1>2 DEF StreamSound
<1>5. part'[fetch'[h].dir] \in {part[fetch[h].dir], NoFile}
  BY <1>1
<1> QED
  BY <1>1, <1>2, <1>3, <1>4, <1>5 DEF StreamSound

LEMMA FailFetchWhole ==
  ASSUME DownloadTyped, Placed, WholeInv, NEW h \in Fetcher, NEW r \in BOOLEAN,
         fetch[h].at \in {"request", "stream"}, FailFetch(h, r),
         UNCHANGED <<source, saved, cache, broken, crashed>>
  PROVE  WholeInv'
<1>1. fetch'[h].at # "stream" /\ \A i \in Fetcher \ {h} : fetch'[i] = fetch[i]
  <2> DEFINE f == [fetch[h] EXCEPT !.at = "request", !.attempt = fetch[h].attempt + 1]
  <2>1. fetch[h] \in FetchRecord
    BY DEF DownloadTyped
  <2>2. f.at = "request" /\ Idle.at = "idle"
    BY SMTT(30), <2>1 DEF FetchRecord, Idle
  <2>3. fetch' = [fetch EXCEPT ![h] = f] \/ fetch' = [fetch EXCEPT ![h] = Idle]
    BY FailMoves DEF Settle
  <2> HIDE DEF f
  <2> QED
    BY <2>2, <2>3 DEF DownloadTyped
<1>2. part' \in {part, [part EXCEPT ![fetch[h].dir] = NoFile]}
  BY FailMoves
<1>3. \A d \in Dir : part'[d] \in {part[d], NoFile}
  BY <1>2 DEF DownloadTyped
<1>4. \A i \in Fetcher : fetch'[i].at = "stream" =>
        fetch'[i] = fetch[i] /\ part'[fetch[i].dir] \in {part[fetch[i].dir], NoFile}
  BY <1>1, <1>3 DEF Placed
<1>5. \A i \in Fetcher : StreamSound(i)'
  BY <1>4, StreamsStay DEF WholeInv
<1> QED
  BY <1>5, FilesStay DEF WholeInv

LEMMA RespondWhole ==
  ASSUME DownloadTyped, Placed, WholeInv, NEW h \in Fetcher, fetch[h].at = "request",
         NEW file \in Seq(1..MaxVersion), NEW got \in 0..Size, got = Len(file),
         Respond(h, file, got)
  PROVE  WholeInv'
<1> DEFINE d == fetch[h].dir
<1>d. d \in Dir /\ fetch[h] \in FetchRecord
  BY DEF Placed, DownloadTyped
<1>1. /\ fetch'[h].at = "stream" /\ fetch'[h].dir = d /\ fetch'[h].version = source
      /\ fetch'[h].got = got
      /\ \A i \in Fetcher \ {h} : fetch'[i] = fetch[i]
  BY <1>d DEF Respond, FetchRecord, DownloadTyped
<1>2. part'[d] = file /\ \A c \in Dir \ {d} : part'[c] = part[c]
  BY <1>d DEF Respond, DownloadTyped
<1>3. \A c \in Dir \cup {NoDir} : c # d => (c \in broken' <=> c \in broken)
  BY DEF Respond
<1>4. d \notin broken' => /\ Others(h) = {}
                          /\ \A i \in 1..got : file[i] = source
                          /\ d \in broken => saved[d] = NoFile
  BY DEF Respond
<1>5. ASSUME NEW i \in Fetcher PROVE StreamSound(i)'
  <2>1. SUFFICES ASSUME fetch'[i].at = "stream", fetch'[i].dir \notin broken'
                 PROVE  /\ Others(i)' = {}
                        /\ part'[fetch'[i].dir] # NoFile =>
                             /\ Len(part'[fetch'[i].dir]) = fetch'[i].got
                             /\ \A k \in 1..fetch'[i].got :
                                  part'[fetch'[i].dir][k] = fetch'[i].version
    BY DEF StreamSound
  <2>2. CASE i = h
    <3>1. Others(h) = {} /\ \A k \in 1..got : file[k] = source
      BY <1>1, <1>4, <2>1, <2>2
    <3>2. Others(h)' = {}
      BY <1>1, <3>1 DEF Others
    <3> QED
      BY <1>1, <1>2, <2>2, <3>1, <3>2
  <2>3. CASE i # h
    <3>1. fetch'[i] = fetch[i] /\ fetch[i].dir \in Dir
      BY <1>1, <2>1, <2>3 DEF Placed
    <3>2. fetch[i].dir # d
      <4>1. fetch[i].dir = d => i \in Others(h)
        BY <2>1, <2>3, <3>1 DEF Others
      <4> QED
        BY <4>1, <1>4, <2>1, <3>1
    <3>3. fetch[i].dir \notin broken
      BY <1>3, <2>1, <3>1, <3>2
    <3>4. StreamSound(i)
      BY DEF WholeInv
    <3>5. Others(i)' = Others(i)
      BY <1>1, <3>1, <3>2, <2>3 DEF Others
    <3>6. part'[fetch[i].dir] = part[fetch[i].dir]
      BY <1>2, <3>1, <3>2
    <3> QED
      BY <2>1, <3>1, <3>3, <3>4, <3>5, <3>6 DEF StreamSound
  <2> QED
    BY <2>2, <2>3
<1>6. FileIsWhole'
  <2>1. UNCHANGED <<source, saved, cache>>
    BY DEF Respond
  <2>2. \A c \in Dir \ broken' : saved[c] # NoFile => c \notin broken
    BY <1>3, <1>4
  <2>3. NoDir \notin broken' => NoDir \notin broken
    BY <1>d, <1>3, DownloadNumbers
  <2> QED
    BY <2>1, <2>2, <2>3 DEF WholeInv, FileIsWhole, Whole
<1> QED
  BY <1>5, <1>6 DEF WholeInv

LEMMA ReceiveWhole ==
  ASSUME DownloadTyped, Placed, WholeInv, NEW h \in Fetcher, Receive(h)
  PROVE  WholeInv'
<1> DEFINE d == fetch[h].dir
           n == fetch[h].got + 1
           v == fetch[h].version
<1>d. d \in Dir /\ fetch[h] \in FetchRecord /\ v \in 1..MaxVersion
      /\ fetch[h].got \in 0..Size /\ fetch[h].got < Size
  BY DownloadNumbers DEF Placed, DownloadTyped, Receive, FetchRecord
<1>1. /\ fetch'[h].at = "stream" /\ fetch'[h].dir = d /\ fetch'[h].version = v
      /\ fetch'[h].got = n
      /\ \A i \in Fetcher \ {h} : fetch'[i] = fetch[i]
  BY <1>d DEF Receive, FetchRecord, DownloadTyped
<1>2. \A c \in Dir \ {d} : part'[c] = part[c]
  BY <1>d DEF Receive, DownloadTyped
<1>3. broken' = broken /\ fetch[h].at = "stream"
  BY DEF Receive
<1>4. ASSUME NEW i \in Fetcher PROVE StreamSound(i)'
  <2>1. SUFFICES ASSUME fetch'[i].at = "stream", fetch'[i].dir \notin broken
                 PROVE  /\ Others(i)' = {}
                        /\ part'[fetch'[i].dir] # NoFile =>
                             /\ Len(part'[fetch'[i].dir]) = fetch'[i].got
                             /\ \A k \in 1..fetch'[i].got :
                                  part'[fetch'[i].dir][k] = fetch'[i].version
    BY <1>3 DEF StreamSound
  <2>2. fetch[i].at = "stream" /\ fetch'[i].dir = fetch[i].dir
    BY <1>1, <1>3, <2>1
  <2>3. StreamSound(i) /\ fetch[i].dir \notin broken
    BY <2>1, <2>2 DEF WholeInv
  <2>4. Others(i)' = Others(i)
    BY <1>1, <1>3, <2>2 DEF Others
  <2>5. Others(i) = {}
    BY <2>2, <2>3 DEF StreamSound
  <2>6. CASE i # h
    <3>1. fetch[i].dir # d
      <4>1. fetch[i].dir = d => h \in Others(i)
        BY <1>3, <2>6 DEF Others
      <4> QED
        BY <4>1, <2>5
    <3>2. fetch'[i] = fetch[i] /\ part'[fetch[i].dir] = part[fetch[i].dir]
      BY <1>1, <1>2, <2>2, <2>6, <3>1 DEF Placed
    <3> QED
      BY <2>1, <2>3, <2>4, <2>5, <3>2 DEF StreamSound
  <2>7. CASE i = h
    <3>1. SUFFICES ASSUME part'[d] # NoFile
                   PROVE  Len(part'[d]) = n /\ \A k \in 1..n : part'[d][k] = v
      BY <1>1, <2>4, <2>5, <2>7
    <3>2. part[d] # NoFile
      BY <1>d, <3>1 DEF Receive, DownloadTyped
    <3>3. part[d] \in Seq(1..MaxVersion)
      BY <1>d, <3>2 DEF DownloadTyped, FileType
    <3>4. Len(part[d]) = fetch[h].got /\ \A k \in 1..fetch[h].got : part[d][k] = v
      BY <2>2, <2>3, <2>7, <3>2 DEF StreamSound
    <3>5. ~ (Len(part[d]) >= 2 * Size)
      BY <1>d, <3>4, DownloadNumbers
    <3>6. part'[d] = Append(part[d], v)
      BY <1>d, <3>2, <3>5 DEF Receive, DownloadTyped
    <3>7. /\ Len(Append(part[d], v)) = n
          /\ Append(part[d], v)[n] = v
          /\ \A k \in 1..fetch[h].got : Append(part[d], v)[k] = part[d][k]
      BY <1>d, <3>3, <3>4, AppendProperties
    <3> QED
      BY <1>d, <3>4, <3>6, <3>7
  <2> QED
    BY <2>6, <2>7
<1>5. FileIsWhole'
  BY FilesStay DEF Receive, WholeInv
<1> QED
  BY <1>4, <1>5 DEF WholeInv

\* A whole response gives a whole file; one that ends early is counted as broken.
LEMMA FinishWhole ==
  ASSUME DownloadTyped, Placed, WholeInv, NEW h \in Fetcher, FinishFetch(h)
  PROVE  WholeInv'
<1> DEFINE d == fetch[h].dir
<1>d. d \in Dir /\ fetch[h] \in FetchRecord /\ fetch[h].at = "stream"
      /\ fetch[h].version \in 1..source
  BY DEF Placed, DownloadTyped, FinishFetch
<1>1. fetch'[h].at = "idle" /\ \A i \in Fetcher \ {h} : fetch'[i] = fetch[i]
  BY DEF FinishFetch, Settle, Idle, DownloadTyped
<1>2. \A c \in Dir : part'[c] \in {part[c], NoFile}
  BY DEF FinishFetch, DownloadTyped
<1>3. broken \subseteq broken'
  BY DEF FinishFetch
<1>4. \A i \in Fetcher : StreamSound(i)'
  <2>1. \A i \in Fetcher : fetch'[i].at = "stream" =>
          fetch'[i] = fetch[i] /\ part'[fetch[i].dir] \in {part[fetch[i].dir], NoFile}
    BY <1>1, <1>2 DEF Placed
  <2> QED
    BY <1>3, <2>1, StreamsStay DEF WholeInv
<1>5. d \notin broken' => part[d] = Whole(fetch[h].version)
  <2>1. SUFFICES ASSUME d \notin broken' PROVE part[d] = Whole(fetch[h].version)
    OBVIOUS
  <2>2. d \notin broken /\ ~ (fetch[h].got < Size)
    BY <2>1 DEF FinishFetch
  <2>3. fetch[h].got = Size
    BY <1>d, <2>2, DownloadNumbers DEF FetchRecord
  <2>4. part[d] # NoFile /\ part[d] \in Seq(1..MaxVersion)
    BY <1>d DEF FinishFetch, DownloadTyped, FileType
  <2>5. Len(part[d]) = Size /\ \A i \in 1..Size : part[d][i] = fetch[h].version
    BY <1>d, <2>2, <2>3, <2>4 DEF WholeInv, StreamSound
  <2> QED
    BY <2>4, <2>5, AllOfOneVersion
<1>6. FileIsWhole'
  <2>1. saved' = [saved EXCEPT ![d] = part[d]] /\ UNCHANGED <<source, cache>>
    BY DEF FinishFetch
  <2>2. saved'[d] = part[d] /\ \A c \in Dir \ {d} : saved'[c] = saved[c]
    BY <1>d, <2>1 DEF DownloadTyped
  <2>3. d \notin broken' => WholeOf(saved'[d], source')
    BY <1>5, <1>d, <2>1, <2>2 DEF WholeOf
  <2>4. /\ \A c \in Dir \ broken' : c # d /\ saved'[c] # NoFile => WholeOf(saved'[c], source')
        /\ NoDir \notin broken' /\ cache' # NoFile => WholeOf(cache', source')
    BY <1>3, <2>1, <2>2, FileIsWholeMeans DEF WholeInv
  <2> QED
    BY <2>3, <2>4, NextFileIsWholeMeans
<1> QED
  BY <1>4, <1>6 DEF WholeInv

LEMMA CacheHitWhole ==
  ASSUME DownloadTyped, Placed, WholeInv, NEW h \in Fetcher, CacheHit(h)
  PROVE  WholeInv'
<1> DEFINE d == fetch[h].dir
<1>d. d \in Dir
  BY DEF Placed, CacheHit
<1>1. fetch'[h].at = "idle" /\ \A i \in Fetcher \ {h} : fetch'[i] = fetch[i]
  BY DEF CacheHit, Settle, Idle, DownloadTyped
<1>2. \A c \in Dir : part'[c] \in {part[c], NoFile}
  BY DEF CacheHit, DownloadTyped
<1>3. broken \subseteq broken' /\ (NoDir \in broken => d \in broken')
  BY DEF CacheHit
<1>4. \A i \in Fetcher : StreamSound(i)'
  <2>1. \A i \in Fetcher : fetch'[i].at = "stream" =>
          fetch'[i] = fetch[i] /\ part'[fetch[i].dir] \in {part[fetch[i].dir], NoFile}
    BY <1>1, <1>2 DEF Placed
  <2> QED
    BY <1>3, <2>1, StreamsStay DEF WholeInv
<1>5. saved'[d] = cache /\ (\A c \in Dir \ {d} : saved'[c] = saved[c])
      /\ UNCHANGED <<source, cache>>
  BY <1>d DEF CacheHit, DownloadTyped
<1>6. FileIsWhole'
  BY <1>3, <1>5, <1>d, FileIsWholeMeans, NextFileIsWholeMeans DEF WholeInv
<1> QED
  BY <1>4, <1>6 DEF WholeInv

LEMMA DownloadNextWhole ==
  DownloadTyped /\ Placed /\ WholeInv /\ [DownloadNext]_downloadVars => WholeInv'
<1> SUFFICES ASSUME DownloadTyped, Placed, WholeInv, [DownloadNext]_downloadVars
             PROVE  WholeInv'
  OBVIOUS
<1>s. ASSUME NEW h \in Fetcher, fetch'[h].at # "stream",
             \A i \in Fetcher \ {h} : fetch'[i] = fetch[i], UNCHANGED <<part, broken>>
      PROVE  \A i \in Fetcher : StreamSound(i)'
  <2>1. \A i \in Fetcher : fetch'[i].at = "stream" =>
          fetch'[i] = fetch[i] /\ part'[fetch[i].dir] \in {part[fetch[i].dir], NoFile}
    BY <1>s
  <2> QED
    BY <1>s, <2>1, StreamsStay DEF WholeInv
<1>1. ASSUME NEW h \in Fetcher, TakeEntry(h) PROVE WholeInv'
  <2>1. PICK e, d : Enter(h, e, d)
    BY <1>1 DEF TakeEntry
  <2>2. fetch'[h].at = "cache" /\ \A i \in Fetcher \ {h} : fetch'[i] = fetch[i]
    BY <2>1 DEF Enter, Idle, DownloadTyped
  <2>3. UNCHANGED <<source, part, saved, cache, broken>>
    BY <1>1 DEF TakeEntry, diskVars
  <2>4. \A i \in Fetcher : StreamSound(i)'
    BY <1>s, <2>2, <2>3
  <2> QED
    BY <2>3, <2>4, FilesStay DEF WholeInv
<1>2. ASSUME NEW h \in Fetcher, CacheHit(h) PROVE WholeInv'
  BY <1>2, CacheHitWhole
<1>3. ASSUME NEW h \in Fetcher, CacheMiss(h) PROVE WholeInv'
  <2>1. fetch[h].dir \in Dir
    BY <1>3 DEF CacheMiss, Placed
  <2>2. fetch'[h].at = "request" /\ \A i \in Fetcher \ {h} : fetch'[i] = fetch[i]
    BY <1>3 DEF CacheMiss, DownloadTyped, FetchRecord
  <2>3. \A i \in Fetcher : StreamSound(i)'
    BY <1>3, <1>s, <2>2 DEF CacheMiss
  <2>4. \A c \in Dir : saved'[c] \in {saved[c], NoFile}
    BY <1>3, <2>1 DEF CacheMiss, DownloadTyped
  <2>5. FileIsWhole'
    BY <1>3, <2>4 DEF CacheMiss, WholeInv, FileIsWhole, Whole
  <2> QED
    BY <2>3, <2>5 DEF WholeInv
<1>4. ASSUME NEW h \in Fetcher, RequestFails(h) \/ Interrupted(h) PROVE WholeInv'
  BY <1>4, FailFetchWhole DEF RequestFails, Interrupted
<1>5. ASSUME NEW h \in Fetcher, Restarted(h) \/ Resumed(h) PROVE WholeInv'
  BY <1>5, Responses, RespondWhole
<1>6. ASSUME NEW h \in Fetcher, Receive(h) PROVE WholeInv'
  BY <1>6, ReceiveWhole
<1>7. ASSUME NEW h \in Fetcher, Unhandled(h) \/ FetchCrash(h) PROVE WholeInv'
  <2>1. fetch' = [fetch EXCEPT ![h] = Idle] /\ UNCHANGED <<source, part, saved, cache, broken>>
    BY <1>7 DEF Unhandled, FetchCrash, Settle, diskVars
  <2>2. fetch'[h].at = "idle" /\ \A i \in Fetcher \ {h} : fetch'[i] = fetch[i]
    BY <2>1 DEF Idle, DownloadTyped
  <2>3. \A i \in Fetcher : StreamSound(i)'
    BY <1>s, <2>1, <2>2
  <2> QED
    BY <2>1, <2>3, FilesStay DEF WholeInv
<1>8. ASSUME NEW h \in Fetcher, FinishFetch(h) PROVE WholeInv'
  BY <1>8, FinishWhole
<1>9. ASSUME NEW d \in Dir, UploadCache(d) PROVE WholeInv'
  <2>1. UNCHANGED <<source, fetch, part, saved>> /\ cache' = saved[d] /\ saved[d] # NoFile
    BY <1>9 DEF UploadCache
  <2>2. (\A c \in Dir : c \in broken' <=> c \in broken) /\ (NoDir \notin broken' => d \notin broken)
    BY <1>9, DownloadNumbers DEF UploadCache
  <2>3. \A i \in Fetcher : StreamSound(i)'
    BY <2>1, <2>2, StreamsStay DEF WholeInv, Placed
  <2>4. FileIsWhole'
    BY <2>1, <2>2 DEF WholeInv, FileIsWhole, Whole
  <2> QED
    BY <2>3, <2>4 DEF WholeInv
<1>10. ASSUME SourceChanges PROVE WholeInv'
  <2>1. UNCHANGED <<fetch, part, saved, cache, broken>>
    BY <1>10 DEF SourceChanges, diskVars
  <2>2. \A v \in 1..source : v \in 1..source'
    BY <1>10, DownloadNumbers DEF SourceChanges, DownloadTyped
  <2>3. \A i \in Fetcher : StreamSound(i)'
    BY <2>1, StreamsStay DEF WholeInv
  <2>4. FileIsWhole'
    BY <2>1, <2>2 DEF WholeInv, FileIsWhole, Whole
  <2> QED
    BY <2>3, <2>4 DEF WholeInv
<1>11. CASE UNCHANGED downloadVars
  <2>1. UNCHANGED <<source, fetch, part, saved, cache, broken>>
    BY <1>11 DEF downloadVars, diskVars
  <2>2. \A i \in Fetcher : StreamSound(i)'
    BY <2>1, StreamsStay DEF WholeInv
  <2> QED
    BY <2>1, <2>2, FilesStay DEF WholeInv
<1> QED
  BY <1>1, <1>2, <1>3, <1>4, <1>5, <1>6, <1>7, <1>8, <1>9, <1>10, <1>11
     DEF DownloadNext, Fetch

\* A finished file, and the copy of it that later reviews get, is one version of the
\* source, whole, however often the download was interrupted, resumed, restarted
\* or retried, unless it was broken in one of the ways that FileIsWhole names.
THEOREM FilesAreWhole == DownloadSpec => []FileIsWhole
<1>1. DownloadInit => WholeInv
  BY DEF DownloadInit, WholeInv, StreamSound, FileIsWhole, Idle
<1>2. DownloadTyped /\ Placed /\ WholeInv /\ [DownloadNext]_downloadVars => WholeInv'
  BY DownloadNextWhole
<1>3. DownloadSpec => [](DownloadTyped /\ Placed)
  BY DownloadTypeCorrect, PTL
<1>4. WholeInv => FileIsWhole
  BY DEF WholeInv
<1> QED
  BY <1>1, <1>2, <1>3, <1>4, PTL DEF DownloadSpec
=============================================================================
