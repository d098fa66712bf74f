------------------------------ MODULE FilesProofs ------------------------------
(***************************************************************************)
(* Theorems about what the processes keep in files, for every value of the *)
(* constants: the uploads in chunks (ChunkUpload), the semantic jobs       *)
(* (SemanticJobs) and the cleanup (StorageCleanup); and about MCFiles,     *)
(* which puts them together with the job's files, its download and its     *)
(* evidence: each of its behaviours is one of every component.             *)
(***************************************************************************)
EXTENDS MCFiles, JobStoreProofs, SourceDownloadProofs, EvidenceProofs, TLAPS

-----------------------------------------------------------------------------
(* The upload in chunks *)

\* What the requests of a chunk say about each other and about its file: a
\* request that is not the last one to open the file is behind the last one, and
\* what the last one wrote is all there.
RequestsSound ==
  /\ \A c \in Chunk, a \in Attempt : write[c][a] # "no" => a <= try[c]
  /\ \A c \in Chunk : last[c] <= try[c]
  /\ \A c \in Chunk : last[c] # 0 => write[c][last[c]] # "no"
  /\ \A c \in Chunk, a \in Attempt : write[c][a] \in {"open", "written"} => last[c] # 0
  /\ \A c \in Chunk : dir /\ last[c] # 0 /\ write[c][last[c]] = "written" => chunkFile[c] = "whole"

\* A chunk counts as stored by the request that the browser sent last.
StoredWritten ==
  /\ \A c \in stored : try[c] # 0 /\ write[c][try[c]] = "written"
  /\ complete # "no" => stored = Chunk

\* A request that the browser had given up opened the file of a chunk last.
Reopened == \E c \in Chunk : last[c] # 0 /\ last[c] < try[c]

\* What has been put together so far is whole, if no chunk was opened again.
PartsWhole ==
  /\ complete = "no" => readTo = 0 /\ result = "none"
  /\ readTo <= Chunks
  /\ complete # "no" /\ ~Reopened => result = IF readTo = 0 THEN "none" ELSE "whole"
  /\ complete \in {"created", "stuck", "tidied"} => readTo = AssembleFirst

UploadInv == UploadTypeOK /\ RequestsSound /\ StoredWritten /\ PartsWhole

LEMMA UploadInitSound == UploadInit => UploadInv
  BY UploadAssumption
     DEF UploadInit, UploadInv, UploadTypeOK, RequestsSound, StoredWritten, PartsWhole, Chunk, Attempt

LEMMA ChunkNumbers ==
  /\ Chunks \in Nat \ {0} /\ ChunkTries \in Nat \ {0} /\ AssembleFirst \in Nat \ {0}
  /\ \A a \in Attempt : a \in Nat /\ a # 0 /\ a <= ChunkTries
  /\ \A n \in 0..ChunkTries : n # 0 => n \in Attempt
  BY UploadAssumption DEF Attempt

LEMMA UploadNextTyped == UploadTypeOK /\ [UploadNext]_uploadVars => UploadTypeOK'
<1> SUFFICES ASSUME UploadTypeOK, [UploadNext]_uploadVars PROVE UploadTypeOK'
  OBVIOUS
<1> USE ChunkNumbers DEF UploadTypeOK
<1>1. ASSUME NEW c \in Chunk, SendChunk(c) PROVE UploadTypeOK'
  <2>1. try[c] + 1 \in 0..ChunkTries /\ try[c] + 1 \in Attempt
    BY <1>1 DEF SendChunk, Attempt
  <2>2. try' \in [Chunk -> 0..ChunkTries]
    BY <1>1, <2>1 DEF SendChunk
  <2>3. write' \in [Chunk -> [Attempt -> {"no", "sent", "open", "written", "lost"}]]
    BY <1>1, <2>1 DEF SendChunk
  <2> QED
    BY <1>1, <2>2, <2>3 DEF SendChunk
<1>2. ASSUME NEW c \in Chunk, ChunkStored(c) PROVE UploadTypeOK'
  BY <1>2 DEF ChunkStored
<1>3. ASSUME NEW c \in Chunk, NEW a \in Attempt, OpenChunk(c, a) PROVE UploadTypeOK'
  <2>1. write' \in [Chunk -> [Attempt -> {"no", "sent", "open", "written", "lost"}]]
    BY SMTT(30), <1>3 DEF OpenChunk
  <2>2. a \in 0..ChunkTries
    OBVIOUS
  <2>3. last' \in [Chunk -> 0..ChunkTries] /\ chunkFile' \in [Chunk -> {"absent", "partial", "whole"}]
    BY ZenonT(60), <1>3, <2>2 DEF OpenChunk
  <2> QED
    BY <1>3, <2>1, <2>3 DEF OpenChunk, browserVars
<1>4. ASSUME NEW c \in Chunk, NEW a \in Attempt, WriteChunk(c, a) PROVE UploadTypeOK'
  <2>1. chunkFile' \in [Chunk -> {"absent", "partial", "whole"}]
    BY <1>4 DEF WriteChunk
  <2>2. write' \in [Chunk -> [Attempt -> {"no", "sent", "open", "written", "lost"}]]
    BY <1>4 DEF WriteChunk
  <2> QED
    BY <1>4, <2>1, <2>2 DEF WriteChunk, browserVars
<1>5. ASSUME NEW c \in Chunk, NEW a \in Attempt, LoseChunk(c, a) PROVE UploadTypeOK'
  BY <1>5 DEF LoseChunk, browserVars
<1>6. CASE AskComplete \/ CreateUploaded
  BY <1>6 DEF AskComplete, CreateUploaded, browserVars
<1>7. CASE Assemble
  BY <1>7 DEF Assemble, browserVars
<1>8. CASE TidySession \/ CleanSession
  BY <1>8 DEF TidySession, CleanSession, RemoveDir, browserVars
<1>9. CASE UNCHANGED uploadVars
  BY <1>9 DEF uploadVars, browserVars
<1> QED
  BY <1>1, <1>2, <1>3, <1>4, <1>5, <1>6, <1>7, <1>8, <1>9 DEF UploadNext

LEMMA NextRequestsSound == UploadInv /\ [UploadNext]_uploadVars => RequestsSound'
<1> SUFFICES ASSUME UploadInv, [UploadNext]_uploadVars PROVE RequestsSound'
  OBVIOUS
<1> USE ChunkNumbers DEF UploadInv, UploadTypeOK, RequestsSound
<1>1. ASSUME NEW c \in Chunk, SendChunk(c) PROVE RequestsSound'
  <2>1. try[c] + 1 \in Attempt /\ write[c][try[c] + 1] = "no"
    BY <1>1 DEF SendChunk, Attempt
  <2>2. last[c] # try[c] + 1
    BY <2>1
  <2>3. /\ try' = [try EXCEPT ![c] = @ + 1] /\ write' = [write EXCEPT ![c][try[c] + 1] = "sent"]
        /\ UNCHANGED <<last, chunkFile, dir>>
    BY <1>1 DEF SendChunk
  <2>4. \A d \in Chunk, a \in Attempt :
          write'[d][a] = IF d = c /\ a = try[c] + 1 THEN "sent" ELSE write[d][a]
    BY <2>1, <2>3
  <2>5. \A d \in Chunk : try'[d] = IF d = c THEN try[c] + 1 ELSE try[d]
    BY <2>3
  <2>6. \A d \in Chunk : last[d] # 0 => write'[d][last[d]] = write[d][last[d]]
    BY <2>2, <2>4
  <2> QED
    BY <2>1, <2>3, <2>4, <2>5, <2>6
<1>2. ASSUME NEW c \in Chunk, ChunkStored(c) PROVE RequestsSound'
  BY <1>2 DEF ChunkStored
<1>3. ASSUME NEW c \in Chunk, NEW a \in Attempt, OpenChunk(c, a) PROVE RequestsSound'
  <2>1. CASE dir
    <3>1. /\ write' = [write EXCEPT ![c][a] = "open"] /\ last' = [last EXCEPT ![c] = a]
          /\ chunkFile' = [chunkFile EXCEPT ![c] = "partial"] /\ UNCHANGED <<try, dir>>
      BY <1>3, <2>1 DEF OpenChunk, browserVars
    <3>2. \A d \in Chunk, b \in Attempt :
            write'[d][b] = IF d = c /\ b = a THEN "open" ELSE write[d][b]
      BY <3>1
    <3>3. \A d \in Chunk : last'[d] = IF d = c THEN a ELSE last[d]
      BY <3>1
    <3>4. \A d \in Chunk : d # c => chunkFile'[d] = chunkFile[d]
      BY <3>1
    <3>5. a <= try[c]
      BY <1>3 DEF OpenChunk
    <3> QED
      BY <3>1, <3>2, <3>3, <3>4, <3>5
  <2>2. CASE ~dir
    <3>1. write[c][a] = "sent" /\ write' = [write EXCEPT ![c][a] = "lost"]
          /\ UNCHANGED <<try, last, chunkFile, dir>>
      BY <1>3, <2>2 DEF OpenChunk, browserVars
    <3>2. \A d \in Chunk, b \in Attempt :
            write'[d][b] = IF d = c /\ b = a THEN "lost" ELSE write[d][b]
      BY <3>1
    <3> QED
      BY <2>2, <3>1, <3>2
  <2> QED
    BY <2>1, <2>2
<1>4. ASSUME NEW c \in Chunk, NEW a \in Attempt, WriteChunk(c, a) PROVE RequestsSound'
  <2>1. write[c][a] = "open" /\ write' = [write EXCEPT ![c][a] = "written"] /\ UNCHANGED <<try, last, dir>>
    BY <1>4 DEF WriteChunk, browserVars
  <2>2. \A d \in Chunk, b \in Attempt :
          write'[d][b] = IF d = c /\ b = a THEN "written" ELSE write[d][b]
    BY <2>1
  <2>3. \A d \in Chunk : chunkFile'[d] = chunkFile[d] \/ chunkFile'[d] = "whole"
    BY <1>4 DEF WriteChunk
  <2>4. dir /\ last[c] = a => chunkFile'[c] = "whole"
    BY <1>4 DEF WriteChunk
  <2> QED
    BY <2>1, <2>2, <2>3, <2>4
<1>5. ASSUME NEW c \in Chunk, NEW a \in Attempt, LoseChunk(c, a) PROVE RequestsSound'
  BY <1>5 DEF LoseChunk, browserVars
<1>6. CASE AskComplete \/ CreateUploaded \/ Assemble
  BY <1>6 DEF AskComplete, CreateUploaded, Assemble, browserVars
<1>7. CASE TidySession \/ CleanSession
  BY <1>7 DEF TidySession, CleanSession, RemoveDir, browserVars
<1>8. CASE UNCHANGED uploadVars
  BY <1>8 DEF uploadVars, browserVars
<1> QED
  BY <1>1, <1>2, <1>3, <1>4, <1>5, <1>6, <1>7, <1>8 DEF UploadNext

LEMMA NextStoredWritten == UploadInv /\ [UploadNext]_uploadVars => StoredWritten'
<1> SUFFICES ASSUME UploadInv, [UploadNext]_uploadVars PROVE StoredWritten'
  OBVIOUS
<1> USE ChunkNumbers DEF UploadInv, UploadTypeOK, StoredWritten
<1>1. ASSUME NEW c \in Chunk, SendChunk(c) PROVE StoredWritten'
  BY <1>1 DEF SendChunk
<1>2. ASSUME NEW c \in Chunk, ChunkStored(c) PROVE StoredWritten'
  BY <1>2 DEF ChunkStored
<1>3. ASSUME NEW c \in Chunk, NEW a \in Attempt, OpenChunk(c, a) \/ WriteChunk(c, a) \/ LoseChunk(c, a)
      PROVE  StoredWritten'
  <2>1. /\ write[c][a] \in {"sent", "open"}
        /\ \E s \in {"open", "written", "lost"} : write' = [write EXCEPT ![c][a] = s]
        /\ UNCHANGED <<try, stored, complete>>
    BY <1>3 DEF OpenChunk, WriteChunk, LoseChunk, browserVars
  <2>2. \A d \in Chunk, b \in Attempt : write[d][b] = "written" => write'[d][b] = "written"
    BY <2>1
  <2>3. \A d \in stored : try[d] \in Attempt
    OBVIOUS
  <2> QED
    BY <2>1, <2>2, <2>3
<1>4. CASE AskComplete \/ CreateUploaded \/ Assemble
  BY <1>4 DEF AskComplete, CreateUploaded, Assemble, browserVars
<1>5. CASE TidySession \/ CleanSession \/ UNCHANGED uploadVars
  BY <1>5 DEF TidySession, CleanSession, uploadVars, browserVars
<1> QED
  BY <1>1, <1>2, <1>3, <1>4, <1>5 DEF UploadNext

LEMMA NextPartsWhole == UploadInv /\ [UploadNext]_uploadVars => PartsWhole'
<1> SUFFICES ASSUME UploadInv, [UploadNext]_uploadVars PROVE PartsWhole'
  OBVIOUS
<1> USE ChunkNumbers DEF UploadInv, UploadTypeOK, PartsWhole
<1>1. ASSUME NEW c \in Chunk, SendChunk(c) PROVE PartsWhole'
  BY <1>1 DEF SendChunk, StoredWritten
<1>2. ASSUME NEW c \in Chunk, ChunkStored(c) PROVE PartsWhole'
  BY <1>2 DEF ChunkStored, Reopened
<1>3. ASSUME NEW c \in Chunk, NEW a \in Attempt, OpenChunk(c, a) PROVE PartsWhole'
  <2>1. CASE complete # "no" /\ dir
    \* The request that the browser counts on has been written: this is an older one.
    <3>1. a < try[c]
      <4>1. c \in stored /\ write[c][a] = "sent" /\ write[c][try[c]] = "written"
        BY <1>3, <2>1 DEF OpenChunk, StoredWritten
      <4>2. a \in Nat /\ try[c] \in Nat /\ a # try[c]
        BY <4>1 DEF Attempt
      <4>3. a <= try[c]
        BY <4>1 DEF RequestsSound
      <4> HIDE DEF UploadInv, UploadTypeOK, PartsWhole
      <4> QED
        BY <4>2, <4>3
    <3>2. last'[c] = a /\ try' = try
      BY <1>3, <2>1 DEF OpenChunk, browserVars
    <3>3. Reopened'
      BY <3>1, <3>2 DEF Reopened
    <3> QED
      BY <1>3, <3>3 DEF OpenChunk
  <2>2. CASE ~(complete # "no" /\ dir)
    BY <1>3, <2>2 DEF OpenChunk, Reopened, browserVars
  <2> QED
    BY <2>1, <2>2
<1>4. ASSUME NEW c \in Chunk, NEW a \in Attempt, WriteChunk(c, a) \/ LoseChunk(c, a) PROVE PartsWhole'
  BY <1>4 DEF WriteChunk, LoseChunk, Reopened, browserVars
<1>5. CASE AskComplete \/ CreateUploaded
  BY <1>5 DEF AskComplete, CreateUploaded, Reopened, browserVars
<1>6. CASE Assemble
  <2>1. UNCHANGED <<try, last>>
    BY <1>6 DEF Assemble, browserVars
  <2>2. CASE complete' = "failed"
    BY <1>6, <2>1, <2>2 DEF Assemble, Reopened
  <2>3. CASE complete' # "failed"
    <3> DEFINE c == readTo + 1
    <3>1. /\ complete = "reading" /\ complete' = complete /\ dir /\ c \in Chunk /\ readTo' = c
          /\ result' = IF chunkFile[c] = "whole" /\ result # "broken" THEN "whole" ELSE "broken"
      BY <1>6, <2>3 DEF Assemble
    <3>2. ASSUME ~Reopened PROVE chunkFile[c] = "whole"
      <4>1. c \in stored /\ try[c] # 0 /\ write[c][try[c]] = "written"
        BY <3>1 DEF StoredWritten
      <4>2. try[c] \in Attempt /\ last[c] # 0 /\ last[c] <= try[c]
        BY <3>1, <4>1 DEF RequestsSound
      <4>3. last[c] = try[c]
        <5>1. last[c] \in Nat /\ try[c] \in Nat /\ ~(last[c] < try[c])
          BY <3>1, <3>2, <4>2 DEF Reopened
        <5> HIDE DEF c
        <5> QED
          BY SMTT(30), <4>2, <5>1
      <4> QED
        BY <3>1, <4>1, <4>2, <4>3 DEF RequestsSound
    <3>3. ~Reopened' => result' = "whole"
      BY <2>1, <3>1, <3>2 DEF Reopened
    <3> QED
      BY <3>1, <3>3 DEF Chunk
  <2> QED
    BY <2>2, <2>3
<1>7. CASE TidySession \/ CleanSession
  BY <1>7 DEF TidySession, CleanSession, Reopened, browserVars
<1>8. CASE UNCHANGED uploadVars
  BY <1>8 DEF uploadVars, browserVars, Reopened
<1> QED
  BY <1>1, <1>2, <1>3, <1>4, <1>5, <1>6, <1>7, <1>8 DEF UploadNext

\* Every reachable state is well typed.
THEOREM UploadTypeCorrect == UploadSpec => []UploadTypeOK
  BY UploadInitSound, UploadNextTyped, PTL DEF UploadSpec, UploadInv

\* For a file of any number of chunks, any number of requests for each, in any
\* order, with any of them lost, and the session removed at any time: if the
\* browser does not ask for fewer chunks than there are, the review is made from
\* the whole file, unless a request that it had given up opened a chunk again.
THEOREM UploadsAreWhole ==
  ASSUME AssembleFirst >= Chunks
  PROVE  UploadSpec => []AssembledWhole
<1>1. UploadInv /\ [UploadNext]_uploadVars => UploadInv'
  BY UploadNextTyped, NextRequestsSound, NextStoredWritten, NextPartsWhole DEF UploadInv
<1>2. UploadInv => AssembledWhole
  <2> SUFFICES ASSUME UploadInv, complete \in {"created", "stuck", "tidied"}
               PROVE  \/ result = "whole" /\ readTo = Chunks
                      \/ \E c \in Chunk : last[c] # 0 /\ \E a \in Attempt :
                           a < try[c] /\ write[c][a] # "no" /\ last[c] = a
    BY DEF AssembledWhole
  <2>1. readTo = Chunks
    BY ChunkNumbers DEF UploadInv, UploadTypeOK, PartsWhole
  <2>2. CASE ~Reopened
    BY <2>1, <2>2, ChunkNumbers DEF UploadInv, PartsWhole
  <2>3. CASE Reopened
    <3>1. PICK c \in Chunk : last[c] # 0 /\ last[c] < try[c]
      BY <2>3 DEF Reopened
    <3>2. last[c] \in Attempt /\ write[c][last[c]] # "no"
      BY <3>1, ChunkNumbers DEF UploadInv, UploadTypeOK, RequestsSound
    <3> QED
      BY <3>1, <3>2
  <2> QED
    BY <2>2, <2>3
<1> QED
  BY <1>1, <1>2, UploadInitSound, PTL DEF UploadSpec

-----------------------------------------------------------------------------
(* The semantic jobs *)

\* A job is made of a whole upload, and what a file of the upload holds is the
\* last video that came under its name.
SavedSound ==
  /\ upload.made <=> runner.at # "no"
  /\ page.at # "waiting" => upload.made
  /\ upload.made => upload.saved = VideoCount
  /\ \A v \in Video : v <= upload.saved =>
       nameOf[v] \in FileName /\ content[nameOf[v]] # NoVideo
  /\ \A n \in FileName : content[n] # NoVideo =>
       content[n] <= upload.saved /\ nameOf[content[n]] = n

\* A result file holds a video of its stem, and a video that is done has one.
OutputSound ==
  /\ \A s \in Stem : output[s] # NoVideo => upload.made /\ StemOf[nameOf[output[s]]] = s
  /\ \A v \in Video : videos[v].has => upload.made /\ output[StemOf[nameOf[v]]] # NoVideo

\* The videos are done in turn; the job is complete when all are, or when one
\* has failed, which the page remembers.
ProgressSound ==
  /\ \A v \in Video : (videos[v].status = "completed" => videos[v].has)
                      /\ (videos[v].has => videos[v].status \in {"completed", "failed"})
  /\ runner.at # "over" =>
       \A v \in Video : v >= runner.video => videos[v].status \in {"pending", "processing"}
  /\ status = "completed" => With("failed", videos) \/ \A v \in Video : videos[v].has
  /\ page.at \in {"loading", "loaded"} => page.failed \/ \A v \in Video : videos[v].has

\* What the task records of a video.
Outcome == {[status |-> "completed", has |-> TRUE]} \cup [status : {"failed"}, has : BOOLEAN]

SemanticInv == SemanticTypeOK /\ SavedSound /\ OutputSound /\ ProgressSound /\ ResultExplained

LEMMA SemanticInitSound == SemanticInit => SemanticInv
<1> SUFFICES ASSUME SemanticInit PROVE SemanticInv
  OBVIOUS
<1> USE SemanticAssumption DEF SemanticInit
<1>1. 1 \in Video /\ 0 \in 0..VideoCount
  BY DEF Video
<1>2. SemanticTypeOK
  BY <1>1 DEF SemanticTypeOK, VideoStatus
<1>3. SavedSound
  BY DEF SavedSound, Video
<1>4. OutputSound /\ ProgressSound /\ ResultExplained
  BY DEF OutputSound, ProgressSound, ResultExplained
<1> QED
  BY <1>2, <1>3, <1>4 DEF SemanticInv

LEMMA StemTyped == \A n \in FileName : StemOf[n] \in Stem
  BY DEF Stem

LEMMA ProgressTyped == \A vs : Progress(vs) \in VideoStatus
  BY DEF Progress, VideoStatus

LEMMA ExtractedKnown ==
  ASSUME SemanticInv, runner.at = "extract"
  PROVE  /\ nameOf[runner.video] \in FileName /\ content[nameOf[runner.video]] \in Video
         /\ nameOf[content[nameOf[runner.video]]] = nameOf[runner.video]
<1>1. runner.video \in Video /\ runner.video <= upload.saved
  BY SemanticAssumption DEF SemanticInv, SemanticTypeOK, SavedSound, Video
<1> QED
  BY <1>1 DEF SemanticInv, SemanticTypeOK, SavedSound

LEMMA RunnerMoves ==
  ASSUME runner \in [at : {"no", "next", "extract", "over"}, video : Video],
         NEW new, Record(new)
  PROVE  /\ runner' \in [at : {"no", "next", "extract", "over"}, video : Video]
         /\ runner'.at \in {"next", "over"}
         /\ runner'.at = "next" => runner'.video = runner.video + 1
         /\ runner'.at = "over" => runner.video = VideoCount
  BY SemanticAssumption DEF Record, Video

LEMMA SemanticNextTyped == SemanticInv /\ [SemanticNext]_semanticVars => SemanticTypeOK'
<1> SUFFICES ASSUME SemanticInv, [SemanticNext]_semanticVars PROVE SemanticTypeOK'
  OBVIOUS
<1> USE SemanticAssumption DEF SemanticTypeOK
<1>0. SemanticTypeOK
  BY DEF SemanticInv
<1>1. CASE SaveUpload
  <2>1. PICK n \in FileName :
          /\ nameOf' = [nameOf EXCEPT ![upload.saved + 1] = n]
          /\ content' = [content EXCEPT ![n] = upload.saved + 1]
    BY <1>1 DEF SaveUpload
  <2>2. upload.saved + 1 \in Video /\ upload.saved + 1 \in 0..VideoCount
    BY <1>0, <1>1 DEF SaveUpload, Video
  <2>3. upload' \in [saved : 0..VideoCount, made : BOOLEAN]
    BY <1>0, <1>1, <2>2 DEF SaveUpload
  <2>4. nameOf' \in [Video -> FileName \cup {NoVideo}] /\ content' \in [FileName -> Video \cup {NoVideo}]
    BY <1>0, <2>1, <2>2
  <2> QED
    BY <1>0, <1>1, <2>3, <2>4 DEF SaveUpload
<1>2. CASE MakeJob
  BY <1>0, <1>2 DEF MakeJob
<1>3. CASE StartVideo
  BY <1>0, <1>3 DEF StartVideo, VideoStatus
<1>4. ASSUME NEW new \in [status : VideoStatus, has : BOOLEAN], Record(new),
             output' \in [Stem -> Video \cup {NoVideo}]
      PROVE  SemanticTypeOK'
  <2>1. videos' \in [Video -> [status : VideoStatus, has : BOOLEAN]] /\ status' \in VideoStatus
    BY <1>0, <1>4, ProgressTyped DEF Record
  <2> QED
    BY <1>0, <1>4, <2>1, RunnerMoves DEF Record
<1>written. runner.at = "extract" /\ WriteOutput => output' \in [Stem -> Video \cup {NoVideo}]
  BY <1>0, ExtractedKnown, StemTyped DEF WriteOutput
<1>5. CASE Extracted
  BY <1>4, <1>5, <1>written DEF Extracted, VideoStatus
<1>6. CASE ExtractFails
  <2>1. CASE UNCHANGED output /\ Record([status |-> "failed", has |-> FALSE])
    BY <1>0, <1>4, <2>1 DEF VideoStatus
  <2>2. ASSUME NEW h \in BOOLEAN, WriteOutput, Record([status |-> "failed", has |-> h])
        PROVE  SemanticTypeOK'
    <3>1. [status |-> "failed", has |-> h] \in [status : VideoStatus, has : BOOLEAN]
      BY DEF VideoStatus
    <3> QED
      BY <1>4, <1>6, <1>written, <2>2, <3>1 DEF ExtractFails
  <2> QED
    BY <1>6, <2>1, <2>2 DEF ExtractFails
<1>7. CASE SemanticRestart
  BY <1>0, <1>7 DEF SemanticRestart
<1>8. CASE Poll
  BY <1>0, <1>8 DEF Poll, With
<1>9. CASE LoadResult
  <2>1. \A v \in Video : videos[v].has => output[StemOf[nameOf[v]]] \in Video
    <3> SUFFICES ASSUME NEW v \in Video, videos[v].has PROVE output[StemOf[nameOf[v]]] \in Video
      OBVIOUS
    <3>1. nameOf[v] \in FileName
      BY DEF SemanticInv, SavedSound, OutputSound, Video
    <3> QED
      BY <1>0, <3>1, StemTyped DEF SemanticInv, OutputSound
  <2> QED
    BY <1>0, <1>9, <2>1 DEF LoadResult
<1>10. CASE UNCHANGED semanticVars
  BY <1>0, <1>10 DEF semanticVars
<1> QED
  BY <1>1, <1>2, <1>3, <1>5, <1>6, <1>7, <1>8, <1>9, <1>10 DEF SemanticNext

LEMMA NextSavedSound == SemanticInv /\ [SemanticNext]_semanticVars => SavedSound'
<1> SUFFICES ASSUME SemanticInv, [SemanticNext]_semanticVars PROVE SavedSound'
  OBVIOUS
<1> USE SemanticAssumption DEF SemanticInv, SemanticTypeOK, SavedSound
<1>1. CASE SaveUpload
  <2>1. PICK n \in FileName :
          /\ nameOf' = [nameOf EXCEPT ![upload.saved + 1] = n]
          /\ content' = [content EXCEPT ![n] = upload.saved + 1]
    BY <1>1 DEF SaveUpload
  <2>2. /\ upload.saved + 1 \in Video /\ ~upload.made
        /\ upload'.saved = upload.saved + 1 /\ upload'.made = upload.made
        /\ UNCHANGED <<runner, page>>
    BY <1>1 DEF SaveUpload, Video
  <2>3. \A v \in Video : nameOf'[v] = IF v = upload.saved + 1 THEN n ELSE nameOf[v]
    BY <2>1, <2>2
  <2>4. \A m \in FileName : content'[m] = IF m = n THEN upload.saved + 1 ELSE content[m]
    BY <2>1
  <2>5. ASSUME NEW v \in Video, v <= upload'.saved
        PROVE  nameOf'[v] \in FileName /\ content'[nameOf'[v]] # NoVideo
    <3>1. v = upload.saved + 1 \/ v <= upload.saved
      BY <2>2, <2>5 DEF Video
    <3>2. CASE v = upload.saved + 1
      BY <2>2, <2>3, <2>4, <3>2
    <3>3. CASE v # upload.saved + 1
      <4>1. nameOf'[v] = nameOf[v] /\ nameOf[v] \in FileName /\ content[nameOf[v]] # NoVideo
        BY <2>3, <3>1, <3>3
      <4> QED
        BY <2>2, <2>4, <4>1
    <3> QED
      BY <3>2, <3>3
  <2>6. ASSUME NEW m \in FileName, content'[m] # NoVideo
        PROVE  content'[m] <= upload'.saved /\ nameOf'[content'[m]] = m
    <3>1. CASE m = n
      BY <2>2, <2>3, <2>4, <3>1 DEF Video
    <3>2. CASE m # n
      <4>1. /\ content'[m] = content[m] /\ content[m] \in Video /\ content[m] <= upload.saved
            /\ nameOf[content[m]] = m
        BY <2>4, <2>6, <3>2
      <4>2. upload.saved \in Nat /\ content[m] # upload.saved + 1 /\ content[m] <= upload.saved + 1
        BY <4>1 DEF Video
      <4> QED
        BY <2>2, <2>3, <4>1, <4>2
    <3> QED
      BY <3>1, <3>2
  <2> QED
    BY <2>2, <2>5, <2>6
<1>2. CASE MakeJob
  BY <1>2 DEF MakeJob
<1>3. CASE StartVideo
  BY <1>3 DEF StartVideo
<1>4. CASE Extracted \/ ExtractFails
  BY <1>4, RunnerMoves DEF Extracted, ExtractFails, Record
<1>5. CASE SemanticRestart \/ Poll \/ LoadResult
  BY <1>5 DEF SemanticRestart, Poll, LoadResult
<1>6. CASE UNCHANGED semanticVars
  BY <1>6 DEF semanticVars
<1> QED
  BY <1>1, <1>2, <1>3, <1>4, <1>5, <1>6 DEF SemanticNext

LEMMA NextOutputSound == SemanticInv /\ [SemanticNext]_semanticVars => OutputSound'
<1> SUFFICES ASSUME SemanticInv, [SemanticNext]_semanticVars PROVE OutputSound'
  OBVIOUS
<1> USE SemanticAssumption DEF SemanticInv, SemanticTypeOK, OutputSound
<1>1. CASE SaveUpload
  BY <1>1 DEF SaveUpload, SavedSound
<1>2. CASE MakeJob
  BY <1>2 DEF MakeJob
<1>3. CASE StartVideo
  BY <1>3 DEF StartVideo
<1>4. ASSUME NEW new, runner.at = "extract", WriteOutput, Record(new) PROVE OutputSound'
  <2> DEFINE n == nameOf[runner.video]
             u == content[n]
  <2>1. n \in FileName /\ u \in Video /\ nameOf[u] = n /\ StemOf[n] \in Stem /\ runner.video \in Video
    BY <1>4, ExtractedKnown, StemTyped
  <2>2. upload.made
    BY <1>4 DEF SavedSound
  <2>3. /\ output' = [output EXCEPT ![StemOf[n]] = u]
        /\ videos' = [videos EXCEPT ![runner.video] = new]
        /\ UNCHANGED <<nameOf, upload>>
    BY <1>4 DEF WriteOutput, Record
  <2> HIDE DEF n, u
  <2>4. ASSUME NEW s \in Stem, output'[s] # NoVideo PROVE StemOf[nameOf[output'[s]]] = s
    BY <2>1, <2>3, <2>4
  <2>5. ASSUME NEW v \in Video, videos'[v].has PROVE output'[StemOf[nameOf[v]]] # NoVideo
    <3>1. nameOf[v] \in FileName
      BY <2>2 DEF SavedSound, Video
    <3>2. StemOf[nameOf[v]] \in Stem
      BY <3>1, StemTyped
    <3>3. CASE StemOf[nameOf[v]] = StemOf[n]
      BY <2>1, <2>3, <3>2, <3>3
    <3>4. CASE StemOf[nameOf[v]] # StemOf[n]
      <4>1. v # runner.video
        BY <3>4 DEF n
      <4>2. videos[v].has
        BY <2>1, <2>3, <2>5, <4>1
      <4> QED
        BY <2>3, <3>2, <3>4, <4>2
    <3> QED
      BY <3>3, <3>4
  <2> QED
    BY <2>2, <2>3, <2>4, <2>5
<1>5. CASE Extracted \/ ExtractFails
  <2>1. CASE UNCHANGED output /\ Record([status |-> "failed", has |-> FALSE])
    BY <2>1 DEF Record
  <2> QED
    BY <1>4, <1>5, <2>1 DEF Extracted, ExtractFails
<1>6. CASE SemanticRestart \/ Poll \/ LoadResult
  BY <1>6 DEF SemanticRestart, Poll, LoadResult
<1>7. CASE UNCHANGED semanticVars
  BY <1>7 DEF semanticVars
<1> QED
  BY <1>1, <1>2, <1>3, <1>4, <1>5, <1>6, <1>7 DEF SemanticNext

LEMMA NextProgressSound == SemanticInv /\ [SemanticNext]_semanticVars => ProgressSound'
<1> SUFFICES ASSUME SemanticInv, [SemanticNext]_semanticVars PROVE ProgressSound'
  OBVIOUS
<1> USE SemanticAssumption DEF SemanticInv, SemanticTypeOK, ProgressSound
<1>1. CASE SaveUpload \/ MakeJob
  BY <1>1 DEF SaveUpload, MakeJob, SavedSound, With
<1>2. CASE StartVideo
  <2> DEFINE r == runner.video
  <2>1. /\ r \in Video /\ runner.at = "next" /\ runner'.at = "extract" /\ runner'.video = r
        /\ videos' = [videos EXCEPT ![r].status = "processing"]
        /\ status' \in {"processing", status} /\ page' = page
    BY <1>2 DEF StartVideo
  <2>2. videos[r].status \in {"pending", "processing"} /\ ~videos[r].has
    <3>1. r >= r
      BY <2>1 DEF Video
    <3>2. videos[r].status \in {"pending", "processing"}
      BY <2>1, <3>1
    <3> QED
      BY <2>1, <3>2
  <2>3. \A v \in Video : /\ videos'[v].has = videos[v].has
                         /\ videos'[v].status = IF v = r THEN "processing" ELSE videos[v].status
    BY <2>1
  <2>4. With("failed", videos) => With("failed", videos')
    BY <2>2, <2>3 DEF With
  <2>5. status = "completed" => With("failed", videos)
    BY <2>1, <2>2
  <2>6. page.at \in {"loading", "loaded"} => page.failed
    BY <2>1, <2>2
  <2>7. \A v \in Video : (videos'[v].status = "completed" => videos'[v].has)
                         /\ (videos'[v].has => videos'[v].status \in {"completed", "failed"})
    BY <2>2, <2>3
  <2>8. \A v \in Video : v >= r => videos'[v].status \in {"pending", "processing"}
    BY <2>1, <2>3
  <2> QED
    BY <2>1, <2>4, <2>5, <2>6, <2>7, <2>8
<1>3. ASSUME NEW new, new \in Outcome,
             runner.at = "extract", Record(new)
      PROVE  ProgressSound'
  <2> DEFINE r == runner.video
  <2>1. /\ r \in Video /\ videos' = [videos EXCEPT ![r] = new] /\ status' = Progress(videos') /\ page' = page
    BY <1>3 DEF Record
  <2>2. ~videos[r].has
    <3>1. r >= r
      BY <2>1 DEF Video
    <3>2. videos[r].status \in {"pending", "processing"}
      BY <1>3, <2>1, <3>1
    <3> QED
      BY <2>1, <3>2
  <2>3. \A v \in Video : videos'[v] = IF v = r THEN new ELSE videos[v]
    BY <2>1
  <2>4. \A v \in Video : (videos'[v].status = "completed" => videos'[v].has)
                         /\ (videos'[v].has => videos'[v].status \in {"completed", "failed"})
    BY <1>3, <2>3 DEF Outcome
  <2>5. /\ runner'.at \in {"next", "over"}
        /\ runner'.at = "next" => runner'.video = r + 1
    BY <1>3, RunnerMoves
  <2>6. runner'.at # "over" =>
          \A v \in Video : v >= runner'.video => videos'[v].status \in {"pending", "processing"}
    <3> SUFFICES ASSUME runner'.at # "over", NEW v \in Video, v >= runner'.video
                 PROVE  videos'[v].status \in {"pending", "processing"}
      OBVIOUS
    <3>1. r \in Nat /\ v \in Nat /\ v >= r + 1
      BY <2>1, <2>5 DEF Video
    <3>2. v # r /\ v >= r
      BY <3>1
    <3> QED
      BY <1>3, <2>3, <3>2
  <2>7. status' = "completed" => With("failed", videos') \/ \A v \in Video : videos'[v].has
    BY <2>1, <2>4 DEF Progress
  <2>8. page.at \in {"loading", "loaded"} => page.failed
    BY <2>1, <2>2
  <2> QED
    BY <2>1, <2>4, <2>6, <2>7, <2>8
<1>4. CASE Extracted \/ ExtractFails
  BY <1>3, <1>4 DEF Extracted, ExtractFails, Outcome
<1>5. CASE SemanticRestart
  BY <1>5 DEF SemanticRestart
<1>6. CASE Poll
  <2>1. /\ page'.failed = With("failed", videos) /\ UNCHANGED <<status, videos, runner>>
        /\ page'.at \in {"loading", "loaded"} => status = "completed"
    BY <1>6 DEF Poll
  <2> QED
    BY <2>1
<1>7. CASE LoadResult
  BY <1>7 DEF LoadResult
<1>8. CASE UNCHANGED semanticVars
  BY <1>8 DEF semanticVars
<1> QED
  BY <1>1, <1>2, <1>4, <1>5, <1>6, <1>7, <1>8 DEF SemanticNext

LEMMA NextResultExplained == SemanticInv /\ [SemanticNext]_semanticVars => ResultExplained'
<1> SUFFICES ASSUME SemanticInv, [SemanticNext]_semanticVars PROVE ResultExplained'
  OBVIOUS
<1> USE DEF SemanticInv, SemanticTypeOK, ResultExplained
<1>1. CASE LoadResult
  <2>1. /\ page'.payload = [v \in Video |-> IF videos[v].has THEN output[StemOf[nameOf[v]]] ELSE NoVideo]
        /\ page'.failed = page.failed /\ UNCHANGED nameOf
        /\ page.at = "loading"
    BY <1>1 DEF LoadResult
  <2>2. ASSUME NEW v \in Video, videos[v].has
        PROVE  /\ output[StemOf[nameOf[v]]] \in Video
               /\ StemOf[nameOf[output[StemOf[nameOf[v]]]]] = StemOf[nameOf[v]]
    <3>1. nameOf[v] \in FileName
      BY <2>2, SemanticAssumption DEF SavedSound, OutputSound, Video
    <3> QED
      BY <2>2, <3>1, StemTyped DEF OutputSound
  <2>3. \A v \in Video : page'.payload[v] \in {v, NoVideo}
                         \/ \E u \in Video \ {v} : StemOf[nameOf'[u]] = StemOf[nameOf'[v]]
    BY <2>1, <2>2
  <2>4. (\E v \in Video : page'.payload[v] = NoVideo) => page'.failed
    BY <2>1, <2>2, SemanticAssumption DEF ProgressSound
  <2> QED
    BY <2>3, <2>4
<1>2. CASE SaveUpload
  BY <1>2, SemanticAssumption DEF SaveUpload, SavedSound
<1>3. CASE MakeJob \/ Poll
  <2>1. page'.at # "loaded"
    BY <1>3 DEF MakeJob, Poll
  <2> QED
    BY <2>1
<1>4. CASE StartVideo \/ SemanticRestart \/ Extracted \/ ExtractFails \/ UNCHANGED semanticVars
  <2>1. UNCHANGED <<nameOf, page>>
    BY <1>4 DEF StartVideo, SemanticRestart, Extracted, ExtractFails, Record, semanticVars
  <2> QED
    BY <2>1
<1> QED
  BY <1>1, <1>2, <1>3, <1>4 DEF SemanticNext

LEMMA SemanticNextSound == SemanticInv /\ [SemanticNext]_semanticVars => SemanticInv'
  BY SemanticNextTyped, NextSavedSound, NextOutputSound, NextProgressSound, NextResultExplained
     DEF SemanticInv

\* Every reachable state is well typed.
THEOREM SemanticTypeCorrect == SemanticSpec => []SemanticTypeOK
<1>1. SemanticInv => SemanticTypeOK
  BY DEF SemanticInv
<1> QED
  BY <1>1, SemanticInitSound, SemanticNextSound, PTL DEF SemanticSpec

\* For any number of videos under any names, whatever fails, in whatever order
\* the page polls and loads, and wherever the service restarts: the page shows
\* for a video what was extracted from it or from one that shares its stem, and
\* misses a video only after a failure.
THEOREM ResultsAreExplained == SemanticSpec => []ResultExplained
<1>1. SemanticInv => ResultExplained
  BY DEF SemanticInv
<1> QED
  BY <1>1, SemanticInitSound, SemanticNextSound, PTL DEF SemanticSpec

-----------------------------------------------------------------------------
(* The cleanup *)

JobRecord == [over : BOOLEAN, path : SourceFile \cup {NoSource}, age : 0..AgeCap, due : BOOLEAN]

CleanupTyped ==
  /\ job \in [Job -> JobRecord]
  /\ raw \subseteq SourceFile
  /\ derived \subseteq Job /\ wasOver \subseteq Job

\* The video of a review that has been over, inside the raw directory.
Spent(f) == KindOf[f] # "outside" /\ \E q \in wasOver : job[q].path = f

\* What a cleanup found to delete belongs to reviews that have been over, since
\* a review is cleaned up only when it was over at the time it was loaded.
DoomedIsSpent ==
  /\ \A r \in Job : job[r].over => r \in wasOver
  /\ doomed \subseteq wasOver \cup {f \in SourceFile : Spent(f)}

CleanupInv == CleanupTyped /\ DoomedIsSpent /\ LiveFilesKept

LEMMA AgeCapIsNat == AgeCap \in Nat /\ 0 \in 0..AgeCap
  BY CleanupAssumption DEF AgeCap

LEMMA CleanupInitSound == CleanupInit => CleanupInv
  BY CleanupAssumption, AgeCapIsNat
     DEF CleanupInit, CleanupInv, CleanupTyped, JobRecord, DoomedIsSpent, LiveFilesKept, Spent

\* What a cleanup deletes for a review is the review's, and it is over.
LEMMA TargetIsSpent ==
  ASSUME CleanupInv, NEW r \in Job, NEW l \in Level
  PROVE  Target(r, l) \subseteq wasOver \cup {f \in SourceFile : Spent(f)}
  BY DEF Target, RawTarget, CleanupInv, CleanupTyped, DoomedIsSpent, Spent

\* How the record of a review moves.
LEMMA JobMoves ==
  ASSUME NEW j \in JobRecord, NEW n \in 0..AgeCap
  PROVE  /\ \A f \in SourceFile : [j EXCEPT !.path = f, !.age = n] \in JobRecord
         /\ [j EXCEPT !.over = FALSE, !.age = n] \in JobRecord
         /\ \A b \in BOOLEAN : [j EXCEPT !.over = TRUE, !.age = n, !.due = b] \in JobRecord
         /\ [j EXCEPT !.age = n] \in JobRecord
<1> DEFINE Ages == 0..AgeCap
<1> HIDE DEF Ages
<1>1. JobRecord = [over : BOOLEAN, path : SourceFile \cup {NoSource}, age : Ages, due : BOOLEAN]
  BY DEF Ages, JobRecord
<1>2. n \in Ages
  BY DEF Ages
<1>3. ASSUME NEW f \in SourceFile PROVE [j EXCEPT !.path = f, !.age = n] \in JobRecord
  BY <1>1, <1>2
<1>4. [j EXCEPT !.over = FALSE, !.age = n] \in JobRecord
  BY <1>1, <1>2
<1>5. ASSUME NEW b \in BOOLEAN PROVE [j EXCEPT !.over = TRUE, !.age = n, !.due = b] \in JobRecord
  BY <1>1, <1>2
<1>6. [j EXCEPT !.age = n] \in JobRecord
  BY <1>1, <1>2
<1> QED
  BY <1>3, <1>4, <1>5, <1>6

LEMMA DueGone ==
  ASSUME NEW j \in JobRecord
  PROVE  [j EXCEPT !.due = FALSE] \in JobRecord
<1> DEFINE Ages == 0..AgeCap
<1> HIDE DEF Ages
<1>1. JobRecord = [over : BOOLEAN, path : SourceFile \cup {NoSource}, age : Ages, due : BOOLEAN]
  BY DEF Ages, JobRecord
<1> QED
  BY <1>1

LEMMA CleanupNextSound == CleanupInv /\ [CleanupNext]_cleanupVars => CleanupInv'
<1> SUFFICES ASSUME CleanupInv, [CleanupNext]_cleanupVars PROVE CleanupInv'
  OBVIOUS
<1> USE DEF CleanupInv, CleanupTyped, DoomedIsSpent, Spent, LiveFilesKept
\* A step of a review that keeps the videos of all reviews, and ends none of them
\* without its being on record.
<1>1. ASSUME job' \in [Job -> JobRecord], \A r \in Job : job'[r].path = job[r].path,
             \A r \in Job : job'[r].over => r \in wasOver',
             wasOver \subseteq wasOver', wasOver' \subseteq Job,
             UNCHANGED <<raw, derived>>,
             doomed' \subseteq wasOver \cup {f \in SourceFile : Spent(f)}
      PROVE  CleanupInv'
  BY <1>1
<1>2. ASSUME NEW r \in Job, Ingest(r) PROVE CleanupInv'
  <2>1. PICK f \in SourceFile :
          /\ job[r].path = NoSource
          /\ job' = [job EXCEPT ![r] = [job[r] EXCEPT !.path = f, !.age = 0]]
          /\ raw' = raw \cup {f} /\ derived' = derived \cup {r}
          /\ UNCHANGED <<doomed, wasOver>>
    BY ZenonT(60), <1>2 DEF Ingest
  <2>2. job' \in [Job -> JobRecord]
    <3>1. [job[r] EXCEPT !.path = f, !.age = 0] \in JobRecord
      BY JobMoves, AgeCapIsNat
    <3> QED
      BY <2>1, <3>1
  <2>3. /\ \A q \in Job \ {r} : job'[q] = job[q]
        /\ job'[r].path = f /\ job'[r].over = job[r].over
    BY <2>1 DEF JobRecord
  <2>4. DoomedIsSpent'
    BY <2>1, <2>3, CleanupAssumption
  <2>5. LiveFilesKept'
    <3>1. ASSUME NEW q \in Job \ wasOver, job'[q].path # NoSource
          PROVE  /\ q \in derived'
                 /\ job'[q].path \in raw' \/ \E p \in wasOver : job'[p].path = job'[q].path
      <4>1. CASE q = r
        BY <2>1, <2>3, <4>1
      <4>2. CASE q # r
        BY <2>1, <2>3, <3>1, <4>2
      <4> QED
        BY <4>1, <4>2
    <3> QED
      BY <2>1, <3>1
  <2> QED
    BY <2>1, <2>2, <2>4, <2>5
<1>3. ASSUME NEW r \in Job, Advance(r) PROVE CleanupInv'
  <2>1. job' = [job EXCEPT ![r] = [job[r] EXCEPT !.over = FALSE, !.age = 0]]
    BY <1>3 DEF Advance
  <2>2. job' \in [Job -> JobRecord]
    <3>1. [job[r] EXCEPT !.over = FALSE, !.age = 0] \in JobRecord
      BY JobMoves, AgeCapIsNat
    <3> QED
      BY <2>1, <3>1
  <2>3. \A q \in Job : job'[q].path = job[q].path /\ (job'[q].over => job[q].over)
    BY <2>1 DEF JobRecord
  <2> QED
    BY <1>1, <1>3, <2>2, <2>3 DEF Advance
<1>4. ASSUME NEW r \in Job, EndJob(r) PROVE CleanupInv'
  <2>1. PICK clean \in BOOLEAN :
          job' = [job EXCEPT ![r] = [job[r] EXCEPT !.over = TRUE, !.age = 0, !.due = clean]]
    BY ZenonT(60), <1>4 DEF EndJob
  <2>2. job' \in [Job -> JobRecord]
    <3>1. [job[r] EXCEPT !.over = TRUE, !.age = 0, !.due = clean] \in JobRecord
      BY JobMoves, AgeCapIsNat
    <3> QED
      BY <2>1, <3>1
  <2>3. \A q \in Job : job'[q].path = job[q].path /\ (job'[q].over => job[q].over \/ q = r)
    BY <2>1 DEF JobRecord
  <2>4. wasOver' = wasOver \cup {r} /\ UNCHANGED <<raw, derived, doomed>>
    BY <1>4 DEF EndJob
  <2>5. \A q \in Job : job'[q].over => q \in wasOver'
    BY <2>3, <2>4
  <2>6. wasOver \subseteq wasOver' /\ wasOver' \subseteq Job
    BY <2>4
  <2> QED
    BY <1>1, <2>2, <2>3, <2>4, <2>5, <2>6
<1>5. ASSUME NEW r \in Job, OwnCleanup(r) PROVE CleanupInv'
  <2>1. job' = [job EXCEPT ![r] = [job[r] EXCEPT !.due = FALSE]]
    BY <1>5 DEF OwnCleanup
  <2>2. job' \in [Job -> JobRecord]
    BY <2>1, DueGone
  <2>3. \A q \in Job : job'[q].path = job[q].path /\ (job'[q].over => job[q].over)
    BY <2>1 DEF JobRecord
  <2>4. PICK l \in Level : doomed' = doomed \cup Target(r, l)
    BY <1>5 DEF OwnCleanup
  <2>5. doomed' \subseteq wasOver \cup {f \in SourceFile : Spent(f)}
    BY <2>4, TargetIsSpent
  <2>6. UNCHANGED <<raw, derived, wasOver>>
    BY <1>5 DEF OwnCleanup
  <2> QED
    BY <1>1, <2>2, <2>3, <2>5, <2>6
<1>6. CASE LoadJobs
  <2>1. PICK l \in Level : doomed' = doomed \cup UNION {Target(r, l) : r \in Job}
    BY <1>6 DEF LoadJobs
  <2>2. \A r \in Job : Target(r, l) \subseteq wasOver \cup {f \in SourceFile : Spent(f)}
    BY TargetIsSpent
  <2>3. doomed' \subseteq wasOver \cup {f \in SourceFile : Spent(f)}
    BY <2>1, <2>2
  <2>4. UNCHANGED <<job, raw, derived, wasOver>>
    BY <1>6 DEF LoadJobs
  <2> QED
    BY <1>1, <2>3, <2>4
<1>7. CASE Delete
  <2>1. PICK x \in doomed :
          /\ doomed' = doomed \ {x} /\ raw' = raw \ {x} /\ derived' = derived \ {x}
          /\ UNCHANGED <<job, wasOver>>
    BY <1>7 DEF Delete
  <2>2. CASE x \in wasOver
    BY <2>1, <2>2, CleanupAssumption
  <2>3. CASE x \in SourceFile /\ Spent(x)
    BY <2>1, <2>3, CleanupAssumption
  <2> QED
    BY <2>1, <2>2, <2>3
<1>8. CASE CleanupTick
  <2>1. job' = [r \in Job |-> [job[r] EXCEPT !.age = IF @ < AgeCap THEN @ + 1 ELSE @]]
    BY <1>8 DEF CleanupTick
  <2>2. job' \in [Job -> JobRecord]
    <3>1. ASSUME NEW r \in Job
          PROVE  [job[r] EXCEPT !.age = IF @ < AgeCap THEN @ + 1 ELSE @] \in JobRecord
      <4>1. (IF job[r].age < AgeCap THEN job[r].age + 1 ELSE job[r].age) \in 0..AgeCap
        BY AgeCapIsNat DEF JobRecord
      <4> QED
        BY <4>1, JobMoves
    <3> QED
      BY SMTT(30), <2>1, <3>1
  <2>3. \A q \in Job : job'[q].path = job[q].path /\ job'[q].over = job[q].over
    BY <2>1 DEF JobRecord
  <2> QED
    BY <1>1, <1>8, <2>2, <2>3 DEF CleanupTick
<1>9. CASE UNCHANGED cleanupVars
  BY <1>9 DEF cleanupVars
<1> QED
  BY <1>2, <1>3, <1>4, <1>5, <1>6, <1>7, <1>8, <1>9 DEF CleanupNext

\* Whatever the TTLs, the fill of the disk and the time zone, and however old
\* the list that the command works from: a review that was never over keeps its
\* files, unless it shares its video with one that was.
THEOREM LiveFilesAreKept == CleanupSpec => []LiveFilesKept
<1>1. CleanupInv => LiveFilesKept
  BY DEF CleanupInv
<1> QED
  BY <1>1, CleanupInitSound, CleanupNextSound, PTL DEF CleanupSpec

\* Every reachable state is well typed.
THEOREM CleanupTypeCorrect == CleanupSpec => []CleanupTypeOK
<1>1. CleanupInv => CleanupTypeOK
  BY DEF CleanupInv, CleanupTyped, CleanupTypeOK, JobRecord, DoomedIsSpent
<1> QED
  BY <1>1, CleanupInitSound, CleanupNextSound, PTL DEF CleanupSpec

-----------------------------------------------------------------------------
(* The composition *)

\* A behaviour of the components together is one of each: the one that moves
\* makes a step of its own, and the others stutter.
LEMMA FilesHaveParts ==
  FilesSpec => /\ JobSpec /\ DownloadSpec /\ UploadSpec
               /\ CleanupSpec /\ SemanticSpec /\ EvidenceSpec
<1>1. FilesInit => /\ JobInit /\ DownloadInit /\ UploadInit
                   /\ CleanupInit /\ SemanticInit /\ EvidenceInit
  BY DEF FilesInit
<1>2. [FilesNext]_<<scenario, jobVars, downloadVars, uploadVars, cleanupVars, semanticVars,
                    evidenceVars>>
        => /\ [JobNext]_jobVars /\ [DownloadNext]_downloadVars /\ [UploadNext]_uploadVars
           /\ [CleanupNext]_cleanupVars /\ [SemanticNext]_semanticVars
           /\ [EvidenceNext]_evidenceVars
  BY DEF FilesNext, jobOnly, downloadOnly, uploadOnly, cleanupOnly, semanticOnly, evidenceOnly
<1> QED
  BY <1>1, <1>2, PTL DEF FilesSpec, JobSpec, DownloadSpec, UploadSpec, CleanupSpec, SemanticSpec,
                         EvidenceSpec

\* Every reachable state of the components together is well typed.
THEOREM FilesTypeCorrect == FilesSpec => []FilesTypeOK
<1>1. JobTypeOK /\ DownloadTypeOK /\ UploadTypeOK /\ CleanupTypeOK /\ SemanticTypeOK
        /\ EvidenceTypeOK => FilesTypeOK
  BY DEF FilesTypeOK
<1> QED
  BY <1>1, FilesHaveParts, JobTypeCorrect, DownloadTypeCorrect, UploadTypeCorrect,
     CleanupTypeCorrect, SemanticTypeCorrect, EvidenceTypeCorrect, PTL

\* The properties of the components hold of them together.  An upload whose parts
\* the page has counted is assembled whole.
COROLLARY FilesAreSafe ==
  /\ FilesSpec => /\ [](TornWhileWritten /\ SentIsPrefix /\ CompleteIsBacked)
                  /\ [](FileIsWhole /\ PartialsOwned)
                  /\ [](LiveFilesKept /\ ResultExplained)
                  /\ [](EveryFrameSeen /\ VerdictAgrees)
  /\ AssembleFirst >= Chunks => (FilesSpec => []AssembledWhole)
<1>1. JobSpec => [](TornWhileWritten /\ SentIsPrefix /\ CompleteIsBacked)
  BY TornFilesAreExplained, SentIsAPrefix, CompletionIsBacked, PTL
<1>2. DownloadSpec => [](FileIsWhole /\ PartialsOwned)
  BY FilesAreWhole, PartialsAreOwned, PTL
<1>3. AssembleFirst >= Chunks => (UploadSpec => []AssembledWhole)
  BY UploadsAreWhole
<1> QED
  BY <1>1, <1>2, <1>3, FilesHaveParts, LiveFilesAreKept, ResultsAreExplained,
     EveryFrameIsSeen, VerdictsAgree, PTL
=============================================================================
