----------------------------- MODULE SemanticJobs -----------------------------
(***************************************************************************)
(* One job of the semantic extraction service (semantic_service.py): the   *)
(* upload of its videos, the task that extracts one after the other in a   *)
(* subprocess, and the page that polls the job and loads the result.       *)
(*                                                                         *)
(* A video is known by its place in the upload; its file is named after    *)
(* the file of the browser, and its result after the stem of that name.    *)
(* The service is one process, whose handlers interleave at their awaits.  *)
(***************************************************************************)
EXTENDS Naturals, FiniteSets

CONSTANTS VideoCount,     \* files of the upload
          FileName,
          NoVideo,
          StemOf          \* a file name without its suffix

Video == 1..VideoCount
Stem  == {StemOf[n] : n \in FileName}

ASSUME SemanticAssumption ==
  /\ VideoCount \in Nat \ {0}
  /\ DOMAIN StemOf = FileName
  /\ NoVideo \notin Video

VARIABLES
  nameOf,    \* the file names that the browser sent
  upload,    \* the videos saved so far; "made" when the job is
  content,    \* per file name: the video whose content the upload directory has
  status,    \* the job's status
  videos,    \* per video: its status and whether it has an output_path
  runner,    \* the task: "no", "next", "extract", "over"; the video it is at
  output,    \* per stem: the video whose content the result file has
  page       \* the page: "polling", "loading", "loaded", "failed"; the payloads

semanticVars == <<nameOf, upload, content, status, videos, runner, output, page>>

SemanticInit ==
  /\ nameOf = [v \in Video |-> NoVideo]
  /\ upload = [saved |-> 0, made |-> FALSE]
  /\ content = [n \in FileName |-> NoVideo]
  /\ status = "pending"
  /\ videos = [v \in Video |-> [status |-> "pending", has |-> FALSE]]
  /\ runner = [at |-> "no", video |-> 1]
  /\ output = [s \in Stem |-> NoVideo]
  /\ page = [at |-> "waiting", payload |-> [v \in Video |-> NoVideo], failed |-> FALSE]

-----------------------------------------------------------------------------
(* POST /semantic/uploads *)

\* A second file of the same name replaces the first.
SaveUpload ==
  /\ upload.saved < VideoCount
  /\ upload' = [upload EXCEPT !.saved = @ + 1]
  /\ \E n \in FileName :
       /\ nameOf' = [nameOf EXCEPT ![upload.saved + 1] = n]
       /\ content' = [content EXCEPT ![n] = upload.saved + 1]
  /\ UNCHANGED <<status, videos, runner, output, page>>

\* make_semantic_job and dispatch_semantic_job, then the page polls.
MakeJob ==
  /\ upload.saved = VideoCount /\ ~upload.made
  /\ upload' = [upload EXCEPT !.made = TRUE]
  /\ runner' = [runner EXCEPT !.at = "next"]
  /\ page' = [page EXCEPT !.at = "polling"]
  /\ UNCHANGED <<nameOf, content, status, videos, output>>

-----------------------------------------------------------------------------
(* run_semantic_job *)

\* The job is saved as processing when it starts, and with each video that
\* starts; only the latter leaves the job's status alone.
StartVideo ==
  /\ runner.at = "next" /\ runner.video <= VideoCount
  /\ status' = IF runner.video = 1 THEN "processing" ELSE status
  /\ videos' = [videos EXCEPT ![runner.video].status = "processing"]
  /\ runner' = [runner EXCEPT !.at = "extract"]
  /\ UNCHANGED <<nameOf, upload, content, output, page>>

With(s, vs) == \E v \in Video : vs[v].status = s

\* Mutation of Progress: one success decides as well.
ProgressEarly(vs) ==
  CASE With("completed", vs) -> "completed"
    [] With("failed", vs)    -> "failed"
    [] OTHER -> "processing"

\* update_progress: one failure decides, also while videos are pending.
Progress(vs) ==
  CASE With("failed", vs) -> IF With("completed", vs) THEN "completed" ELSE "failed"
    [] \A v \in Video : vs[v].status = "completed" -> "completed"
    [] OTHER -> "processing"

Record(new) ==
  /\ videos' = [videos EXCEPT ![runner.video] = new]
  /\ status' = Progress(videos')
  /\ runner' = [at |-> IF runner.video = VideoCount THEN "over" ELSE "next",
                video |-> IF runner.video = VideoCount THEN runner.video ELSE runner.video + 1]
  /\ UNCHANGED <<nameOf, upload, content, page>>

\* The subprocess writes its result file.
WriteOutput ==
  LET n == nameOf[runner.video] IN output' = [output EXCEPT ![StemOf[n]] = content[n]]

\* The payload is read.
Extracted ==
  /\ runner.at = "extract"
  /\ WriteOutput
  /\ Record([status |-> "completed", has |-> TRUE])

\* The subprocess exits with an error, or its result is not to be found or read; or
\* what it holds is not as expected, when output_path has been set already.
ExtractFails ==
  /\ runner.at = "extract"
  /\ \/ UNCHANGED output /\ Record([status |-> "failed", has |-> FALSE])
     \/ \E h \in BOOLEAN : WriteOutput /\ Record([status |-> "failed", has |-> h])

\* The service restarts: nothing takes the job up again.
SemanticRestart ==
  /\ runner.at \in {"next", "extract"}
  /\ runner' = [runner EXCEPT !.at = "over"]
  /\ UNCHANGED <<nameOf, upload, content, status, videos, output, page>>

-----------------------------------------------------------------------------
(* The page *)

\* pollJob stops at a final status; only a completed job has a button.
Poll ==
  /\ page.at = "polling" /\ status \in {"completed", "failed"}
  /\ page' = [page EXCEPT !.at = IF status = "completed" THEN "loading" ELSE "failed",
                          !.failed = With("failed", videos)]
  /\ UNCHANGED <<nameOf, upload, content, status, videos, runner, output>>

\* GET /semantic/jobs/{id}/result
LoadResult ==
  /\ page.at = "loading" /\ status = "completed"
  /\ page' = [page EXCEPT !.at = "loaded", !.payload =
                [v \in Video |-> IF videos[v].has THEN output[StemOf[nameOf[v]]] ELSE NoVideo]]
  /\ UNCHANGED <<nameOf, upload, content, status, videos, runner, output>>

SemanticNext ==
  \/ SaveUpload \/ MakeJob \/ StartVideo \/ Extracted \/ ExtractFails \/ SemanticRestart
  \/ Poll \/ LoadResult

SemanticSpec == SemanticInit /\ [][SemanticNext]_semanticVars

-----------------------------------------------------------------------------
(* Properties *)

VideoStatus == {"pending", "processing", "completed", "failed"}

\* Types of all variables.
SemanticTypeOK ==
  /\ nameOf \in [Video -> FileName \cup {NoVideo}]
  /\ upload \in [saved : 0..VideoCount, made : BOOLEAN]
  /\ content \in [FileName -> Video \cup {NoVideo}]
  /\ status \in VideoStatus
  /\ videos \in [Video -> [status : VideoStatus, has : BOOLEAN]]
  /\ runner \in [at : {"no", "next", "extract", "over"}, video : Video]
  /\ output \in [Stem -> Video \cup {NoVideo}]
  /\ page \in [at : {"waiting", "polling", "loading", "loaded", "failed"},
               payload : [Video -> Video \cup {NoVideo}], failed : BOOLEAN]

\* What the page shows as the result of a video was extracted from that video,
\* unless another file of the upload has its stem; and it lacks a video only if
\* one had failed when the job first looked complete.
ResultExplained ==
  page.at = "loaded" =>
    /\ \A v \in Video : page.payload[v] \in {v, NoVideo}
                        \/ \E u \in Video \ {v} : StemOf[nameOf[u]] = StemOf[nameOf[v]]
    /\ (\E v \in Video : page.payload[v] = NoVideo) => page.failed
=============================================================================
