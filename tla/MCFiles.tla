-------------------------------- MODULE MCFiles --------------------------------
(* What the processes keep in files: a review's job and events, its download, *)
(* the chunks of an upload, the cleanup, the semantic jobs, and the frames a  *)
(* review looks at.  They have no state in common: a behaviour is that of one *)
(* of them, the scenario, so that one run checks them all.                    *)
EXTENDS JobStore, SourceDownload, ChunkUpload, StorageCleanup, SemanticJobs, Evidence

CONSTANTS w1, w2, x1, rc1, f1, f2, p1, p2, r1, r2, v1, u1, o1,
          clip_mp4, clip_mov, other_mp4, ethics, listed, unlisted
TwoWorkers  == {w1, w2}
OneCancel   == {x1}
OnePass     == {rc1}
TwoFetchers == {f1, f2}
TwoDirs     == {p1, p2}
TwoReviews  == {r1, r2}
Sources     == {v1, u1, o1}
SourceKinds == [f \in Sources |-> CASE f = v1 -> "video" [] f = u1 -> "upload" [] f = o1 -> "outside"]
FileNames   == {clip_mp4, clip_mov, other_mp4}
Stems       == [n \in FileNames |-> IF n = other_mp4 THEN "other" ELSE "clip"]
Categories  == {ethics, listed, unlisted}
Taxonomies  == {ethics}
Policies    == [c \in Categories |-> CASE c = ethics -> "high" [] c = listed -> "critical"
                                     [] c = unlisted -> "medium"]

VARIABLE scenario

FilesInit ==
  /\ scenario \in {"job", "download", "upload", "cleanup", "semantic", "evidence"}
  /\ JobInit /\ DownloadInit /\ UploadInit /\ CleanupInit /\ SemanticInit /\ EvidenceInit

jobOnly      == <<scenario, downloadVars, uploadVars, cleanupVars, semanticVars, evidenceVars>>
downloadOnly == <<scenario, jobVars, uploadVars, cleanupVars, semanticVars, evidenceVars>>
uploadOnly   == <<scenario, jobVars, downloadVars, cleanupVars, semanticVars, evidenceVars>>
cleanupOnly  == <<scenario, jobVars, downloadVars, uploadVars, semanticVars, evidenceVars>>
semanticOnly == <<scenario, jobVars, downloadVars, uploadVars, cleanupVars, evidenceVars>>
evidenceOnly == <<scenario, jobVars, downloadVars, uploadVars, cleanupVars, semanticVars>>

FilesNext ==
  \/ scenario = "job"      /\ JobNext      /\ UNCHANGED jobOnly
  \/ scenario = "download" /\ DownloadNext /\ UNCHANGED downloadOnly
  \/ scenario = "upload"   /\ UploadNext   /\ UNCHANGED uploadOnly
  \/ scenario = "cleanup"  /\ CleanupNext  /\ UNCHANGED cleanupOnly
  \/ scenario = "semantic" /\ SemanticNext /\ UNCHANGED semanticOnly
  \/ scenario = "evidence" /\ EvidenceNext /\ UNCHANGED evidenceOnly

FilesSpec ==
  /\ FilesInit
  /\ [][FilesNext]_<<scenario, jobVars, downloadVars, uploadVars, cleanupVars, semanticVars, evidenceVars>>
  /\ \A w \in Writer : WF_jobVars(scenario = "job" /\ Write(w))
  /\ WF_jobVars(scenario = "job" /\ Follow)
  /\ \A h \in Fetcher : WF_downloadVars(scenario = "download" /\ Fetch(h))

\* Types of all variables.
FilesTypeOK ==
  /\ JobTypeOK /\ DownloadTypeOK /\ UploadTypeOK
  /\ CleanupTypeOK /\ SemanticTypeOK /\ EvidenceTypeOK

\* The attempts and retries of a download come to an end: every entry is settled,
\* however often the connection, the server or a handler fails it.  Fetch is fair, so
\* a retry is taken when it is due, as it is where a worker of the preprocess stage
\* runs; with single-stage workers alone nobody takes it (ReviewPipeline,
\* EveryReviewDecided).
EveryDownloadSettles == scenario = "download" => DownloadSettles
=============================================================================
