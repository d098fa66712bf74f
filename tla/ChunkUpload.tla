----------------------------- MODULE ChunkUpload -----------------------------
(***************************************************************************)
(* The upload of one file in chunks: the browser's workers (app.js) send   *)
(* each chunk, again when a request fails, and then ask for completion;    *)
(* the API (main.py) writes a chunk to its file, and on completion puts    *)
(* the files together in a thread, creates the review and removes the      *)
(* session.  The cleanup command removes sessions that look abandoned.     *)
(*                                                                         *)
(* A request that the browser has given up may still be on its way or at   *)
(* work: opening the chunk's file for writing empties it again.            *)
(***************************************************************************)
EXTENDS Naturals, FiniteSets

CONSTANTS Chunks,        \* number of chunks
          ChunkTries,    \* requests per chunk: one and two retries in app.js
          AssembleFirst  \* chunk_count that the browser sends, at least 1

ASSUME UploadAssumption == {Chunks, ChunkTries, AssembleFirst} \subseteq Nat \ {0}

Chunk   == 1..Chunks
Attempt == 1..ChunkTries

VARIABLES
  try,       \* per chunk: the browser's current request, 0: none yet
  stored,    \* chunks the browser was told are stored
  write,     \* per chunk and request: "no", "sent", "open", "written", "lost"
  chunkFile, \* per chunk: "absent", "partial", "whole"
  last,      \* per chunk: the request that opened its file last, 0: none
  dir,       \* does the session directory exist?
  complete,  \* the completion: "no", "reading", "created", "stuck", "tidied", "failed"
  readTo,    \* chunks put together so far
  result     \* the assembled file: "none", "whole", "broken"

browserVars == <<try, stored>>
uploadVars  == <<browserVars, write, chunkFile, last, dir, complete, readTo, result>>

UploadInit ==
  /\ try = [c \in Chunk |-> 0]
  /\ stored = {}
  /\ write = [c \in Chunk |-> [a \in Attempt |-> "no"]]
  /\ chunkFile = [c \in Chunk |-> "absent"]
  /\ last = [c \in Chunk |-> 0]
  /\ dir = TRUE
  /\ complete = "no" /\ readTo = 0 /\ result = "none"

-----------------------------------------------------------------------------
(* The browser *)

\* uploadChunkWithRetry: the first request, or the next when one has failed,
\* for the browser or for both.
SendChunk(c) ==
  /\ c \notin stored /\ try[c] < ChunkTries
  /\ try' = [try EXCEPT ![c] = @ + 1]
  /\ write' = [write EXCEPT ![c][try[c] + 1] = "sent"]
  /\ UNCHANGED <<stored, chunkFile, last, dir, complete, readTo, result>>

ChunkStored(c) ==
  /\ try[c] > 0 /\ write[c][try[c]] = "written"
  /\ stored' = stored \cup {c}
  /\ UNCHANGED <<try, write, chunkFile, last, dir, complete, readTo, result>>

\* Mutation of AskComplete: it does not wait for the workers.
AskCompleteEarly ==
  /\ complete = "no" /\ stored # {}
  /\ complete' = IF dir THEN "reading" ELSE "failed"
  /\ UNCHANGED <<browserVars, write, chunkFile, last, dir, readTo, result>>

\* All workers are through; without its metadata the session is a 404.
AskComplete ==
  /\ complete = "no" /\ stored = Chunk
  /\ complete' = IF dir THEN "reading" ELSE "failed"
  /\ UNCHANGED <<browserVars, write, chunkFile, last, dir, readTo, result>>

-----------------------------------------------------------------------------
(* The API *)

\* The chunk's file is opened, which empties it, or the session is gone.
OpenChunk(c, a) ==
  /\ write[c][a] = "sent"
  /\ IF dir
     THEN /\ write' = [write EXCEPT ![c][a] = "open"]
          /\ chunkFile' = [chunkFile EXCEPT ![c] = "partial"]
          /\ last' = [last EXCEPT ![c] = a]
     ELSE write' = [write EXCEPT ![c][a] = "lost"] /\ UNCHANGED <<chunkFile, last>>
  /\ UNCHANGED <<browserVars, dir, complete, readTo, result>>

\* All of it is written.  If another request has opened the file meanwhile, what
\* was written before that is missing, unless nothing was.
WriteChunk(c, a) ==
  /\ write[c][a] = "open"
  /\ write' = [write EXCEPT ![c][a] = "written"]
  /\ chunkFile' \in IF ~dir \/ chunkFile[c] = "whole" THEN {chunkFile}
                    ELSE IF last[c] = a THEN {[chunkFile EXCEPT ![c] = "whole"]}
                    ELSE {chunkFile, [chunkFile EXCEPT ![c] = "whole"]}
  /\ UNCHANGED <<browserVars, last, dir, complete, readTo, result>>

\* The request is lost on its way, or its handler dies.
LoseChunk(c, a) ==
  /\ write[c][a] \in {"sent", "open"}
  /\ write' = [write EXCEPT ![c][a] = "lost"]
  /\ UNCHANGED <<browserVars, chunkFile, last, dir, complete, readTo, result>>

\* assemble_uploaded_chunks: the next chunk, or an exception when it is missing.
Assemble ==
  /\ complete = "reading" /\ readTo < AssembleFirst
  /\ LET c == readTo + 1
         there == dir /\ c \in Chunk /\ chunkFile[c] # "absent" IN
     IF there
     THEN /\ readTo' = c
          /\ result' = IF chunkFile[c] = "whole" /\ result # "broken" THEN "whole" ELSE "broken"
          /\ UNCHANGED complete
     ELSE complete' = "failed" /\ UNCHANGED <<readTo, result>>
  /\ UNCHANGED <<browserVars, write, chunkFile, last, dir>>

\* create_review_for_local_file: create_job, and dispatch_review, whose exception is
\* a 500 after which the review is there and the session stays.
CreateUploaded ==
  /\ complete = "reading" /\ readTo = AssembleFirst
  /\ complete' \in {"created", "stuck"}
  /\ UNCHANGED <<browserVars, write, chunkFile, last, dir, readTo, result>>

RemoveDir == dir' = FALSE /\ chunkFile' = [c \in Chunk |-> "absent"]

TidySession ==
  /\ complete = "created"
  /\ complete' = "tidied"
  /\ RemoveDir
  /\ UNCHANGED <<browserVars, write, last, readTo, result>>

\* cleanup_storage: the directory got no new file for the session's TTL.
CleanSession ==
  /\ dir /\ RemoveDir
  /\ UNCHANGED <<browserVars, write, last, complete, readTo, result>>

UploadNext ==
  \/ \E c \in Chunk : SendChunk(c) \/ ChunkStored(c)
  \/ \E c \in Chunk, a \in Attempt : OpenChunk(c, a) \/ WriteChunk(c, a) \/ LoseChunk(c, a)
  \/ AskComplete \/ Assemble \/ CreateUploaded \/ TidySession \/ CleanSession

UploadSpec == UploadInit /\ [][UploadNext]_uploadVars

-----------------------------------------------------------------------------
(* Properties *)

\* Types of all variables.
UploadTypeOK ==
  /\ try \in [Chunk -> 0..ChunkTries]
  /\ stored \subseteq Chunk
  /\ write \in [Chunk -> [Attempt -> {"no", "sent", "open", "written", "lost"}]]
  /\ chunkFile \in [Chunk -> {"absent", "partial", "whole"}]
  /\ last \in [Chunk -> 0..ChunkTries]
  /\ dir \in BOOLEAN
  /\ complete \in {"no", "reading", "created", "stuck", "tidied", "failed"}
  /\ readTo \in 0..AssembleFirst
  /\ result \in {"none", "whole", "broken"}

\* A review is created from the whole file, although chunks arrive in any
\* order, requests are lost and the session may be removed under it: unless
\* a request that the browser had given up emptied a chunk's file again.
AssembledWhole ==
  complete \in {"created", "stuck", "tidied"} =>
    \/ result = "whole" /\ readTo = Chunks
    \/ \E c \in Chunk : last[c] # 0 /\ \E a \in Attempt : a < try[c] /\ write[c][a] # "no"
                                                        /\ last[c] = a
=============================================================================
