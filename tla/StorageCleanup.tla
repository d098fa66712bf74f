---------------------------- MODULE StorageCleanup ----------------------------
(***************************************************************************)
(* What cleanup.py deletes under the reviews at work.  A review that ends  *)
(* cleans up after itself (tasks.py), at once when the disk is nearly      *)
(* full, and the cleanup command (cli.py) goes through all reviews: it     *)
(* loads them all and then deletes, by what it loaded.                     *)
(*                                                                         *)
(* A job's updated_at is local time and is read as UTC: the age is off by  *)
(* the zone's distance.  Ages are in units of the model and stop at the    *)
(* longest that matters.                                                   *)
(***************************************************************************)
EXTENDS Integers, FiniteSets

CONSTANTS Job,            \* reviews with a source of their own or of others
          SourceFile,     \* local videos
          NoSource,
          KindOf,         \* where a local video lies: "upload", "video" or "outside"
          RawTtl, DerivedTtl,
          WarningTtl, CriticalTtl,
          ZoneShift       \* the zone's hours ahead of UTC

SourceKind == {"upload", "video", "outside"}
Level      == {"normal", "warning", "critical", "emergency"}

ASSUME CleanupAssumption ==
  /\ IsFiniteSet(Job)
  /\ NoSource \notin SourceFile /\ SourceFile \cap Job = {}
  /\ KindOf \in [SourceFile -> SourceKind]
  /\ {RawTtl, DerivedTtl, WarningTtl, CriticalTtl} \subseteq Nat
  /\ ZoneShift \in Int

AgeCap == RawTtl + DerivedTtl + (IF ZoneShift > 0 THEN ZoneShift ELSE 0)

VARIABLES
  job,       \* per review: status, local_path, age of updated_at, and whether its
             \* own cleanup is due
  raw,       \* local videos that exist (with the directory of a downloaded one)
  derived,   \* reviews whose derived directory exists
  doomed,    \* what a cleanup has found to delete and not yet deleted: local videos,
             \* and reviews for their derived directories
  wasOver    \* history: reviews that have been terminal

cleanupVars == <<job, raw, derived, doomed, wasOver>>

CleanupInit ==
  /\ job = [r \in Job |-> [over |-> FALSE, path |-> NoSource, age |-> 0, due |-> FALSE]]
  /\ raw = {f \in SourceFile : KindOf[f] # "video"}
  /\ derived = {} /\ doomed = {} /\ wasOver = {}

-----------------------------------------------------------------------------
(* The review *)

\* _prepare_review_asset: a local video that is there, or a download into a
\* directory of its own; the derived directory comes with its first file.  The
\* review may have been cancelled meanwhile.
Ingest(r) ==
  /\ job[r].path = NoSource
  /\ \E f \in SourceFile :
       /\ IF KindOf[f] = "video" THEN \A q \in Job : job[q].path # f ELSE f \in raw
       /\ job' = [job EXCEPT ![r].path = f, ![r].age = 0]
       /\ raw' = raw \cup {f}
  /\ derived' = derived \cup {r}
  /\ UNCHANGED <<doomed, wasOver>>

\* update_job with a status, also by a handler that has not seen a cancellation.
Advance(r) ==
  /\ job' = [job EXCEPT ![r].over = FALSE, ![r].age = 0]
  /\ UNCHANGED <<raw, derived, doomed, wasOver>>

\* The end, with a cleanup to follow; a cancelled review has none.
EndJob(r) ==
  /\ ~job[r].over
  /\ \E clean \in BOOLEAN :
       job' = [job EXCEPT ![r].over = TRUE, ![r].age = 0, ![r].due = clean]
  /\ wasOver' = wasOver \cup {r}
  /\ UNCHANGED <<raw, derived, doomed>>

-----------------------------------------------------------------------------
(* Cleanup *)

Lower(a, b) == IF a < b THEN a ELSE b

\* _watermark_ttls
WatermarkTtl(ttl, level) ==
  CASE level = "emergency" -> 0
    [] level = "critical"  -> Lower(ttl, CriticalTtl)
    [] level = "warning"   -> Lower(ttl, WarningTtl)
    [] level = "normal"    -> ttl

Expired(r, ttl, level) == job[r].age - ZoneShift >= WatermarkTtl(ttl, level)

\* _safe_raw_delete_target: an upload, or the directory of a download; nothing
\* outside the raw directory.
RawTarget(r) == {f \in raw : f = job[r].path /\ KindOf[f] # "outside"}

\* Mutation of Target: whatever the status.
TargetAny(r, level) ==
  (IF Expired(r, RawTtl, level) THEN RawTarget(r) ELSE {})
    \cup (IF Expired(r, DerivedTtl, level) THEN {r} ELSE {})

\* cleanup_review_artifacts: what it deletes for a review.
Target(r, level) ==
  IF ~job[r].over THEN {}
  ELSE (IF Expired(r, RawTtl, level) THEN RawTarget(r) ELSE {})
         \cup (IF Expired(r, DerivedTtl, level) THEN {r} ELSE {})

\* cleanup_terminal_artifacts reads the job again and cleans it up in a thread.
OwnCleanup(r) ==
  /\ job[r].due
  /\ \E l \in Level : doomed' = doomed \cup Target(r, l)
  /\ job' = [job EXCEPT ![r].due = FALSE]
  /\ UNCHANGED <<raw, derived, wasOver>>

\* cleanup_storage: all jobs, as they are now, ...
LoadJobs ==
  /\ \E l \in Level : doomed' = doomed \cup UNION {Target(r, l) : r \in Job}
  /\ UNCHANGED <<job, raw, derived, wasOver>>

\* ... and one deletion after the other, whatever has happened to them since.
Delete ==
  /\ \E x \in doomed :
       /\ doomed' = doomed \ {x}
       /\ raw' = raw \ {x} /\ derived' = derived \ {x}
  /\ UNCHANGED <<job, wasOver>>

CleanupTick ==
  /\ job' = [r \in Job |-> [job[r] EXCEPT !.age = IF @ < AgeCap THEN @ + 1 ELSE @]]
  /\ UNCHANGED <<raw, derived, doomed, wasOver>>

CleanupNext ==
  \/ \E r \in Job : Ingest(r) \/ Advance(r) \/ EndJob(r) \/ OwnCleanup(r)
  \/ LoadJobs \/ Delete \/ CleanupTick

CleanupSpec == CleanupInit /\ [][CleanupNext]_cleanupVars

-----------------------------------------------------------------------------
(* Properties *)

\* Types of all variables.
CleanupTypeOK ==
  /\ job \in [Job -> [over : BOOLEAN, path : SourceFile \cup {NoSource},
                      age : 0..AgeCap, due : BOOLEAN]]
  /\ raw \subseteq SourceFile
  /\ derived \subseteq Job /\ wasOver \subseteq Job
  /\ doomed \subseteq SourceFile \cup Job

\* A review that was never over finds its video and its derived files, while
\* others end and the command works from what it loaded earlier: unless a review
\* that was over has the same local video.  Videos outside the raw directory,
\* which belong to others, are there for ever.
LiveFilesKept ==
  /\ \A r \in Job \ wasOver : job[r].path # NoSource =>
       /\ r \in derived
       /\ job[r].path \in raw \/ \E q \in wasOver : job[q].path = job[r].path
  /\ \A f \in SourceFile : KindOf[f] = "outside" => f \in raw
=============================================================================
