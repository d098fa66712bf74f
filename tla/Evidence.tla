------------------------------- MODULE Evidence -------------------------------
(***************************************************************************)
(* What one review looks at and what it makes of the answers: the frames   *)
(* of a video and the segments of its plan (preprocessor.py), the frames   *)
(* that are sent to the model (tasks.py), the severities of its findings   *)
(* (analyzer.py), the report (judge.py) and the result of the compatible   *)
(* API (content_risk_compat.py).                                           *)
(*                                                                         *)
(* Frame i is taken i-1 ticks after the start of the extraction, a second  *)
(* has fps ticks.  A frame's look stands for its perceptual hash, the      *)
(* distance of two looks for the number of bits that differ.               *)
(***************************************************************************)
EXTENDS Integers, Sequences, FiniteSets

CONSTANTS MaxTicks,        \* bound: ticks of a video
          FrameRate,       \* frames per second that a request may ask for
          SegmentSeconds,
          FromSecond,      \* start_seconds of the requests, 0: none
          ToSecond,        \* end_seconds
          NoEnd,
          Look, HashThreshold, MaxGapSeconds,
          BatchSize, SheetCells,
          Category, PolicySeverity, Taxonomy, EthicsCategory,
          Text,            \* a finding's times, evidence and reason
          MaxFindings      \* bound: findings of a review

Severity == {"low", "medium", "high", "critical"}

\* Nothing in the code ties the size of a batch to the cells of a sheet; the
\* defaults are 16 and 4 x 4.
ASSUME EvidenceAssumption ==
  /\ FrameRate \subseteq Nat \ {0}
  /\ {SegmentSeconds, BatchSize, SheetCells} \subseteq Nat \ {0} /\ BatchSize <= SheetCells
  /\ {MaxTicks, HashThreshold, MaxGapSeconds, MaxFindings} \subseteq Nat
  /\ FromSecond \subseteq Nat /\ ToSecond \subseteq Nat /\ NoEnd \notin Nat
  /\ Look \subseteq Nat
  /\ PolicySeverity \in [Category -> Severity]
  /\ Taxonomy \subseteq Category /\ EthicsCategory \in Category

VARIABLES
  video,     \* ticks, rate, first and last second of the request, the frames' looks
  phase,     \* "new", "plan", "scan", "judge", "report", "served" or "failed"
  scanned,   \* segments done
  shown,     \* frames sent to the model, each with its segment
  findings,  \* the model's findings as normalized, in the order of the segments
  verdict,   \* the report's findings, risk score and decision
  served     \* the compatible result: final_label and the decisions of its frames

evidenceVars == <<video, phase, scanned, shown, findings, verdict, served>>

NoReport == [findings |-> {}, score |-> 0, decision |-> "pass"]
Unserved == [final |-> "", frames |-> {}]
NoVideo0 == [ticks |-> 0, fps |-> 1, from |-> 0, to |-> NoEnd, look |-> <<>>]

EvidenceInit ==
  /\ video = NoVideo0
  /\ phase = "new" /\ scanned = 0 /\ shown = {}
  /\ findings = <<>> /\ verdict = NoReport /\ served = Unserved

AtMost(a, b)  == IF a < b THEN a ELSE b
AtLeast(a, b) == IF a > b THEN a ELSE b

-----------------------------------------------------------------------------
(* Segments and frames *)

Total(v)    == AtLeast(1, v.ticks \div v.fps)
EndBound(v) == IF v.to = NoEnd THEN Total(v) ELSE AtMost(Total(v), v.to)

SegmentCount(v) == (EndBound(v) - v.from + SegmentSeconds - 1) \div SegmentSeconds

\* make_segment_plan: its loop, or one segment when that is enough.
Segment(v, i) == [from |-> v.from + (i - 1) * SegmentSeconds,
                  to   |-> AtMost(v.from + i * SegmentSeconds, EndBound(v))]

TickOf(v, f) == v.from * v.fps + (f - 1)
Frame(v)     == 1..Len(v.look)

\* list_segment_frames: both ends belong to the segment, whose frames follow each
\* other.
FramesIn(v, i) == {f \in Frame(v) : /\ Segment(v, i).from * v.fps <= TickOf(v, f)
                                    /\ TickOf(v, f) <= Segment(v, i).to * v.fps}

Distance(a, b) == IF a < b THEN b - a ELSE a - b

\* Mutation of LastKept: a frame is compared with the one before it.
LastKeptDrift(v, frames) ==
  LET last[f \in frames] ==
        IF \/ f - 1 \notin frames
           \/ Distance(v.look[f], v.look[f - 1]) > HashThreshold
           \/ TickOf(v, f) - TickOf(v, last[f - 1]) >= MaxGapSeconds * v.fps
        THEN f ELSE last[f - 1]
  IN  last

\* filter_distinct_frames: the last frame kept when it has come to a frame, which is
\* compared with the last one kept before it.
LastKept(v, frames) ==
  LET last[f \in frames] ==
        IF \/ f - 1 \notin frames
           \/ Distance(v.look[f], v.look[last[f - 1]]) > HashThreshold
           \/ TickOf(v, f) - TickOf(v, last[f - 1]) >= MaxGapSeconds * v.fps
        THEN f ELSE last[f - 1]
  IN  last

Distinct(v, frames) == {f \in frames : LastKept(v, frames)[f] = f}

\* Frame number k of what was kept is in a batch, and on its sheet if there is a cell.
OnSheet(k) == (k - 1) % BatchSize < SheetCells

\* A request for a video, and what extract_frames gets of it: ffmpeg may find
\* fewer frames than the ticks that ffprobe tells, or one more.
ExtractFrames ==
  /\ phase = "new"
  /\ \E ticks \in 0..MaxTicks, fps \in FrameRate, from \in FromSecond, to \in ToSecond \cup {NoEnd} :
       \E n \in 0..(ticks + 1) : \E look \in [1..n -> Look] :
         video' = [ticks |-> ticks, fps |-> fps, from |-> from, to |-> to, look |-> look]
  /\ phase' = "plan"
  /\ UNCHANGED <<scanned, shown, findings, verdict, served>>

\* The plan fails when the range is empty.
Plan ==
  /\ phase = "plan"
  /\ phase' = IF EndBound(video) <= video.from THEN "failed" ELSE "scan"
  /\ UNCHANGED <<video, scanned, shown, findings, verdict, served>>

\* _run_model_review, the next segment
Scan ==
  /\ phase = "scan" /\ scanned < SegmentCount(video)
  /\ LET frames == FramesIn(video, scanned + 1)
         kept   == Distinct(video, frames) IN
     IF frames = {}
     THEN phase' = "failed" /\ UNCHANGED <<scanned, shown>>
     ELSE /\ scanned' = scanned + 1
          /\ shown' = shown \cup
               {<<scanned + 1, f>> : f \in {g \in kept : OnSheet(Cardinality(kept \cap 1..g))}}
          /\ UNCHANGED phase
  /\ UNCHANGED <<video, findings, verdict, served>>

-----------------------------------------------------------------------------
(* Findings and report *)

RawFinding == [severity : Severity \cup {"other"}, category : Category, text : Text]

\* normalize_segment_payload
Normal(raw) ==
  [category |-> IF raw.category \in Taxonomy THEN EthicsCategory ELSE raw.category,
   severity |-> IF raw.category \in Taxonomy THEN "high"
                ELSE IF raw.severity \in Severity THEN raw.severity
                ELSE PolicySeverity[raw.category],
   text     |-> raw.text]

\* The frames are done with, ...
AllScanned ==
  /\ phase = "scan" /\ scanned = SegmentCount(video)
  /\ phase' = "judge"
  /\ video' = NoVideo0 /\ scanned' = 0 /\ shown' = {}
  /\ UNCHANGED <<findings, verdict, served>>

\* ... and the answers come to any findings.
Find ==
  /\ phase = "judge" /\ Len(findings) < MaxFindings
  /\ \E raw \in RawFinding : findings' = Append(findings, Normal(raw))
  /\ UNCHANGED <<video, phase, scanned, shown, verdict, served>>

Key(f) == <<f.category, f.text>>

\* _dedupe_findings: the first of a key stays.
Deduped(fs) == {fs[k] : k \in {n \in DOMAIN fs : \A j \in 1..(n - 1) : Key(fs[j]) # Key(fs[n])}}

Severities(fs) == {f.severity : f \in fs}

SeverityScore == [low |-> 20, medium |-> 45, high |-> 75, critical |-> 95]

RiskScore(fs) ==
  LET worst == CHOOSE s \in {SeverityScore[x] : x \in Severities(fs)} \cup {0} :
                 \A x \in Severities(fs) : SeverityScore[x] <= s
      repeated == Cardinality(fs) - Cardinality({f.category : f \in fs}) IN
  AtMost(100, worst + AtMost(15, 2 * Cardinality(fs)) + AtMost(10, repeated))

\* Mutation of Decide: a single finding of high severity is left to people.
DecideLenient(fs, score) ==
  CASE "critical" \in Severities(fs) -> "reject"
    [] "high" \in Severities(fs) /\ "critical" \notin Severities(fs) ->
         IF score >= 80 THEN "reject" ELSE "manual_review"
    [] Severities(fs) \subseteq {"low", "medium"} /\ "medium" \in Severities(fs) ->
         IF score >= 55 THEN "manual_review" ELSE "warn"
    [] OTHER -> IF fs = {} THEN "pass" ELSE "warn"

Decide(fs, score) ==
  CASE "critical" \in Severities(fs) -> "reject"
    [] "high" \in Severities(fs) /\ "critical" \notin Severities(fs) ->
         IF score >= 75 THEN "reject" ELSE "manual_review"
    [] Severities(fs) \subseteq {"low", "medium"} /\ "medium" \in Severities(fs) ->
         IF score >= 55 THEN "manual_review" ELSE "warn"
    [] OTHER -> IF fs = {} THEN "pass" ELSE "warn"

\* build_report
BuildReport ==
  /\ phase = "judge"
  /\ LET fs == Deduped(findings) IN
     verdict' = [findings |-> fs, score |-> RiskScore(fs), decision |-> Decide(fs, RiskScore(fs))]
  /\ phase' = "report"
  /\ UNCHANGED <<video, scanned, shown, findings, served>>

DecisionLabel   == [pass |-> "PASS", warn |-> "REVIEW", manual_review |-> "REVIEW", reject |-> "BLOCK"]
FindingLabel(f) == IF f.severity \in {"critical", "high"} THEN "BLOCK" ELSE "REVIEW"

\* report_result
ServeResult ==
  /\ phase = "report"
  /\ served' = [final  |-> DecisionLabel[verdict.decision],
                frames |-> {FindingLabel(f) : f \in verdict.findings}]
  /\ phase' = "served"
  /\ UNCHANGED <<video, scanned, shown, findings, verdict>>

EvidenceNext == ExtractFrames \/ Plan \/ Scan \/ AllScanned \/ Find \/ BuildReport \/ ServeResult

EvidenceSpec == EvidenceInit /\ [][EvidenceNext]_evidenceVars

-----------------------------------------------------------------------------
(* Properties *)

\* Types of all variables.
EvidenceTypeOK ==
  /\ video.look \in Seq(Look) /\ video.ticks \in 0..MaxTicks /\ video.fps \in FrameRate \cup {1}
  /\ phase \in {"new", "plan", "scan", "judge", "report", "served", "failed"}
  /\ scanned \in 0..(MaxTicks + 1)
  /\ shown \subseteq (1..(MaxTicks + 1)) \X (1..(MaxTicks + 1))
  /\ findings \in Seq([severity : Severity, category : Category, text : Text])
  /\ verdict.decision \in DOMAIN DecisionLabel /\ verdict.score \in 0..100
  /\ served.final \in {"", "PASS", "REVIEW", "BLOCK"}

\* When all segments are scanned, every frame up to the last whole second of the
\* range was sent, or one like it was, of the same segment and less than the gap
\* before it: none falls between two segments, out of its sheet, or is dropped
\* by a chain of small changes.
EveryFrameSeen ==
  phase = "scan" /\ scanned = SegmentCount(video) =>
    \A f \in Frame(video) : TickOf(video, f) <= EndBound(video) * video.fps =>
      \E s \in shown :
        /\ s[2] <= f
        /\ TickOf(video, f) - TickOf(video, s[2]) < AtLeast(1, MaxGapSeconds * video.fps)
        /\ Distance(video.look[f], video.look[s[2]]) <= HashThreshold
        /\ TickOf(video, f) <= Segment(video, s[1]).to * video.fps

\* The labels that a client compares agree: the final label blocks exactly if a
\* finding blocks, and passes exactly if there is none, although the decision
\* comes from thresholds on a score; what the model found is in the verdict; and what
\* it found to be high or critical blocks, whatever else it found, unless an earlier
\* finding said the same: the severity is no part of what makes two findings one.
VerdictAgrees ==
  phase = "served" =>
    /\ served.final = "BLOCK" <=> "BLOCK" \in served.frames
    /\ served.final = "PASS"  <=> findings = <<>>
    /\ \A k \in DOMAIN findings : \E f \in verdict.findings : Key(f) = Key(findings[k])
    /\ \A k \in DOMAIN findings :
         FindingLabel(findings[k]) = "BLOCK" =>
           served.final = "BLOCK" \/ \E j \in 1..(k - 1) : Key(findings[j]) = Key(findings[k])
=============================================================================
