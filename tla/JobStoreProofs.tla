---------------------------- MODULE JobStoreProofs ----------------------------
(***************************************************************************)
(* Theorems about JobStore for every set of workers, cancel requests and   *)
(* reconciler passes, every bound on deaths, and an event file of any      *)
(* length.                                                                 *)
(***************************************************************************)
EXTENDS JobStore, SequenceTheorems, TLAPS

Piece1     == {"status", "head", "rest", "error", "unheard"}
WriterDoes == {"start", "read", "open", "write", "event", "flush", "work", "gone", "dead"}
StatusAimed == {"none", "pending", "processing"} \cup Ended

\* A writer that is on its way to a status has one, and only the long line of a
\* finished review is written in two parts.
Aimed ==
  \A w \in Writer :
    /\ does[w] \in {"read", "open", "write", "event"} => target[w] # "none"
    /\ does[w] = "flush" => target[w] = "completed"

-----------------------------------------------------------------------------
(* Types *)

LEMMA JobInitTyped == JobInit => JobTypeOK
<1> SUFFICES ASSUME JobInit PROVE JobTypeOK
  OBVIOUS
<1>1. log \in Seq(Piece1) /\ Len(log) = 1
  BY DEF JobInit, Piece1
<1>2. sent \in Seq(Piece1) /\ offset \in 0..Len(log)
  BY <1>1, EmptySeq DEF JobInit
<1>3. does \in [Writer -> WriterDoes] /\ target \in [Writer -> StatusAimed] /\ deaths \in 0..MaxDeaths
  BY JobAssumption DEF JobInit, WriterDoes, StatusAimed
<1> QED
  BY <1>1, <1>2, <1>3 DEF JobInit, JobTypeOK, Ended, Piece1, WriterDoes, StatusAimed

\* How the writers move.
LEMMA DoingTyped ==
  ASSUME JobTypeOK, NEW w \in Writer, NEW l \in WriterDoes, Doing(w, l)
  PROVE  does' \in [Writer -> WriterDoes]
  BY DEF JobTypeOK, Doing, WriterDoes

LEMMA UpdateTyped ==
  ASSUME JobTypeOK, NEW w \in Writer, NEW s \in StatusAimed, Update(w, s)
  PROVE  does' \in [Writer -> WriterDoes] /\ target' \in [Writer -> StatusAimed]
  BY DEF JobTypeOK, Update, Doing, WriterDoes, StatusAimed

LEMMA RaiseTyped ==
  ASSUME JobTypeOK, NEW w \in Writer, Raise(w)
  PROVE  does' \in [Writer -> WriterDoes] /\ target' \in [Writer -> StatusAimed]
  BY DEF JobTypeOK, Raise, Update, Doing, WriterDoes, StatusAimed, Ended

\* The event file only grows, by one piece.
LEMMA LogGrows ==
  ASSUME JobTypeOK, NEW p \in Piece1, log' = Append(log, p)
  PROVE  /\ log' \in Seq(Piece1) /\ Len(log') = Len(log) + 1
         /\ \A i \in 1..Len(log) : log'[i] = log[i]
         /\ log'[Len(log) + 1] = p
  BY AppendProperties DEF JobTypeOK, Piece1

LEMMA PieceTyped == \A w \in Writer : Piece(w) \in Piece1 \ {"rest"}
  BY DEF Piece, Piece1

\* Every action of a writer that leaves the event file alone, the stream and the
\* deaths too.
LEMMA WriterStepTyped ==
  ASSUME JobTypeOK, UNCHANGED <<log, clientVars, deaths>>,
         does' \in [Writer -> WriterDoes], target' \in [Writer -> StatusAimed],
         file' \in {"pending", "processing"} \cup Ended,
         torn' \in BOOLEAN, over' \subseteq Writer, mixed' \in BOOLEAN, report' \in BOOLEAN,
         live' \in BOOLEAN
  PROVE  JobTypeOK'
  BY DEF JobTypeOK, WriterDoes, StatusAimed, clientVars

LEMMA NextAimed == JobTypeOK /\ Aimed /\ [JobNext]_jobVars => Aimed'
<1> SUFFICES ASSUME JobTypeOK, Aimed, [JobNext]_jobVars PROVE Aimed'
  OBVIOUS
<1> USE DEF JobTypeOK, Aimed, Doing
<1>1. ASSUME NEW w \in Writer, StartWork(w) \/ EndWork(w) \/ Cancel(w) \/ MarkStale(w) PROVE Aimed'
  BY <1>1 DEF StartWork, EndWork, Cancel, MarkStale, Update
<1>2. ASSUME NEW w \in Writer, ReadJob(w) PROVE Aimed'
  BY <1>2 DEF ReadJob, Raise, Update
<1>3. ASSUME NEW w \in Writer, OpenJob(w) \/ WriteJob(w) PROVE Aimed'
  BY <1>3 DEF OpenJob, WriteJob
<1>4. ASSUME NEW w \in Writer, AppendEvent(w) \/ FlushEvent(w) PROVE Aimed'
  BY <1>4 DEF AppendEvent, FlushEvent
<1>5. ASSUME NEW w \in Writer, Die(w) PROVE Aimed'
  BY <1>5 DEF Die
<1>6. CASE Follow \/ UNCHANGED jobVars
  BY <1>6 DEF Follow, Connect, Deliver, CheckStatus, jobVars, writerVars
<1> QED
  BY <1>1, <1>2, <1>3, <1>4, <1>5, <1>6 DEF JobNext, Write

LEMMA JobNextTyped == JobTypeOK /\ Aimed /\ [JobNext]_jobVars => JobTypeOK'
<1> SUFFICES ASSUME JobTypeOK, Aimed, [JobNext]_jobVars PROVE JobTypeOK'
  OBVIOUS
<1>typed. /\ does \in [Writer -> WriterDoes] /\ target \in [Writer -> StatusAimed]
          /\ file \in {"pending", "processing"} \cup Ended
          /\ torn \in BOOLEAN /\ over \subseteq Writer /\ mixed \in BOOLEAN /\ report \in BOOLEAN
          /\ live \in BOOLEAN
  BY DEF JobTypeOK, WriterDoes, StatusAimed
<1>1. ASSUME NEW w \in Writer, StartWork(w) PROVE JobTypeOK'
  BY <1>1, <1>typed, UpdateTyped, WriterStepTyped DEF StartWork, StatusAimed, fileVars
<1>2. ASSUME NEW w \in Writer, EndWork(w) PROVE JobTypeOK'
  BY <1>2, <1>typed, UpdateTyped, WriterStepTyped DEF EndWork, StatusAimed, Ended
<1>3. ASSUME NEW w \in Writer, Cancel(w) PROVE JobTypeOK'
  BY <1>3, <1>typed, UpdateTyped, DoingTyped, WriterStepTyped
     DEF Cancel, StatusAimed, Ended, WriterDoes, fileVars
<1>stale. ASSUME NEW w \in Writer, MarkStale(w) PROVE JobTypeOK'
  BY <1>stale, <1>typed, UpdateTyped, WriterStepTyped DEF MarkStale, StatusAimed, Ended
<1>4. ASSUME NEW w \in Writer, ReadJob(w) PROVE JobTypeOK'
  BY <1>4, <1>typed, RaiseTyped, DoingTyped, WriterStepTyped DEF ReadJob, WriterDoes, fileVars
<1>5. ASSUME NEW w \in Writer, OpenJob(w) PROVE JobTypeOK'
  BY <1>5, <1>typed, DoingTyped, WriterStepTyped DEF OpenJob, WriterDoes
<1>6. ASSUME NEW w \in Writer, WriteJob(w) PROVE JobTypeOK'
  <2>1. target[w] \in {"pending", "processing"} \cup Ended
    BY <1>6, <1>typed DEF WriteJob, Aimed, StatusAimed
  <2>2. torn' \in BOOLEAN /\ over' \subseteq Writer /\ mixed' \in BOOLEAN
    BY <1>6, <1>typed DEF WriteJob
  <2> QED
    BY <1>6, <1>typed, <2>1, <2>2, DoingTyped, WriterStepTyped DEF WriteJob, WriterDoes
<1>7. ASSUME NEW w \in Writer, AppendEvent(w) \/ FlushEvent(w) PROVE JobTypeOK'
  <2>1. PICK p \in Piece1 : log' = Append(log, p)
    BY <1>7, PieceTyped DEF AppendEvent, FlushEvent, Piece1
  <2>2. log' \in Seq(Piece1) /\ Len(log') = Len(log) + 1
    BY <2>1, LogGrows
  <2>3. PICK l \in WriterDoes : Doing(w, l)
    BY <1>7 DEF AppendEvent, FlushEvent, WriterDoes
  <2>4. does' \in [Writer -> WriterDoes]
    BY <2>3, DoingTyped
  <2>5. UNCHANGED <<target, file, torn, over, mixed, report, client, offset, sent, deaths>>
    BY <1>7 DEF AppendEvent, FlushEvent, clientVars
  <2>6. live' \in BOOLEAN
    BY <1>7, <1>typed DEF AppendEvent, FlushEvent
  <2> QED
    BY <2>2, <2>4, <2>5, <2>6 DEF JobTypeOK, WriterDoes, Piece1
<1>8. ASSUME NEW w \in Writer, Die(w) PROVE JobTypeOK'
  BY <1>8, JobAssumption DEF Die, JobTypeOK, fileVars, clientVars
<1>ends. ASSUME EndResponse, UNCHANGED <<writerVars, fileVars, deaths>> PROVE JobTypeOK'
  <2>1. sent' \in Seq(Piece1) /\ offset' \in 0..Len(log')
    BY <1>ends, LenProperties, EmptySeq DEF EndResponse, JobTypeOK, fileVars
  <2> QED
    BY <1>ends, <2>1 DEF EndResponse, JobTypeOK, writerVars, fileVars, Piece1
<1>9. CASE Connect \/ CheckStatus
  <2>1. CASE EndResponse
    BY <1>9, <2>1, <1>ends DEF Connect, CheckStatus
  <2>2. CASE ~EndResponse
    BY <1>9, <2>2 DEF Connect, CheckStatus, JobTypeOK, writerVars, fileVars
  <2> QED
    BY <2>1, <2>2
<1>10. CASE Deliver
  <2>1. CASE ~Parses(From(offset))
    BY <1>10, <2>1, <1>ends DEF Deliver
  <2>2. CASE Parses(From(offset))
    <3>1. From(offset) \in Seq(Piece1)
      BY SubSeqProperties DEF From, JobTypeOK, Piece1
    <3>2. sent' \in Seq(Piece1)
      <4>1. sent \in Seq(Piece1)
        BY DEF JobTypeOK, Piece1
      <4>2. sent \o From(offset) \in Seq(Piece1)
        BY <3>1, <4>1, ConcatProperties
      <4> QED
        BY <1>10, <2>2, <4>2 DEF Deliver
    <3>3. client' \in {"closed", "checking"} /\ offset' = Len(log) /\ Len(log) \in Nat
      BY <1>10, <2>2, LenProperties DEF Deliver, JobTypeOK
    <3> QED
      BY <1>10, <3>2, <3>3 DEF Deliver, JobTypeOK, writerVars, fileVars, Piece1
  <2> QED
    BY <2>1, <2>2
<1>11. CASE UNCHANGED jobVars
  BY <1>11 DEF jobVars, writerVars, fileVars, clientVars, JobTypeOK
<1> QED
  BY <1>1, <1>2, <1>3, <1>stale, <1>4, <1>5, <1>6, <1>7, <1>8, <1>9, <1>10, <1>11
     DEF JobNext, Write, Follow

\* Every reachable state is well typed.
THEOREM JobTypeCorrect == JobSpec => []JobTypeOK
<1> DEFINE Inv == JobTypeOK /\ Aimed
<1>1. JobInit => Inv
  BY JobInitTyped DEF JobInit, Aimed
<1>2. Inv /\ [JobNext]_jobVars => Inv'
  BY JobNextTyped, NextAimed
<1> QED
  BY <1>1, <1>2, PTL DEF JobSpec

-----------------------------------------------------------------------------
(* The job file *)

LEMMA NextTornWhileWritten ==
  ASSUME JobTypeOK, TornWhileWritten, [JobNext]_jobVars
  PROVE  TornWhileWritten'
<1> USE DEF JobTypeOK, TornWhileWritten, Doing
<1>1. ASSUME NEW w \in Writer, StartWork(w) \/ EndWork(w) \/ Cancel(w) \/ MarkStale(w) PROVE TornWhileWritten'
  BY <1>1 DEF StartWork, EndWork, Cancel, MarkStale, Update, MayCome, fileVars
<1>2. ASSUME NEW w \in Writer, ReadJob(w) PROVE TornWhileWritten'
  BY <1>2 DEF ReadJob, Raise, Update, fileVars
<1>3. ASSUME NEW w \in Writer, OpenJob(w) PROVE TornWhileWritten'
  BY <1>3 DEF OpenJob
<1>4. ASSUME NEW w \in Writer, WriteJob(w) PROVE TornWhileWritten'
  BY <1>4 DEF WriteJob
<1>5. ASSUME NEW w \in Writer, AppendEvent(w) \/ FlushEvent(w) PROVE TornWhileWritten'
  BY <1>5 DEF AppendEvent, FlushEvent
<1>6. ASSUME NEW w \in Writer, Die(w) PROVE TornWhileWritten'
  BY <1>6 DEF Die
<1>7. CASE Follow \/ UNCHANGED jobVars
  BY <1>7 DEF Follow, Connect, Deliver, CheckStatus, jobVars, writerVars, fileVars
<1> QED
  BY <1>1, <1>2, <1>3, <1>4, <1>5, <1>6, <1>7 DEF JobNext, Write

\* However many processes write the job file without a lock: a reader finds it
\* torn only while somebody writes it, or after a writer died or two overlapped.
THEOREM TornFilesAreExplained == JobSpec => []TornWhileWritten
<1>1. JobInit => TornWhileWritten
  BY DEF JobInit, TornWhileWritten
<1>2. JobTypeOK /\ TornWhileWritten /\ [JobNext]_jobVars => TornWhileWritten'
  BY NextTornWhileWritten
<1> QED
  BY <1>1, <1>2, JobTypeCorrect, PTL DEF JobSpec

-----------------------------------------------------------------------------
(* The event stream *)

\* An open stream has read what it has sent, and no more.
Followed == offset = Len(sent) /\ SentIsPrefix

\* Lines that parse, one after the other, parse.
LEMMA ParsesConcat ==
  ASSUME NEW s \in Seq(Piece1), NEW t \in Seq(Piece1), Parses(s), Parses(t)
  PROVE  Parses(s \o t)
<1>1. Len(s) \in Nat /\ Len(t) \in Nat
  BY LenProperties
<1>2. /\ Len(s \o t) = Len(s) + Len(t)
      /\ \A i \in 1..(Len(s) + Len(t)) : (s \o t)[i] = IF i <= Len(s) THEN s[i] ELSE t[i - Len(s)]
  BY ConcatProperties
<1> SUFFICES ASSUME NEW i \in 1..(Len(s) + Len(t))
             PROVE  /\ (s \o t)[i] = "head" => i < Len(s) + Len(t) /\ (s \o t)[i + 1] = "rest"
                    /\ (s \o t)[i] = "rest" => i > 1 /\ (s \o t)[i - 1] = "head"
  BY <1>2 DEF Parses
<1>3. CASE i <= Len(s)
  <2>1. (s \o t)[i] = s[i]
    BY <1>1, <1>2, <1>3
  <2>2. /\ s[i] = "head" => i < Len(s) /\ s[i + 1] = "rest"
        /\ s[i] = "rest" => i > 1 /\ s[i - 1] = "head"
    BY <1>1, <1>3 DEF Parses
  <2>3. i < Len(s) => (s \o t)[i + 1] = s[i + 1]
    BY <1>1, <1>2
  <2>4. i > 1 => (s \o t)[i - 1] = s[i - 1]
    BY <1>1, <1>2, <1>3
  <2> QED
    BY <1>1, <1>3, <2>1, <2>2, <2>3, <2>4
<1>4. CASE i > Len(s)
  <2> DEFINE j == i - Len(s)
  <2>1. j \in 1..Len(t)
    BY <1>1, <1>4
  <2>2. (s \o t)[i] = t[j]
    BY <1>1, <1>2, <1>4
  <2>3. /\ t[j] = "head" => j < Len(t) /\ t[j + 1] = "rest"
        /\ t[j] = "rest" => j > 1 /\ t[j - 1] = "head"
    BY <2>1 DEF Parses
  <2>4. j < Len(t) => (s \o t)[i + 1] = t[j + 1]
    <3> SUFFICES ASSUME j < Len(t) PROVE (s \o t)[i + 1] = t[j + 1]
      OBVIOUS
    <3>1. i + 1 \in 1..(Len(s) + Len(t)) /\ ~(i + 1 <= Len(s)) /\ (i + 1) - Len(s) = j + 1
      BY <1>1, <1>4
    <3> QED
      BY <1>2, <3>1
  <2>5. j > 1 => (s \o t)[i - 1] = t[j - 1]
    <3> SUFFICES ASSUME j > 1 PROVE (s \o t)[i - 1] = t[j - 1]
      OBVIOUS
    <3>1. i - 1 \in 1..(Len(s) + Len(t)) /\ ~(i - 1 <= Len(s)) /\ (i - 1) - Len(s) = j - 1
      BY <1>1, <1>4
    <3> QED
      BY <1>2, <3>1
  <2> QED
    BY <1>1, <1>4, <2>2, <2>3, <2>4, <2>5
<1> QED
  BY <1>1, <1>3, <1>4

\* What has been sent stays a prefix of the file when the file grows.
LEMMA PrefixOfGrown ==
  ASSUME JobTypeOK, Followed, NEW p \in Piece1, log' = Append(log, p), UNCHANGED <<offset, sent>>
  PROVE  Followed'
<1> DEFINE n == Len(sent)
<1>1. log \in Seq(Piece1) /\ sent \in Seq(Piece1) /\ n \in Nat /\ Len(log) \in Nat
  BY LenProperties DEF JobTypeOK, Piece1
<1>2. n <= Len(log) /\ sent = SubSeq(log, 1, n)
  BY DEF Followed, SentIsPrefix
<1>3. log' \in Seq(Piece1) /\ Len(log') = Len(log) + 1 /\ \A i \in 1..Len(log) : log'[i] = log[i]
  BY LogGrows
<1>4. /\ SubSeq(log, 1, n) \in Seq(Piece1) /\ SubSeq(log', 1, n) \in Seq(Piece1)
      /\ Len(SubSeq(log, 1, n)) = n /\ Len(SubSeq(log', 1, n)) = n
      /\ \A i \in 1..n : SubSeq(log, 1, n)[i] = log[i] /\ SubSeq(log', 1, n)[i] = log'[i]
  BY <1>1, <1>2, <1>3, SubSeqProperties, ElementOfSeq
<1>5. SubSeq(log', 1, n) = SubSeq(log, 1, n)
  <2>1. \A i \in 1..n : SubSeq(log, 1, n)[i] = SubSeq(log', 1, n)[i]
    BY <1>1, <1>2, <1>3, <1>4
  <2> QED
    BY Zenon, <1>4, <2>1, SeqEqual
<1> QED
  BY <1>1, <1>2, <1>3, <1>5 DEF Followed, SentIsPrefix

\* The next piece of the file completes what has been sent to all of it.
LEMMA DeliveredIsLog ==
  ASSUME JobTypeOK, Followed
  PROVE  sent \o From(offset) = log /\ From(offset) \in Seq(Piece1) /\ sent \in Seq(Piece1)
<1> DEFINE n == Len(sent)
<1>1. log \in Seq(Piece1) /\ sent \in Seq(Piece1) /\ n \in Nat /\ Len(log) \in Nat
  BY LenProperties DEF JobTypeOK, Piece1
<1>2. offset = n /\ n <= Len(log) /\ sent = SubSeq(log, 1, n)
  BY DEF Followed, SentIsPrefix
<1>3. From(offset) \in Seq(Piece1)
  BY <1>1, <1>2, SubSeqProperties, ElementOfSeq DEF From
<1>4. SubSeq(log, 1, n) \o SubSeq(log, n + 1, Len(log)) = SubSeq(log, 1, Len(log))
  <2>1. 1 \in 1..Len(log) + 1 /\ n \in 1 - 1 .. Len(log) /\ Len(log) \in n..Len(log)
    BY <1>1, <1>2
  <2> QED
    BY <1>1, <2>1, ConcatAdjacentSubSeq
<1>5. SubSeq(log, 1, Len(log)) = log
  BY <1>1, SubSeqFull
<1> QED
  BY Zenon, <1>1, <1>2, <1>3, <1>4, <1>5 DEF From

LEMMA NextFollowed == JobTypeOK /\ Followed /\ [JobNext]_jobVars => Followed'
<1> SUFFICES ASSUME JobTypeOK, Followed, [JobNext]_jobVars PROVE Followed'
  OBVIOUS
<1>same. ASSUME UNCHANGED <<log, offset, sent>> PROVE Followed'
  BY <1>same DEF Followed, SentIsPrefix, Parses
<1>ends. ASSUME EndResponse, UNCHANGED log PROVE Followed'
  <2>1. Len(log) \in Nat
    BY LenProperties DEF JobTypeOK
  <2>2. SubSeq(log, 1, 0) = <<>> /\ Len(<<>>) = 0
    BY SubSeqEmpty, EmptySeq
  <2> QED
    BY <1>ends, <2>1, <2>2 DEF EndResponse, Followed, SentIsPrefix, Parses
<1>1. ASSUME NEW w \in Writer,
             \/ StartWork(w) \/ EndWork(w) \/ Cancel(w) \/ MarkStale(w) \/ ReadJob(w)
             \/ OpenJob(w) \/ WriteJob(w) \/ Die(w)
      PROVE  Followed'
  BY <1>1, <1>same
     DEF StartWork, EndWork, Cancel, MarkStale, ReadJob, OpenJob, WriteJob, Die, fileVars, clientVars
<1>2. ASSUME NEW w \in Writer, AppendEvent(w) \/ FlushEvent(w) PROVE Followed'
  <2>1. PICK p \in Piece1 : log' = Append(log, p)
    BY <1>2, PieceTyped DEF AppendEvent, FlushEvent, Piece1
  <2> QED
    BY <1>2, <2>1, PrefixOfGrown DEF AppendEvent, FlushEvent, clientVars
<1>3. CASE Connect \/ CheckStatus
  BY <1>3, <1>same, <1>ends DEF Connect, CheckStatus, fileVars
<1>4. CASE Deliver
  <2>1. CASE ~Parses(From(offset))
    BY <1>4, <2>1, <1>ends DEF Deliver, fileVars
  <2>2. CASE Parses(From(offset))
    <3>1. sent' = log /\ offset' = Len(log) /\ log' = log
      BY <1>4, <2>2, DeliveredIsLog DEF Deliver, fileVars
    <3>2. Parses(sent \o From(offset))
      BY <2>2, DeliveredIsLog, ParsesConcat DEF Followed, SentIsPrefix
    <3>3. Parses(log)
      BY <3>2, DeliveredIsLog
    <3>4. log = SubSeq(log, 1, Len(log)) /\ Len(log) \in Nat
      BY SubSeqFull, LenProperties DEF JobTypeOK
    <3>5. Len(sent') <= Len(log') /\ sent' = SubSeq(log', 1, Len(sent'))
      BY <3>1, <3>4
    <3>6. Parses(sent)'
      BY <3>1, <3>3 DEF Parses
    <3> QED
      BY <3>1, <3>5, <3>6 DEF Followed, SentIsPrefix
  <2> QED
    BY <2>1, <2>2
<1>5. CASE UNCHANGED jobVars
  BY <1>5, <1>same DEF jobVars, fileVars, clientVars
<1> QED
  BY <1>1, <1>2, <1>3, <1>4, <1>5 DEF JobNext, Write, Follow

LEMMA JobInitFollowed == JobInit => Followed
<1>1. SubSeq(log, 1, 0) = <<>> /\ Len(<<>>) = 0
  BY SubSeqEmpty, EmptySeq
<1>2. JobInit => Len(log) \in Nat
  BY JobInitTyped, LenProperties DEF JobTypeOK
<1> QED
  BY <1>1, <1>2 DEF JobInit, Followed, SentIsPrefix, Parses

\* However the event file grows between and during the reads of the stream, and
\* wherever a connection ends: it has delivered a prefix of the file, in whole
\* lines, every event once.
THEOREM SentIsAPrefix == JobSpec => []SentIsPrefix
<1>1. Followed => SentIsPrefix
  BY DEF Followed
<1> QED
  BY <1>1, JobInitFollowed, NextFollowed, JobTypeCorrect, PTL DEF JobSpec

-----------------------------------------------------------------------------
(* The report behind a "complete" event *)

\* Only a worker completes the review, and saves the report before.
Reported == \A w \in Writer : target[w] = "completed" => report /\ w \in Worker

\* A worker that has come to its "complete" event, whatever became of it.
Finished(w) == target[w] = "completed" /\ does[w] \in {"flush", "gone", "dead"}

\* The pieces of a "complete" event come from such a worker.
LinesBacked ==
  (\E i \in 1..Len(log) : log[i] \in {"head", "rest"}) => \E w \in Worker : Finished(w)

LEMMA NextReported == JobTypeOK /\ Aimed /\ Reported /\ [JobNext]_jobVars => Reported'
<1> SUFFICES ASSUME JobTypeOK, Reported, [JobNext]_jobVars PROVE Reported'
  OBVIOUS
<1> USE DEF JobTypeOK, Reported, Doing
<1>1. ASSUME NEW w \in Writer, StartWork(w) \/ Cancel(w) \/ MarkStale(w) PROVE Reported'
  BY <1>1 DEF StartWork, Cancel, MarkStale, Update, fileVars
<1>2. ASSUME NEW w \in Writer, EndWork(w) PROVE Reported'
  BY <1>2 DEF EndWork, Update
<1>3. ASSUME NEW w \in Writer, ReadJob(w) PROVE Reported'
  BY <1>3 DEF ReadJob, Raise, Update, fileVars
<1>4. ASSUME NEW w \in Writer, OpenJob(w) \/ WriteJob(w) \/ AppendEvent(w) \/ FlushEvent(w) \/ Die(w)
      PROVE  Reported'
  BY <1>4 DEF OpenJob, WriteJob, AppendEvent, FlushEvent, Die, fileVars
<1>5. CASE Follow \/ UNCHANGED jobVars
  BY <1>5 DEF Follow, Connect, Deliver, CheckStatus, jobVars, writerVars, fileVars
<1> QED
  BY <1>1, <1>2, <1>3, <1>4, <1>5 DEF JobNext, Write

\* A finished worker stays so.
LEMMA FinishedStays ==
  ASSUME JobTypeOK, [JobNext]_jobVars, NEW v \in Writer, Finished(v)
  PROVE  Finished(v)'
<1> USE DEF JobTypeOK, Finished, Doing
<1>1. ASSUME NEW w \in Writer, StartWork(w) \/ Cancel(w) \/ MarkStale(w) \/ EndWork(w) PROVE Finished(v)'
  BY <1>1 DEF StartWork, Cancel, MarkStale, EndWork, Update, MayCome
<1>2. ASSUME NEW w \in Writer, ReadJob(w) PROVE Finished(v)'
  BY <1>2 DEF ReadJob, Raise, Update
<1>3. ASSUME NEW w \in Writer, OpenJob(w) \/ WriteJob(w) PROVE Finished(v)'
  BY <1>3 DEF OpenJob, WriteJob
<1>4. ASSUME NEW w \in Writer, AppendEvent(w) \/ FlushEvent(w) \/ Die(w) PROVE Finished(v)'
  BY <1>4 DEF AppendEvent, FlushEvent, Die
<1>5. CASE Follow \/ UNCHANGED jobVars
  BY <1>5 DEF Follow, Connect, Deliver, CheckStatus, jobVars, writerVars
<1> QED
  BY <1>1, <1>2, <1>3, <1>4, <1>5 DEF JobNext, Write

LEMMA NextLinesBacked ==
  ASSUME JobTypeOK, Aimed, Reported, LinesBacked, [JobNext]_jobVars
  PROVE  LinesBacked'
<1>stays. ASSUME NEW v \in Worker, Finished(v) PROVE LinesBacked'
  BY <1>stays, FinishedStays DEF Writer, LinesBacked
<1>same. ASSUME UNCHANGED log PROVE LinesBacked'
  BY <1>same, <1>stays DEF LinesBacked
<1>1. ASSUME NEW w \in Writer,
             \/ StartWork(w) \/ EndWork(w) \/ Cancel(w) \/ MarkStale(w) \/ ReadJob(w)
             \/ OpenJob(w) \/ WriteJob(w) \/ Die(w)
      PROVE  LinesBacked'
  BY <1>1, <1>same DEF StartWork, EndWork, Cancel, MarkStale, ReadJob, OpenJob, WriteJob, Die, fileVars
<1>2. ASSUME NEW w \in Writer, AppendEvent(w) PROVE LinesBacked'
  <2>1. CASE target[w] = "completed"
    <3>1. w \in Worker
      BY <2>1 DEF Reported
    <3>2. Finished(w)'
      BY <1>2, <2>1 DEF AppendEvent, Finished, JobTypeOK, Doing
    <3> QED
      BY <3>1, <3>2 DEF LinesBacked
  <2>2. CASE target[w] # "completed"
    <3>1. Piece(w) \in Piece1 \ {"head", "rest"} /\ log' = Append(log, Piece(w))
      BY <1>2, <2>2 DEF AppendEvent, Piece, Piece1
    <3>2. /\ Len(log') = Len(log) + 1 /\ log'[Len(log) + 1] \notin {"head", "rest"}
          /\ \A i \in 1..Len(log) : log'[i] = log[i]
      BY <3>1, LogGrows
    <3>3. Len(log) \in Nat
      BY LenProperties DEF JobTypeOK
    <3>4. ASSUME NEW i \in 1..Len(log'), log'[i] \in {"head", "rest"}
          PROVE  i \in 1..Len(log) /\ log[i] \in {"head", "rest"}
      BY <3>2, <3>3, <3>4
    <3> QED
      BY <3>4, <1>stays DEF LinesBacked
  <2> QED
    BY <2>1, <2>2
<1>3. ASSUME NEW w \in Writer, FlushEvent(w) PROVE LinesBacked'
  <2>1. Finished(w) /\ w \in Worker
    BY <1>3 DEF FlushEvent, Finished, Aimed, Reported
  <2> QED
    BY <2>1, <1>stays
<1>4. CASE Follow \/ UNCHANGED jobVars
  BY <1>4, <1>same DEF Follow, Connect, Deliver, CheckStatus, jobVars, fileVars
<1> QED
  BY <1>1, <1>2, <1>3, <1>4 DEF JobNext, Write

\* A browser that gets the "complete" event, which is written in two parts and
\* read in between, finds the report saved and the status written, whatever
\* other workers, cancel requests, reconciler passes and deaths came in between.
THEOREM CompletionIsBacked == JobSpec => []CompleteIsBacked
<1> DEFINE Inv == Aimed /\ Reported /\ LinesBacked
<1>1. JobInit => Inv
  BY DEF JobInit, Aimed, Reported, LinesBacked
<1>2. JobTypeOK /\ Inv /\ [JobNext]_jobVars => Inv'
  BY NextAimed, NextReported, NextLinesBacked
<1>3. JobTypeOK /\ SentIsPrefix /\ Inv => CompleteIsBacked
  <2> SUFFICES ASSUME JobTypeOK, SentIsPrefix, Inv, NEW i \in 1..Len(sent), sent[i] = "rest"
               PROVE  report /\ \E w \in Worker : target[w] = "completed"
                                                 /\ does[w] \notin {"read", "open", "write"}
    BY DEF CompleteIsBacked
  <2>1. Len(sent) \in Nat /\ Len(log) \in Nat
    BY LenProperties DEF JobTypeOK
  <2>2. i \in 1..Len(log) /\ log[i] = "rest"
    <3>1. \A j \in 1..Len(sent) : SubSeq(log, 1, Len(sent))[j] = log[1 + j - 1]
      BY <2>1, SubSeqProperties, ElementOfSeq DEF JobTypeOK, SentIsPrefix
    <3> QED
      BY <2>1, <3>1 DEF SentIsPrefix
  <2>3. PICK w \in Worker : Finished(w)
    BY <2>2 DEF LinesBacked
  <2> QED
    BY <2>3 DEF Finished, Reported, Writer
<1> QED
  BY <1>1, <1>2, <1>3, JobTypeCorrect, SentIsAPrefix, PTL DEF JobSpec
=============================================================================
