--------------------------- MODULE ModelReviewProofs ---------------------------
(***************************************************************************)
(* Proofs about ModelReview, for any number of frames and runs, any        *)
(* channels and any limits: types with the budget, whole reviews, and that *)
(* a blocked batch does not go back to the family that blocked it.         *)
(***************************************************************************)
EXTENDS ModelReview, SequenceTheorems, TLAPS

Pc   == {"queued", "lookup", "route", "checking", "calling", "done", "gone"}
Busy == {"queued", "lookup", "route", "checking", "calling"}

Row == [pc : Pc, todo : Seq(Piece), again : BOOLEAN, attempt : Nat,
        ch : 1..(Len(Channels) + 1), kind : Kinds, got : Seq(1..Frames),
        refused : SUBSET Families]

\* What is done and what is to do make up the batch that starts after b frames.
Tiled(s, b) ==
  /\ s.pc \in Busy =>
       /\ s.todo # <<>>
       /\ s.todo[1].from = b + Len(s.got) + 1
       /\ \A i \in 1..(Len(s.todo) - 1) : s.todo[i + 1].from = s.todo[i].to + 1
       /\ s.todo[Len(s.todo)].to = Upto(b + BatchSize)
       /\ \A i \in 1..Len(s.got) : s.got[i] = b + i
  /\ s.pc = "done" => s.got = [i \in 1..(Upto(b + BatchSize) - b) |-> b + i]

Allowed(s) == \E k \in Kinds : s.attempt \in 1..AttemptLimit(k)

\* out: the families that are excluded in the run.
RowOK(s, b, out) ==
  /\ s \in Row
  /\ Allowed(s)
  /\ Tiled(s, b)
  /\ s.refused \subseteq out
  /\ s.pc \in {"checking", "calling"}
       => s.ch \in 1..Len(Channels) /\ Channels[s.ch] \notin s.refused

Shared ==
  /\ stage \in {"waiting", "running", "done", "failed"}
  /\ run \in 0..MaxRuns
  /\ stage = "running" => run # 0
  /\ carried \subseteq Families
  /\ excluded \in [1..MaxRuns -> SUBSET Families]
  /\ used \in [1..MaxRuns -> 0..Budget]
  /\ cache \subseteq (1..Frames) \X (1..Frames)
  /\ result \in [Starts -> Seq(1..Frames)]

Rows == /\ task \in [Task -> Row]
        /\ \A t \in Task : RowOK(task[t], t[2], excluded[t[1]])

IInv == Shared /\ Rows /\ CompletedIsWhole

-----------------------------------------------------------------------------
(* Constants *)

\* The constants one by one.
LEMMA Constants ==
  /\ Frames \in Nat \ {0} /\ BatchSize \in Nat \ {0} /\ MinSize \in Nat \ {0}
  /\ Concurrency \in Nat \ {0} /\ MaxRuns \in Nat \ {0}
  /\ ParseAttempts \in Nat \ {0} /\ TransientAttempts \in Nat \ {0}
  /\ RateAttempts \in Nat \ {0}
  /\ MaxDepth \in Nat /\ Budget \in Nat
  /\ Channels \in Seq({"gemini", "grok"}) /\ Len(Channels) \in Nat \ {0}
BY ReviewAssumption DEF ReviewAssumption

\* Every kind of error allows at least one attempt.
LEMMA Limits == \A k \in Kinds : AttemptLimit(k) \in Nat \ {0}
BY Constants DEF Kinds, AttemptLimit

\* A batch starts after some of the frames, and has one at least.
LEMMA BatchIsPiece ==
  ASSUME NEW b \in Starts
  PROVE  b \in Nat /\ Batch(b) \in Piece /\ Upto(b + BatchSize) \in (b + 1)..Frames
BY Constants DEF Starts, Batch, Upto, Piece

\* Values that the steps give to the fields of a row.
LEMMA Fields ==
  /\ 1 \in 1..(Len(Channels) + 1) /\ 1 \in Nat
  /\ {"transient", "block", "final"} \subseteq Kinds
  /\ Pc = Busy \cup {"done", "gone"}
  /\ {"route", "lookup", "checking", "calling"} \subseteq Busy
BY Constants DEF Kinds, Pc, Busy

\* An idle row is fine in any batch.
LEMMA IdleOK ==
  ASSUME NEW b, NEW out
  PROVE  RowOK(Idle, b, out)
<1>1. Idle \in Row
  BY Constants DEF Idle, Row, Pc, Kinds
<1>2. Allowed(Idle)
  BY Limits DEF Allowed, Idle, Kinds
<1> QED BY <1>1, <1>2 DEF RowOK, Idle, Tiled, Busy

-----------------------------------------------------------------------------
(* Rows that the steps of a batch make *)

\* The pieces of a row are pieces of the segment.
LEMMA HeadOK ==
  ASSUME NEW s \in Row, s.todo # <<>>
  PROVE  /\ Head(s.todo) \in Piece /\ Head(s.todo) = s.todo[1]
         /\ Tail(s.todo) \in Seq(Piece) /\ Len(s.todo) \in Nat \ {0}
         /\ Len(Tail(s.todo)) = Len(s.todo) - 1
         /\ \A i \in 1..(Len(s.todo) - 1) : Tail(s.todo)[i] = s.todo[i + 1]
BY DEF Row

\* A function on 1..n is a sequence of length n.
LEMMA FunctionIsSeq ==
  ASSUME NEW S, NEW n \in Nat, NEW f \in [1..n -> S]
  PROVE  f \in Seq(S) /\ Len(f) = n
OBVIOUS

\* A piece has all frames from its first to its last.
LEMMA FramesOfPiece ==
  ASSUME NEW p \in Piece
  PROVE  /\ p.from \in Nat \ {0} /\ p.to \in Nat /\ p.depth \in 0..MaxDepth
         /\ p.from <= p.to /\ p.to <= Frames
         /\ Size(p) = p.to - p.from + 1 /\ Size(p) \in Nat \ {0}
         /\ FramesOf(p) \in Seq(1..Frames) /\ Len(FramesOf(p)) = Size(p)
         /\ \A i \in 1..Size(p) : FramesOf(p)[i] = p.from + i - 1
<1>1. /\ p.from \in Nat \ {0} /\ p.to \in Nat /\ p.depth \in 0..MaxDepth
      /\ p.from <= p.to /\ p.to <= Frames
  BY Constants DEF Piece
<1>2. Size(p) = p.to - p.from + 1 /\ Size(p) \in Nat \ {0}
  BY <1>1 DEF Size
<1>3. \A i \in 1..Size(p) : p.from + i - 1 \in 1..Frames
  BY SMTT(30), <1>1, <1>2, Constants
<1>4. FramesOf(p) = [i \in 1..Size(p) |-> p.from + i - 1]
  BY DEF FramesOf
<1> HIDE DEF Size
<1>5. FramesOf(p) \in Seq(1..Frames) /\ Len(FramesOf(p)) = Size(p)
  <2>1. FramesOf(p) \in [1..Size(p) -> 1..Frames]
    BY <1>3, <1>4
  <2> QED BY <2>1, <1>2, FunctionIsSeq
<1> QED BY <1>1, <1>2, <1>4, <1>5

\* Frames done, followed by those of the next piece, are frames done.
LEMMA Grow ==
  ASSUME NEW b \in Nat, NEW q \in Seq(1..Frames), NEW p \in Piece,
         p.from = b + Len(q) + 1, \A i \in 1..Len(q) : q[i] = b + i
  PROVE  /\ q \o FramesOf(p) \in Seq(1..Frames)
         /\ Len(q \o FramesOf(p)) = p.to - b
         /\ \A i \in 1..Len(q \o FramesOf(p)) : (q \o FramesOf(p))[i] = b + i
<1> DEFINE r == FramesOf(p)
           n == Size(p)
<1>1. /\ p.from \in Nat \ {0} /\ p.to \in Nat
      /\ n = p.to - p.from + 1 /\ n \in Nat \ {0}
      /\ r \in Seq(1..Frames) /\ Len(r) = n
      /\ \A i \in 1..n : r[i] = p.from + i - 1
  BY FramesOfPiece
<1>2. Len(q) \in Nat
  BY LenProperties
<1> HIDE DEF r, n
<1>3. /\ q \o r \in Seq(1..Frames)
      /\ Len(q \o r) = Len(q) + n
      /\ \A i \in 1..(Len(q) + n) :
           (q \o r)[i] = IF i <= Len(q) THEN q[i] ELSE r[i - Len(q)]
  BY <1>1, ConcatProperties
<1>4. Len(q \o r) = p.to - b
  BY <1>1, <1>2, <1>3
<1>5. ASSUME NEW i \in 1..(Len(q) + n) PROVE (q \o r)[i] = b + i
  <2>1. CASE i <= Len(q)
    BY <2>1, <1>2, <1>3
  <2>2. CASE i > Len(q)
    <3>1. i - Len(q) \in 1..n
      BY <2>2, <1>1, <1>2
    <3>2. (q \o r)[i] = r[i - Len(q)]
      BY <2>2, <1>2, <1>3, <1>1
    <3>3. r[i - Len(q)] = p.from + (i - Len(q)) - 1
      BY <3>1, <1>1
    <3> QED BY <3>2, <3>3, <1>1, <1>2
  <2> QED BY <2>1, <2>2, <1>1, <1>2
<1> QED BY <1>3, <1>4, <1>5 DEF r

\* A row whose piece has a result.
LEMMA FinishedOK ==
  ASSUME NEW b \in Starts, NEW out, NEW s, RowOK(s, b, out), s.pc \in Busy
  PROVE  RowOK(Finished(s), b, out)
<1> DEFINE p    == Head(s.todo)
           rest == Tail(s.todo)
           got  == s.got \o FramesOf(p)
           n    == Len(s.todo)
           last == Upto(b + BatchSize)
<1>1. /\ s \in Row /\ s.todo # <<>> /\ b \in Nat /\ last \in Nat
      /\ s.got \in Seq(1..Frames) /\ s.todo \in Seq(Piece)
  BY SMTT(30), BatchIsPiece, Constants DEF RowOK, Tiled, Row
<1>2. /\ p \in Piece /\ p = s.todo[1] /\ rest \in Seq(Piece) /\ n \in Nat \ {0}
      /\ Len(rest) = n - 1
      /\ \A i \in 1..(n - 1) : rest[i] = s.todo[i + 1]
  BY <1>1, HeadOK
<1>3. /\ s.todo[1].from = b + Len(s.got) + 1
      /\ \A i \in 1..(n - 1) : s.todo[i + 1].from = s.todo[i].to + 1
      /\ s.todo[n].to = last
      /\ \A i \in 1..Len(s.got) : s.got[i] = b + i
  BY DEF RowOK, Tiled
<1>4. /\ got \in Seq(1..Frames) /\ Len(got) = p.to - b
      /\ \A i \in 1..Len(got) : got[i] = b + i
  <2>1. p.from = b + Len(s.got) + 1
    BY <1>2, <1>3
  <2>2. \A i \in 1..Len(s.got) : s.got[i] = b + i
    BY <1>3
  <2> HIDE DEF p
  <2> QED BY ZenonT(60), <2>1, <2>2, <1>1, <1>2, Grow
<1>5. p.to \in Nat /\ Len(got) \in Nat
  BY <1>2, <1>4, FramesOfPiece, LenProperties
<1>6. Finished(s) = IF rest = <<>> THEN [Idle EXCEPT !.pc = "done", !.got = got]
                    ELSE [Idle EXCEPT !.pc = "lookup", !.got = got, !.todo = rest,
                                      !.refused = s.refused]
  BY DEF Finished
<1>i. Idle \in Row /\ Allowed(Idle)
  BY IdleOK DEF RowOK
<1> HIDE DEF p, rest, got, n, last
<1>7. CASE rest = <<>>
  <2>1. n = 1
    BY <1>7, <1>2
  <2>2. Len(got) = last - b
    BY <2>1, <1>2, <1>3, <1>4
  <2>3. got = [i \in 1..(last - b) |-> b + i]
    BY <2>2, <1>4
  <2>4. Finished(s) = [Idle EXCEPT !.pc = "done", !.got = got]
    BY <1>6, <1>7
  <2>5. Finished(s) \in Row /\ Allowed(Finished(s))
    BY <2>4, <1>i, <1>4 DEF Row, Pc, Idle, Allowed
  <2>6. Tiled(Finished(s), b)
    BY <2>3, <2>4 DEF Tiled, Idle, Busy, last
  <2> QED BY <2>4, <2>5, <2>6 DEF RowOK, Idle
<1>8. CASE rest # <<>>
  <2>1. Finished(s) = [Idle EXCEPT !.pc = "lookup", !.got = got, !.todo = rest,
                                   !.refused = s.refused]
    BY <1>6, <1>8
  <2>2. n - 1 \in Nat \ {0}
    BY <1>2, <1>8, EmptySeq
  <2>3. rest[1].from = b + Len(got) + 1
    <3>1. rest[1] = s.todo[2] /\ s.todo[2].from = s.todo[1].to + 1
      BY <2>2, <1>2, <1>3
    <3> QED BY <3>1, <1>1, <1>2, <1>4, <1>5
  <2>4. \A i \in 1..(Len(rest) - 1) : rest[i + 1].from = rest[i].to + 1
    <3> SUFFICES ASSUME NEW i \in 1..(Len(rest) - 1)
                 PROVE  rest[i + 1].from = rest[i].to + 1
      OBVIOUS
    <3>0. i \in 1..(n - 1) /\ i + 1 \in 1..(n - 1)
      BY <2>2, <1>2
    <3>1. rest[i + 1] = s.todo[(i + 1) + 1] /\ rest[i] = s.todo[i + 1]
      BY <3>0, <1>2
    <3>2. s.todo[(i + 1) + 1].from = s.todo[i + 1].to + 1
      BY <3>0, <1>3
    <3> QED BY <3>1, <3>2
  <2>5. rest[Len(rest)].to = last
    <3>1. rest[n - 1] = s.todo[(n - 1) + 1] /\ (n - 1) + 1 = n
      BY <2>2, <1>2
    <3> QED BY <3>1, <1>2, <1>3
  <2>6. Finished(s) \in Row /\ Allowed(Finished(s))
    BY <2>1, <1>i, <1>1, <1>2, <1>4 DEF Row, Pc, Idle, Allowed
  <2>7. Tiled(Finished(s), b)
    BY <2>1, <2>3, <2>4, <2>5, <1>4, <1>8 DEF Tiled, Idle, last
  <2> QED BY <2>1, <2>6, <2>7 DEF RowOK, Idle
<1> QED BY <1>7, <1>8

\* The two halves of a piece, in its place.
LEMMA HalvesOK ==
  ASSUME NEW p \in Piece, Size(p) > MinSize, p.depth < MaxDepth
  PROVE  /\ Halves(p) \in Seq(Piece) /\ Len(Halves(p)) = 2
         /\ Halves(p)[1].from = p.from /\ Halves(p)[2].to = p.to
         /\ Halves(p)[2].from = Halves(p)[1].to + 1
<1> DEFINE half == IF Size(p) > 1 THEN Size(p) \div 2 ELSE 1
           mid  == p.from + half
           l    == [from |-> p.from, to |-> mid - 1, depth |-> p.depth + 1]
           r    == [from |-> mid, to |-> p.to, depth |-> p.depth + 1]
<1>1. /\ p.from \in Nat \ {0} /\ p.to \in Nat /\ p.depth \in 0..MaxDepth
      /\ p.from <= p.to /\ p.to <= Frames
      /\ Size(p) = p.to - p.from + 1 /\ Size(p) \in Nat \ {0}
  BY FramesOfPiece
<1>2. Halves(p) = <<l, r>>
  BY DEF Halves
<1> HIDE DEF Size
<1>3. half \in 1..(Size(p) - 1)
  BY <1>1, Constants
<1> HIDE DEF half
<1>4. mid \in (p.from + 1)..p.to
  BY <1>1, <1>3
<1> HIDE DEF mid
<1>5. p.depth + 1 \in 0..MaxDepth
  BY <1>1, Constants
<1>6. mid - 1 \in Nat /\ mid \in Nat /\ (mid - 1) + 1 = mid
  BY <1>1, <1>4
<1>7. l \in Piece /\ r \in Piece
  BY <1>1, <1>4, <1>5, <1>6, Constants DEF Piece
<1> QED BY <1>2, <1>6, <1>7

\* A row whose piece is split.
LEMMA SplitOK ==
  ASSUME NEW b \in Starts, NEW out, NEW s, RowOK(s, b, out), s.pc \in Busy,
         Size(Head(s.todo)) > MinSize, Head(s.todo).depth < MaxDepth
  PROVE  RowOK(Split(s), b, out)
<1> DEFINE p    == Head(s.todo)
           h    == Halves(p)
           rest == Tail(s.todo)
           todo == h \o rest
           n    == Len(s.todo)
           last == Upto(b + BatchSize)
<1>1. /\ s \in Row /\ s.todo # <<>> /\ b \in Nat
      /\ s.got \in Seq(1..Frames) /\ s.todo \in Seq(Piece)
  BY BatchIsPiece DEF RowOK, Tiled, Row
<1>2. /\ p \in Piece /\ p = s.todo[1] /\ rest \in Seq(Piece) /\ n \in Nat \ {0}
      /\ Len(rest) = n - 1
      /\ \A i \in 1..(n - 1) : rest[i] = s.todo[i + 1]
  BY <1>1, HeadOK
<1>3. /\ s.todo[1].from = b + Len(s.got) + 1
      /\ \A i \in 1..(n - 1) : s.todo[i + 1].from = s.todo[i].to + 1
      /\ s.todo[n].to = last
      /\ \A i \in 1..Len(s.got) : s.got[i] = b + i
  BY DEF RowOK, Tiled
<1>4. /\ h \in Seq(Piece) /\ Len(h) = 2
      /\ h[1].from = p.from /\ h[2].to = p.to /\ h[2].from = h[1].to + 1
  BY <1>2, HalvesOK
<1>5. Split(s) = [Idle EXCEPT !.pc = "lookup", !.got = s.got, !.refused = s.refused,
                              !.todo = todo]
  BY DEF Split
<1>i. Idle \in Row /\ Allowed(Idle)
  BY IdleOK DEF RowOK
<1> HIDE DEF p, h, rest, n, last
<1>6. /\ todo \in Seq(Piece) /\ Len(todo) = n + 1
      /\ \A i \in 1..(n + 1) : todo[i] = IF i <= 2 THEN h[i] ELSE rest[i - 2]
  <2>1. /\ todo \in Seq(Piece) /\ Len(todo) = Len(h) + Len(rest)
        /\ \A i \in 1..(Len(h) + Len(rest)) :
             todo[i] = IF i <= Len(h) THEN h[i] ELSE rest[i - Len(h)]
    BY <1>2, <1>4, ConcatProperties
  <2> QED BY <2>1, <1>2, <1>4
<1> HIDE DEF todo
<1>7. \A i \in 3..(n + 1) : todo[i] = s.todo[i - 1]
  <2> SUFFICES ASSUME NEW i \in 3..(n + 1) PROVE todo[i] = s.todo[i - 1]
    OBVIOUS
  <2>1. i - 2 \in 1..(n - 1) /\ (i - 2) + 1 = i - 1
    BY <1>2
  <2>2. todo[i] = rest[i - 2]
    BY <1>2, <1>6
  <2> QED BY <2>1, <2>2, <1>2
<1>8. todo[1] = h[1] /\ todo[2] = h[2]
  BY <1>2, <1>6
<1>9. todo # <<>>
  BY <1>2, <1>6, EmptySeq
<1>10. todo[1].from = b + Len(s.got) + 1
  BY <1>2, <1>3, <1>4, <1>8
<1>11. \A i \in 1..n : todo[i + 1].from = todo[i].to + 1
  <2> SUFFICES ASSUME NEW i \in 1..n PROVE todo[i + 1].from = todo[i].to + 1
    OBVIOUS
  <2>1. CASE i = 1
    BY <2>1, <1>4, <1>8
  <2>2. CASE i = 2
    <3>1. todo[3] = s.todo[2] /\ s.todo[2].from = s.todo[1].to + 1
      BY <2>2, <1>2, <1>3, <1>7
    <3> QED BY <3>1, <2>2, <1>2, <1>4, <1>8
  <2>3. CASE i > 2
    <3>1. todo[i + 1] = s.todo[(i - 1) + 1] /\ todo[i] = s.todo[i - 1]
      BY <2>3, <1>2, <1>7
    <3>2. i - 1 \in 1..(n - 1)
      BY <2>3, <1>2
    <3> QED BY <3>1, <3>2, <1>3
  <2> QED BY <2>1, <2>2, <2>3, <1>2
<1>12. todo[n + 1].to = last
  <2>1. CASE n = 1
    BY <2>1, <1>2, <1>3, <1>4, <1>8
  <2>2. CASE n # 1
    <3>1. todo[n + 1] = s.todo[(n + 1) - 1] /\ (n + 1) - 1 = n
      BY <2>2, <1>2, <1>7
    <3> QED BY <3>1, <1>3
  <2> QED BY <2>1, <2>2
<1>13. (n + 1) - 1 = n
  BY <1>2
<1>14. Split(s) \in Row /\ Allowed(Split(s))
  BY <1>i, <1>1, <1>5, <1>6 DEF Row, Pc, Idle, Allowed
<1>15. Tiled(Split(s), b)
  BY <1>3, <1>5, <1>6, <1>9, <1>10, <1>11, <1>12, <1>13 DEF Tiled, Idle, last
<1> QED BY <1>5, <1>14, <1>15 DEF RowOK, Idle

\* A row that goes on with the same pieces and results.
LEMMA MoveOK ==
  ASSUME NEW b, NEW out, NEW s, RowOK(s, b, out), s.pc \in Busy,
         NEW new \in Row, new.pc \in Busy, new.todo = s.todo, new.got = s.got,
         Allowed(new), new.refused \subseteq out,
         new.pc \in {"checking", "calling"}
           => new.ch \in 1..Len(Channels) /\ Channels[new.ch] \notin new.refused
  PROVE  RowOK(new, b, out)
<1>1. new.pc # "done"
  BY DEF Busy
<1> QED BY <1>1 DEF RowOK, Tiled

\* The last analysis of a piece starts with a first attempt.
LEMMA ReanalyseOK ==
  ASSUME NEW b, NEW out, NEW s, RowOK(s, b, out), s.pc \in Busy
  PROVE  RowOK(Reanalyse(s), b, out)
<1>1. s \in Row /\ s.refused \subseteq out
  BY DEF RowOK
<1>2. Reanalyse(s) \in Row /\ Reanalyse(s).pc = "route"
  BY <1>1, Fields DEF Row, Reanalyse
<1>3. /\ Reanalyse(s).todo = s.todo /\ Reanalyse(s).got = s.got
      /\ Reanalyse(s).attempt = 1 /\ Reanalyse(s).refused = s.refused
  BY <1>1 DEF Row, Reanalyse
<1>4. Allowed(Reanalyse(s))
  BY <1>3, Limits DEF Allowed, Kinds
<1> QED BY <1>1, <1>2, <1>3, <1>4, MoveOK DEF Busy

-----------------------------------------------------------------------------
(* Errors *)

\* No batch is sent to a provider.
Quiet == \A u \in Task : task'[u].pc = "calling" => task'[u] = task[u]

\* What the end of an analysis keeps.
Moves ==
  /\ Rows' /\ Quiet
  /\ stage' \in {stage, "waiting", "failed"}
  /\ carried' \subseteq Families

\* One row changes.
LEMMA SetOK ==
  ASSUME Rows, NEW t \in Task, NEW new, RowOK(new, t[2], excluded[t[1]]),
         Set(t, new), excluded' = excluded
  PROVE  /\ Rows'
         /\ \A u \in Task : task'[u] = IF u = t THEN new ELSE task[u]
         /\ new.pc # "calling" => Quiet
<1>1. new \in Row
  BY DEF RowOK
<1>2. task' \in [Task -> Row]
  BY <1>1 DEF Rows, Set
<1>3. \A u \in Task : task'[u] = IF u = t THEN new ELSE task[u]
  BY DEF Rows, Set
<1>4. ASSUME NEW u \in Task PROVE RowOK(task'[u], u[2], excluded'[u[1]])
  BY <1>3 DEF Rows
<1> QED BY <1>2, <1>3, <1>4 DEF Rows, Quiet

\* A batch that raises leaves the others as they are, or removes them.
LEMMA EscapeOK ==
  ASSUME Shared, Rows, NEW t \in Task, NEW k, NEW families \in SUBSET Families,
         Escape(t, k, families), excluded' = excluded
  PROVE  Moves
<1>1. CASE stage = "running" /\ t[1] = run
  <2>1. task' = [u \in Task |->
                   IF u = t \/ (u[1] = run /\ task[u].pc = "done") THEN Idle
                   ELSE task[u]]
    BY <1>1 DEF Escape
  <2>2. task' \in [Task -> Row]
    <3>1. Idle \in Row
      BY IdleOK DEF RowOK
    <3> QED BY <2>1, <3>1 DEF Rows
  <2>3. ASSUME NEW u \in Task PROVE RowOK(task'[u], u[2], excluded'[u[1]])
    <3>1. task'[u] = Idle \/ task'[u] = task[u]
      BY <2>1
    <3> QED BY <3>1, IdleOK DEF Rows
  <2>4. stage' \in {"waiting", "failed"} /\ carried' \subseteq Families
    BY <1>1 DEF Escape, Shared
  <2>5. Quiet
    BY <2>1 DEF Quiet, Idle
  <2> QED BY <2>2, <2>3, <2>4, <2>5 DEF Moves, Rows
<1>2. CASE ~(stage = "running" /\ t[1] = run)
  <2>1. Set(t, Idle) /\ stage' = stage /\ carried' = carried
    BY <1>2 DEF Escape
  <2>2. Rows' /\ Quiet
    BY <2>1, IdleOK, SetOK DEF Idle
  <2> QED BY <2>1, <2>2 DEF Moves, Shared
<1> QED BY <1>1, <1>2

\* An analysis that failed for good: split, once more, or raise.
LEMMA GiveUpOK ==
  ASSUME Shared, Rows, NEW t \in Task, task[t].pc \in Busy,
         NEW k, NEW families \in SUBSET Families,
         GiveUp(t, k, families), excluded' = excluded
  PROVE  Moves
<1> DEFINE s == task[t]
           p == Head(s.todo)
           out == excluded[t[1]]
<1>1. RowOK(s, t[2], out) /\ t[2] \in Starts
  BY DEF Rows, Task
<1>2. p \in Piece
  <2>1. s \in Row /\ s.todo # <<>>
    BY <1>1 DEF RowOK, Tiled
  <2> QED BY <2>1, HeadOK
<1>3. p.depth \in 0..MaxDepth
  BY <1>2, FramesOfPiece
<1>4. \/ Size(p) > MinSize /\ p.depth < MaxDepth /\ Set(t, Split(s))
           /\ stage' = stage /\ carried' = carried
      \/ Set(t, Reanalyse(s)) /\ stage' = stage /\ carried' = carried
      \/ Escape(t, k, families)
  BY DEF GiveUp
<1>5. CASE Size(p) > MinSize /\ p.depth < MaxDepth /\ Set(t, Split(s))
           /\ stage' = stage /\ carried' = carried
  <2>1. RowOK(Split(s), t[2], out)
    BY <1>1, <1>5, SplitOK
  <2>2. Rows' /\ Quiet
    <3>1. Split(s).pc = "lookup"
      BY DEF Split, Idle
    <3> QED BY <1>5, <2>1, <3>1, SetOK
  <2> QED BY <1>5, <2>2 DEF Moves, Shared
<1>6. CASE Set(t, Reanalyse(s)) /\ stage' = stage /\ carried' = carried
  <2>1. RowOK(Reanalyse(s), t[2], out)
    BY <1>1, ReanalyseOK
  <2>2. Rows' /\ Quiet
    <3>1. Reanalyse(s).pc = "route"
      BY <1>1 DEF Reanalyse, RowOK, Row
    <3> QED BY <1>6, <2>1, <3>1, SetOK
  <2> QED BY <1>6, <2>2 DEF Moves, Shared
<1>7. CASE Escape(t, k, families)
  BY <1>7, EscapeOK
<1> QED BY <1>4, <1>5, <1>6, <1>7

\* A failed attempt is repeated within its limit and the run's budget, or given up.
LEMMA FailOK ==
  ASSUME Shared, Rows, NEW t \in Task, task[t].pc \in Busy,
         NEW k \in Kinds, NEW families \in SUBSET Families,
         Fail(t, k, families), excluded' = excluded
  PROVE  Moves /\ used' \in [1..MaxRuns -> 0..Budget]
<1> DEFINE s   == task[t]
           out == excluded[t[1]]
           new == [s EXCEPT !.pc = "route", !.attempt = @ + 1, !.ch = 1,
                            !.kind = "transient"]
<1>1. RowOK(s, t[2], out) /\ s \in Row /\ t[1] \in 1..MaxRuns
  BY DEF Rows, Task, RowOK
<1>2. CASE /\ MayRetry(t, k)
           /\ used' = [used EXCEPT ![t[1]] = @ + 1]
           /\ Set(t, new) /\ stage' = stage /\ carried' = carried
  <2>1. s.attempt < AttemptLimit(k) /\ used[t[1]] < Budget
    BY <1>2 DEF MayRetry
  <2>2. used' \in [1..MaxRuns -> 0..Budget]
    <3>1. used[t[1]] + 1 \in 0..Budget
      BY <2>1, <1>1, Constants DEF Shared
    <3> QED BY <3>1, <1>2 DEF Shared
  <2>3. s.attempt \in Nat /\ AttemptLimit(k) \in Nat
    BY <1>1, Limits DEF Row
  <2>4. s.attempt + 1 \in 1..AttemptLimit(k) /\ s.attempt + 1 \in Nat
    BY <2>1, <2>3
  <2>5. /\ new \in Row /\ new.pc = "route" /\ new.attempt = s.attempt + 1
        /\ new.todo = s.todo /\ new.got = s.got /\ new.refused = s.refused
    BY <1>1, <2>4, Fields DEF Row
  <2>6. Allowed(new)
    BY <2>4, <2>5 DEF Allowed
  <2> HIDE DEF new
  <2>7. RowOK(new, t[2], out)
    <3>1. s.refused \subseteq out
      BY <1>1 DEF RowOK
    <3> QED BY <3>1, <1>1, <2>5, <2>6, MoveOK, Fields
  <2>8. Rows' /\ Quiet
    BY <1>2, <2>5, <2>7, SetOK
  <2> QED BY <1>2, <2>2, <2>8 DEF Moves, Shared
<1>3. CASE GiveUp(t, k, families) /\ used' = used
  BY <1>3, GiveUpOK DEF Shared
<1>4. CASE (\E e \in RedisErrors : GiveUp(t, e, {})) /\ used' = used
  <2>1. PICK e \in RedisErrors : GiveUp(t, e, {})
    BY <1>4
  <2> QED BY <1>4, <2>1, GiveUpOK DEF Shared
<1> QED BY <1>2, <1>3, <1>4 DEF Fail

-----------------------------------------------------------------------------
(* Steps *)

\* Excluding more families keeps a row.
LEMMA RowGrows ==
  ASSUME NEW s, NEW b, NEW out, NEW more, out \subseteq more, RowOK(s, b, out)
  PROVE  RowOK(s, b, more)
BY DEF RowOK

\* A row that goes on to a state without a condition of its own.
LEMMA StateOK ==
  ASSUME NEW b, NEW out, NEW s, RowOK(s, b, out), s.pc \in Busy,
         NEW pc \in {"lookup", "route"}, NEW new, new = [s EXCEPT !.pc = pc]
  PROVE  RowOK(new, b, out) /\ new.pc = pc
<1>1. s \in Row /\ s.refused \subseteq out /\ Allowed(s)
  BY DEF RowOK
<1>2. /\ new \in Row /\ new.pc = pc /\ new.todo = s.todo /\ new.got = s.got
      /\ new.refused = s.refused /\ new.attempt = s.attempt
  BY <1>1, Fields DEF Row
<1>3. RowOK(new, b, out)
  BY <1>1, <1>2, Fields, MoveOK DEF Allowed
<1> QED BY <1>2, <1>3

\* What every step keeps.
Kept == Shared' /\ Rows' /\ (CompletedIsWhole => CompletedIsWhole')

\* A step that moves batches, and leaves the report alone.
LEMMA MovesKeep ==
  ASSUME Shared, Moves, run' = run, result' = result,
         excluded' \in [1..MaxRuns -> SUBSET Families],
         used' \in [1..MaxRuns -> 0..Budget],
         cache' \subseteq (1..Frames) \X (1..Frames)
  PROVE  Kept
<1>1. Shared'
  BY DEF Shared, Moves
<1>2. stage' = "done" => stage = "done"
  BY DEF Moves
<1> QED BY <1>1, <1>2 DEF Moves, Kept, CompletedIsWhole

\* The piece that a batch is at is one of the keys of the cache.
LEMMA KeyOK ==
  ASSUME Rows, NEW t \in Task, task[t].pc \in Busy
  PROVE  Key(Head(task[t].todo)) \in (1..Frames) \X (1..Frames)
<1>1. task[t] \in Row /\ task[t].todo # <<>>
  BY DEF Rows, RowOK, Tiled
<1>2. Head(task[t].todo) \in Piece
  BY <1>1, HeadOK
<1> QED BY <1>2 DEF Key, Piece

\* A row with a result, as a step.
LEMMA FinishSet ==
  ASSUME Shared, Rows, NEW t \in Task, task[t].pc \in Busy,
         Set(t, Finished(task[t])), excluded' = excluded,
         stage' = stage, carried' = carried
  PROVE  Moves
<1>1. RowOK(task[t], t[2], excluded[t[1]]) /\ t[2] \in Starts
  BY DEF Rows, Task
<1>2. RowOK(Finished(task[t]), t[2], excluded[t[1]])
  BY <1>1, FinishedOK
<1>3. Finished(task[t]).pc # "calling"
  BY DEF Finished, Idle
<1> QED BY <1>2, <1>3, SetOK DEF Moves, Shared

\* Reading the cache.
LEMMA LookUpOK == ASSUME Shared, Rows, NEW t \in Task, LookUp(t) PROVE Kept /\ Quiet
<1>1. task[t].pc = "lookup" /\ task[t].pc \in Busy /\ excluded' = excluded
  BY DEF LookUp, Busy
<1>2. Moves
  <2>1. CASE Set(t, Finished(task[t])) /\ stage' = stage /\ carried' = carried
    BY <1>1, <2>1, FinishSet
  <2>2. CASE /\ Set(t, [task[t] EXCEPT !.pc = "route"])
             /\ stage' = stage /\ carried' = carried
    <3> DEFINE new == [task[t] EXCEPT !.pc = "route"]
    <3>1. RowOK(new, t[2], excluded[t[1]]) /\ new.pc = "route"
      <4>1. RowOK(task[t], t[2], excluded[t[1]])
        BY DEF Rows
      <4> QED BY <1>1, <4>1, StateOK
    <3> QED BY <1>1, <2>2, <3>1, SetOK DEF Moves, Shared
  <2>3. CASE \E k \in RedisErrors : Escape(t, k, {})
    BY <1>1, <2>3, EscapeOK
  <2> QED BY <2>1, <2>2, <2>3 DEF LookUp
<1> QED BY <1>2, MovesKeep DEF LookUp, Shared, Moves

\* An answer.
LEMMA AnswerOK == ASSUME Shared, Rows, NEW t \in Task, Answer(t) PROVE Kept /\ Quiet
<1>1. task[t].pc \in Busy /\ excluded' = excluded /\ run' = run /\ result' = result
  BY DEF Answer, Busy
<1>2. CASE /\ Set(t, Finished(task[t]))
           /\ cache' = IF task[t].again THEN cache
                       ELSE cache \cup {Key(Head(task[t].todo))}
           /\ stage' = stage /\ carried' = carried /\ used' = used
  <2>1. Moves
    BY <1>1, <1>2, FinishSet
  <2>2. cache' \subseteq (1..Frames) \X (1..Frames)
    BY <1>1, <1>2, KeyOK DEF Shared
  <2> QED BY <1>1, <1>2, <2>1, <2>2, MovesKeep DEF Shared, Moves
<1>3. CASE /\ cache' = cache /\ used' = used
           /\ \E k \in RedisErrors : GiveUp(t, k, {})
  <2>1. Moves
    BY <1>1, <1>3, GiveUpOK
  <2> QED BY <1>1, <1>3, <2>1, MovesKeep DEF Shared, Moves
<1>4. CASE cache' = cache /\ \E k \in RedisErrors : Fail(t, k, {})
  <2>1. PICK k \in RedisErrors : Fail(t, k, {})
    BY <1>4
  <2>2. k \in Kinds
    BY DEF RedisErrors, Kinds
  <2>3. Moves /\ used' \in [1..MaxRuns -> 0..Budget]
    BY <1>1, <2>1, <2>2, FailOK
  <2> QED BY <1>1, <1>4, <2>3, MovesKeep DEF Shared, Moves
<1> QED BY <1>2, <1>3, <1>4 DEF Answer

\* No channel is left.
LEMMA ExhaustedOK ==
  ASSUME Shared, Rows, NEW t \in Task, Exhausted(t) PROVE Kept /\ Quiet
<1> DEFINE out == excluded[t[1]]
           k == IF "gemini" \in out /\ Families \subseteq out THEN "block"
                ELSE task[t].kind
<1>1. /\ task[t].pc \in Busy /\ excluded' = excluded /\ run' = run
      /\ result' = result /\ cache' = cache /\ Fail(t, k, out)
  BY DEF Exhausted, Busy
<1>2. k \in Kinds /\ out \in SUBSET Families
  BY Fields DEF Rows, Row, Shared, Task
<1> HIDE DEF k, out
<1>3. Moves /\ used' \in [1..MaxRuns -> 0..Budget]
  BY <1>1, <1>2, FailOK
<1> QED BY <1>1, <1>3, MovesKeep DEF Shared, Moves

\* A cut attempt.
LEMMA CutOK == ASSUME Shared, Rows, NEW t \in Task, Cut(t) PROVE Kept /\ Quiet
<1>1. /\ task[t].pc \in Busy /\ excluded' = excluded /\ run' = run
      /\ result' = result /\ cache' = cache /\ Fail(t, "transient", {})
  BY DEF Cut, Busy
<1>2. Moves /\ used' \in [1..MaxRuns -> 0..Budget]
  BY <1>1, Fields, FailOK
<1> QED BY <1>1, <1>2, MovesKeep DEF Shared, Moves

\* The semaphore lets a batch in.
LEMMA StartOK == ASSUME Shared, Rows, NEW t \in Task, Start(t) PROVE Kept /\ Quiet
<1>1. /\ task[t].pc \in Busy /\ Set(t, [task[t] EXCEPT !.pc = "lookup"])
      /\ UNCHANGED <<request, excluded, used, cache, result>>
  BY DEF Start, Busy
<1> DEFINE new == [task[t] EXCEPT !.pc = "lookup"]
<1>2. RowOK(new, t[2], excluded[t[1]]) /\ new.pc = "lookup"
  <2>1. RowOK(task[t], t[2], excluded[t[1]])
    BY DEF Rows
  <2> QED BY <1>1, <2>1, StateOK
<1>3. Moves
  BY <1>1, <1>2, SetOK DEF Moves, Shared, request
<1> QED BY <1>1, <1>3, MovesKeep DEF Shared, Moves, request

\* A channel is considered: its family is not excluded.
LEMMA ConsiderOK == ASSUME Shared, Rows, NEW t \in Task, Consider(t) PROVE Kept /\ Quiet
<1>1. /\ task[t].pc \in Busy
      /\ UNCHANGED <<request, excluded, used, cache, result>>
  BY DEF Consider, Busy
<1>2. PICK c \in Candidates(t) : Set(t, [task[t] EXCEPT !.pc = "checking", !.ch = c])
  BY DEF Consider
<1> DEFINE new == [task[t] EXCEPT !.pc = "checking", !.ch = c]
<1>3. task[t] \in Row /\ RowOK(task[t], t[2], excluded[t[1]])
  BY DEF Rows
<1>4. c \in 1..Len(Channels) /\ Channels[c] \notin excluded[t[1]]
  BY <1>3, Constants DEF Candidates, Row
<1>5. /\ new \in Row /\ new.pc = "checking" /\ new.todo = task[t].todo
      /\ new.got = task[t].got /\ new.refused = task[t].refused /\ new.ch = c
      /\ new.attempt = task[t].attempt
  <2>1. c \in 1..(Len(Channels) + 1) /\ "checking" \in Pc
    BY <1>4, Constants DEF Pc
  <2> QED BY <2>1, <1>3 DEF Row
<1>6. Set(t, new)
  BY <1>2
<1> HIDE DEF new
<1>7. RowOK(new, t[2], excluded[t[1]])
  <2>1. Allowed(new) /\ new.refused \subseteq excluded[t[1]]
    BY <1>3, <1>5 DEF RowOK, Allowed
  <2> QED BY <2>1, <1>1, <1>3, <1>4, <1>5, Fields, MoveOK
<1>8. Moves
  BY <1>1, <1>5, <1>6, <1>7, SetOK DEF Moves, Shared, request
<1> QED BY <1>1, <1>8, MovesKeep DEF Shared, Moves, request

\* A channel is skipped or called.
LEMMA TryOK ==
  ASSUME Shared, Rows, NEW t \in Task, Try(t)
  PROVE  /\ Kept
         /\ \A u \in Task :
              task[u].pc # "calling" /\ task'[u].pc = "calling"
                => Channels[task'[u].ch] \notin task[u].refused
<1>1. /\ task[t].pc = "checking" /\ task[t].pc \in Busy
      /\ UNCHANGED <<request, excluded, used, cache, result>>
  BY DEF Try, Busy
<1>2. /\ task[t] \in Row /\ RowOK(task[t], t[2], excluded[t[1]])
      /\ task[t].ch \in 1..Len(Channels) /\ Channels[task[t].ch] \notin task[t].refused
  BY <1>1 DEF Rows, RowOK
<1>3. CASE Set(t, [task[t] EXCEPT !.pc = "route", !.ch = @ + 1])
  <2> DEFINE new == [task[t] EXCEPT !.pc = "route", !.ch = @ + 1]
  <2>1. task[t].ch + 1 \in 1..(Len(Channels) + 1) /\ "route" \in Pc
    BY <1>2, Constants DEF Pc
  <2>2. /\ new \in Row /\ new.pc = "route" /\ new.todo = task[t].todo
        /\ new.got = task[t].got /\ new.refused = task[t].refused
        /\ new.attempt = task[t].attempt
    BY <2>1, <1>2 DEF Row
  <2>3. Set(t, new)
    BY <1>3
  <2> HIDE DEF new
  <2>4. RowOK(new, t[2], excluded[t[1]])
    <3>1. Allowed(new) /\ new.refused \subseteq excluded[t[1]]
      BY <1>2, <2>2 DEF RowOK, Allowed
    <3> QED BY <3>1, <1>1, <1>2, <2>2, Fields, MoveOK
  <2>5. Moves
    BY <1>1, <2>2, <2>3, <2>4, SetOK DEF Moves, Shared, request
  <2> QED BY <1>1, <2>5, MovesKeep DEF Shared, Moves, request, Quiet
<1>4. CASE Set(t, [task[t] EXCEPT !.pc = "calling"])
  <2> DEFINE new == [task[t] EXCEPT !.pc = "calling"]
  <2>2. /\ new \in Row /\ new.pc = "calling" /\ new.todo = task[t].todo
        /\ new.got = task[t].got /\ new.refused = task[t].refused
        /\ new.attempt = task[t].attempt /\ new.ch = task[t].ch
    BY <1>2, Fields DEF Row
  <2>3. Set(t, new)
    BY <1>4
  <2> HIDE DEF new
  <2>1. RowOK(new, t[2], excluded[t[1]])
    <3>1. Allowed(new) /\ new.refused \subseteq excluded[t[1]]
      BY <1>2, <2>2 DEF RowOK, Allowed
    <3> QED BY <3>1, <1>1, <1>2, <2>2, Fields, MoveOK
  <2>4. Rows' /\ \A u \in Task : task'[u] = IF u = t THEN new ELSE task[u]
    BY <1>1, <2>1, <2>3, SetOK
  <2>5. Kept
    BY <1>1, <2>4 DEF Kept, Shared, request, CompletedIsWhole
  <2> QED BY <1>2, <2>2, <2>4, <2>5
<1> QED BY <1>3, <1>4 DEF Try

\* The next channel, with an error of this one; the families in out are excluded now.
LEMMA NextChannelOK ==
  ASSUME Shared, Rows, NEW t \in Task, task[t].pc = "calling", NEW k \in Kinds,
         NextChannel(t, k), UNCHANGED <<request, used, cache, result>>,
         NEW out, excluded' = [excluded EXCEPT ![t[1]] = out],
         out \subseteq Families, excluded[t[1]] \subseteq out,
         k = "block" => Family(t) \in out
  PROVE  Kept /\ Quiet
<1> DEFINE s    == task[t]
           more == IF k = "block" THEN s.refused \cup {Family(t)} ELSE s.refused
           new  == [s EXCEPT !.pc = "route", !.ch = @ + 1, !.kind = k,
                             !.refused = more]
<1>1. s \in Row /\ RowOK(s, t[2], excluded[t[1]]) /\ t[1] \in 1..MaxRuns
  BY DEF Rows, Task
<1>2. RowOK(s, t[2], out)
  BY <1>1, RowGrows
<1>3. /\ s.pc \in Busy /\ s.refused \subseteq out /\ Allowed(s)
      /\ s.ch \in 1..Len(Channels)
  BY <1>2, Fields DEF RowOK
<1>4. more \subseteq out
  BY <1>3
<1>5. Set(t, new)
  BY DEF NextChannel
<1> HIDE DEF more
<1>6. /\ new \in Row /\ new.pc = "route" /\ new.todo = s.todo /\ new.got = s.got
      /\ new.refused = more /\ new.attempt = s.attempt
  <2>1. s.ch + 1 \in 1..(Len(Channels) + 1) /\ "route" \in Pc /\ more \subseteq Families
    BY <1>3, <1>4, Constants DEF Pc
  <2> QED BY <2>1, <1>1 DEF Row
<1> HIDE DEF new
<1>7. RowOK(new, t[2], out)
  <2>1. Allowed(new)
    BY <1>3, <1>6 DEF Allowed
  <2> QED BY <2>1, <1>2, <1>3, <1>4, <1>6, Fields, MoveOK
<1>8. /\ task' \in [Task -> Row]
      /\ \A u \in Task : task'[u] = IF u = t THEN new ELSE task[u]
  BY <1>5, <1>6 DEF Rows, Set
<1>9. ASSUME NEW u \in Task PROVE RowOK(task'[u], u[2], excluded'[u[1]])
  <2>1. CASE u = t
    BY <2>1, <1>1, <1>7, <1>8 DEF Shared
  <2>2. CASE u # t
    <3>1. u[1] \in 1..MaxRuns
      BY DEF Task
    <3>2. excluded[u[1]] \subseteq excluded'[u[1]]
      BY <3>1, <1>1 DEF Shared
    <3>3. RowOK(task[u], u[2], excluded[u[1]])
      BY DEF Rows
    <3> QED BY <3>2, <3>3, <2>2, <1>8, RowGrows
  <2> QED BY <2>1, <2>2
<1>10. Quiet
  BY <1>6, <1>8 DEF Quiet
<1>11. Shared' /\ (CompletedIsWhole => CompletedIsWhole')
  BY <1>1 DEF Shared, request, CompletedIsWhole
<1> QED BY <1>8, <1>9, <1>10, <1>11 DEF Kept, Rows

\* A block.
LEMMA RefusedOK == ASSUME Shared, Rows, NEW t \in Task, Refused(t) PROVE Kept /\ Quiet
<1> DEFINE out == excluded[t[1]] \cup {Family(t)}
<1>1. /\ task[t].pc = "calling" /\ NextChannel(t, "block")
      /\ UNCHANGED <<request, used, cache, result>>
      /\ excluded' = [excluded EXCEPT ![t[1]] = out]
  BY DEF Refused
<1>2. Family(t) \in Families
  <2>1. task[t].ch \in 1..Len(Channels)
    BY <1>1 DEF Rows, RowOK
  <2> QED BY <2>1, Constants DEF Family, Families, ToSet
<1>3. out \subseteq Families
  BY <1>2 DEF Shared, Task
<1> QED BY <1>1, <1>3, Fields, NextChannelOK

\* Another error of a channel.
LEMMA ChannelErrorOK ==
  ASSUME Shared, Rows, NEW t \in Task, ChannelError(t) PROVE Kept /\ Quiet
<1>1. PICK k \in Errors : NextChannel(t, k)
  BY DEF ChannelError
<1>2. /\ task[t].pc = "calling" /\ k \in Kinds /\ k # "block"
      /\ UNCHANGED <<request, excluded, used, cache, result>>
  BY ReviewAssumption DEF ChannelError, ReviewAssumption
<1>3. /\ excluded' = [excluded EXCEPT ![t[1]] = excluded[t[1]]]
      /\ excluded[t[1]] \subseteq Families
  BY <1>2 DEF Shared, Task
<1> QED BY <1>1, <1>2, <1>3, NextChannelOK

-----------------------------------------------------------------------------
(* The invariant *)

\* A new run of the stage.
LEMMA BeginOK == ASSUME Shared, Rows, Begin PROVE Kept /\ Quiet
<1> DEFINE first(t) == [Idle EXCEPT !.pc = "queued", !.todo = <<Batch(t[2])>>]
<1>1. /\ run' = run + 1 /\ run + 1 \in 1..MaxRuns /\ stage' = "running"
      /\ task' = [t \in Task |-> IF t[1] = run + 1 THEN first(t) ELSE task[t]]
      /\ excluded' = [excluded EXCEPT ![run + 1] = carried]
      /\ UNCHANGED <<carried, used, cache, result>>
  <2>1. run + 1 \in 1..MaxRuns
    <3>1. run < MaxRuns /\ run \in 0..MaxRuns
      BY DEF Begin, Shared
    <3> QED BY <3>1, Constants
  <2> QED BY <2>1 DEF Begin
<1>2. ASSUME NEW t \in Task, NEW out PROVE RowOK(first(t), t[2], out)
  <2>1. /\ t[2] \in Starts /\ t[2] \in Nat /\ Batch(t[2]) \in Piece
    BY BatchIsPiece DEF Task
  <2>2. Idle \in Row /\ Allowed(Idle)
    BY IdleOK DEF RowOK
  <2>3. /\ first(t) \in Row /\ first(t).pc = "queued" /\ first(t).got = <<>>
        /\ first(t).todo = <<Batch(t[2])>> /\ first(t).refused = {}
        /\ first(t).attempt = Idle.attempt
    <3>1. <<Batch(t[2])>> \in Seq(Piece) /\ "queued" \in Pc
      BY <2>1 DEF Pc
    <3>2. Idle.got = <<>> /\ Idle.refused = {}
      BY DEF Idle
    <3> QED BY <2>2, <3>1, <3>2 DEF Row
  <2>4. Tiled(first(t), t[2])
    BY <2>1, <2>3 DEF Tiled, Batch
  <2> HIDE DEF first
  <2> QED BY <2>2, <2>3, <2>4 DEF RowOK, Allowed
<1>3. \A t \in Task : first(t).pc = "queued"
  BY DEF Idle
<1> HIDE DEF first
<1>4. task' \in [Task -> Row]
  BY <1>1, <1>2 DEF Rows, RowOK
<1>5. ASSUME NEW t \in Task PROVE RowOK(task'[t], t[2], excluded'[t[1]])
  <2>1. t[1] \in 1..MaxRuns
    BY DEF Task
  <2>2. CASE t[1] = run + 1
    BY <2>2, <1>1, <1>2
  <2>3. CASE t[1] # run + 1
    BY <2>1, <2>3, <1>1 DEF Rows, Shared
  <2> QED BY <2>2, <2>3
<1>6. Shared'
  BY SMTT(30), <1>1, Constants DEF Shared
<1>7. Quiet
  BY <1>1, <1>3 DEF Quiet
<1> QED BY <1>1, <1>4, <1>5, <1>6, <1>7 DEF Kept, Rows, CompletedIsWhole

\* gather has all results.
LEMMA CompleteOK == ASSUME Shared, Rows, Complete PROVE Kept /\ Quiet
<1>1. /\ stage = "running" /\ run \in 1..MaxRuns /\ stage' = "done"
      /\ \A s \in Starts : task[<<run, s>>].pc = "done"
      /\ result' = [s \in Starts |-> task[<<run, s>>].got]
      /\ task' = [t \in Task |-> IF t[1] = run THEN Idle ELSE task[t]]
      /\ UNCHANGED <<run, carried, excluded, used, cache>>
  BY Constants DEF Complete, Shared
<1>2. ASSUME NEW s \in Starts
      PROVE  /\ task[<<run, s>>].got \in Seq(1..Frames)
             /\ task[<<run, s>>].got = [i \in 1..(Upto(s + BatchSize) - s) |-> s + i]
  <2>1. <<run, s>> \in Task
    BY <1>1 DEF Task
  <2>2. /\ task[<<run, s>>] \in Row
        /\ RowOK(task[<<run, s>>], <<run, s>>[2], excluded[<<run, s>>[1]])
    BY <2>1 DEF Rows
  <2> QED BY <2>2, <1>1 DEF RowOK, Row, Tiled
<1>3. CompletedIsWhole'
  BY <1>1, <1>2 DEF CompletedIsWhole
<1>4. result' \in [Starts -> Seq(1..Frames)]
  BY <1>1, <1>2
<1>5. Shared'
  BY <1>1, <1>4 DEF Shared
<1>6. Idle \in Row /\ \A b, out : RowOK(Idle, b, out)
  BY IdleOK DEF RowOK
<1>7. Rows' /\ Quiet
  BY <1>1, <1>6 DEF Rows, Quiet, Idle
<1> QED BY <1>3, <1>5, <1>7 DEF Kept

\* The deadline.
LEMMA DeadlineOK == ASSUME Shared, Rows, Deadline PROVE Kept /\ Quiet
<1>1. /\ stage' = "failed"
      /\ task' = [t \in Task |-> IF stage = "running" /\ t[1] = run THEN Idle
                                ELSE task[t]]
      /\ UNCHANGED <<run, carried, excluded, used, cache, result>>
  BY DEF Deadline
<1>2. Idle \in Row /\ \A b, out : RowOK(Idle, b, out)
  BY IdleOK DEF RowOK
<1>3. Rows' /\ Quiet
  BY <1>1, <1>2 DEF Rows, Quiet, Idle
<1> QED BY <1>1, <1>3 DEF Kept, Shared, CompletedIsWhole

\* Initially.
LEMMA InitOK == Init => IInv
<1> SUFFICES ASSUME Init PROVE IInv
  OBVIOUS
<1>1. Shared
  BY Constants DEF Init, Shared
<1>2. Idle \in Row /\ \A b, out : RowOK(Idle, b, out)
  BY IdleOK DEF RowOK
<1>3. Rows
  BY <1>2 DEF Init, Rows
<1>4. CompletedIsWhole
  BY DEF Init, CompletedIsWhole
<1> QED BY <1>1, <1>3, <1>4 DEF IInv

\* Only Try sends a batch to a provider, and it has looked at the exclusions before.
LEMMA StepOK ==
  ASSUME IInv, [Next]_vars
  PROVE  /\ IInv'
         /\ \A u \in Task :
              task[u].pc # "calling" /\ task'[u].pc = "calling"
                => Channels[task'[u].ch] \notin task[u].refused
<1> DEFINE Asked == \A u \in Task :
              task[u].pc # "calling" /\ task'[u].pc = "calling"
                => Channels[task'[u].ch] \notin task[u].refused
<1> SUFFICES IInv' /\ Asked
  OBVIOUS
<1>1. Shared /\ Rows /\ CompletedIsWhole
  BY DEF IInv
<1>2. Quiet => Asked
  BY DEF Quiet
<1> HIDE DEF Asked
<1>3. Kept => IInv'
  BY <1>1 DEF Kept, IInv
<1>4. CASE Begin
  BY <1>1, <1>2, <1>3, <1>4, BeginOK
<1>5. CASE Complete
  BY <1>1, <1>2, <1>3, <1>5, CompleteOK
<1>6. CASE Deadline
  BY <1>1, <1>2, <1>3, <1>6, DeadlineOK
<1>7. CASE Calls
  <2>1. PICK t \in Task : Call(t)
    BY <1>7 DEF Calls
  <2>2. CASE Try(t)
    BY <1>1, <1>3, <2>2, TryOK DEF Asked
  <2>3. CASE Start(t)
    BY <1>1, <1>2, <1>3, <2>3, StartOK
  <2>4. CASE LookUp(t)
    BY <1>1, <1>2, <1>3, <2>4, LookUpOK
  <2>5. CASE Consider(t)
    BY <1>1, <1>2, <1>3, <2>5, ConsiderOK
  <2>6. CASE Exhausted(t)
    BY <1>1, <1>2, <1>3, <2>6, ExhaustedOK
  <2>7. CASE Answer(t)
    BY <1>1, <1>2, <1>3, <2>7, AnswerOK
  <2>8. CASE Refused(t)
    BY <1>1, <1>2, <1>3, <2>8, RefusedOK
  <2>9. CASE ChannelError(t)
    BY <1>1, <1>2, <1>3, <2>9, ChannelErrorOK
  <2>10. CASE Cut(t)
    BY <1>1, <1>2, <1>3, <2>10, CutOK
  <2> QED BY <2>1, <2>2, <2>3, <2>4, <2>5, <2>6, <2>7, <2>8, <2>9, <2>10 DEF Call
<1>8. CASE UNCHANGED vars
  <2>1. UNCHANGED <<stage, run, carried, task, excluded, used, cache, result>>
    BY <1>8 DEF vars, request
  <2>2. IInv'
    BY <2>1, <1>1 DEF IInv, Shared, Rows, CompletedIsWhole
  <2>3. Asked
    BY <2>1 DEF Asked
  <2> QED BY <2>2, <2>3 DEF Asked
<1> QED BY <1>4, <1>5, <1>6, <1>7, <1>8 DEF Next, Asked

\* The invariant holds in all reachable states.
THEOREM Invariant == Spec => []IInv
BY InitOK, StepOK, PTL DEF Spec

-----------------------------------------------------------------------------
(* Theorems *)

\* Types; in particular no call has more attempts than one of the kinds of
\* error allows, and all batches of a run together no more extra ones than the
\* budget (call_model_with_retry, ModelRetryBudget).
THEOREM TypeCorrect == Spec => []TypeOK
<1>1. IInv => TypeOK
  BY DEF IInv, Shared, Rows, RowOK, Row, Pc, Allowed, TypeOK
<1> QED BY <1>1, Invariant, PTL

\* A completed review has every batch with all its frames, once and in order,
\* however its pieces were split, cached, repeated, or left over from an earlier
\* run (_analyze_frame_batch_resilient, _run_frame_batches_concurrently).
THEOREM Whole == Spec => []CompletedIsWhole
<1>1. IInv => CompletedIsWhole
  BY DEF IInv
<1> QED BY <1>1, Invariant, PTL

\* A batch never goes back to a family that blocked it in its run, although the
\* router awaits between its check of the exclusions and the call
\* (ProviderRouter.execute).
THEOREM NotAskedAgain == Spec => BlockedNotAskedAgain
<1>1. IInv /\ [Next]_vars
        => [\A t \in Task :
              task[t].pc # "calling" /\ task'[t].pc = "calling"
                => Channels[task'[t].ch] \notin task[t].refused]_vars
  BY StepOK
<1> QED BY <1>1, Invariant, PTL DEF Spec, BlockedNotAskedAgain
=============================================================================
