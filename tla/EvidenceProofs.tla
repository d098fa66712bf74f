---------------------------- MODULE EvidenceProofs ----------------------------
(***************************************************************************)
(* Theorems about Evidence for videos of any length and rate, segments,    *)
(* thresholds, gaps and batches of any size, and any number of findings.   *)
(* What a recursion computes is proved from the least frame at which it    *)
(* would go wrong.                                                         *)
(***************************************************************************)
EXTENDS Evidence, FiniteSetTheorems, SequenceTheorems, WellFoundedInduction, TLAPS

VideoTyped(v) ==
  /\ v.ticks \in 0..MaxTicks /\ v.fps \in FrameRate \cup {1}
  /\ v.from \in Nat /\ v.to \in Nat \cup {NoEnd}
  /\ v.look \in Seq(Look) /\ Len(v.look) <= v.ticks + 1

LEMMA EvidenceNumbers ==
  /\ FrameRate \subseteq Nat \ {0} /\ FromSecond \subseteq Nat /\ ToSecond \subseteq Nat
  /\ NoEnd \notin Nat
  /\ SegmentSeconds \in Nat \ {0} /\ BatchSize \in Nat \ {0} /\ SheetCells \in Nat \ {0}
  /\ BatchSize <= SheetCells
  /\ MaxTicks \in Nat /\ HashThreshold \in Nat /\ MaxGapSeconds \in Nat /\ MaxFindings \in Nat
  /\ Look \subseteq Nat
  BY EvidenceAssumption

LEMMA VideoNumbers ==
  ASSUME NEW v, VideoTyped(v)
  PROVE  /\ v.ticks \in 0..MaxTicks /\ v.ticks \in Nat /\ v.fps \in Nat \ {0} /\ v.from \in Nat
         /\ Frame(v) = 1..Len(v.look) /\ Len(v.look) \in Nat /\ Frame(v) \subseteq 1..(MaxTicks + 1)
         /\ \A f \in Frame(v) : v.look[f] \in Nat /\ TickOf(v, f) \in Nat
<1>1. v.ticks \in 0..MaxTicks /\ v.ticks \in Nat /\ v.fps \in Nat \ {0} /\ v.from \in Nat
  <2>1. v.ticks \in 0..MaxTicks /\ v.fps \in FrameRate \cup {1} /\ v.from \in Nat
    BY DEF VideoTyped
  <2>2. v.fps \in Nat \ {0}
    <3>1. FrameRate \subseteq Nat \ {0} /\ 1 \in Nat \ {0}
      BY EvidenceNumbers
    <3> QED
      BY <2>1, <3>1
  <2> QED
    BY <2>1, <2>2
<1>2. Len(v.look) \in Nat /\ Len(v.look) <= v.ticks + 1
      /\ \A f \in 1..Len(v.look) : v.look[f] \in Look
  BY DEF VideoTyped
<1>3. Frame(v) = 1..Len(v.look) /\ Frame(v) \subseteq 1..(MaxTicks + 1)
  BY <1>1, <1>2, EvidenceNumbers DEF Frame
<1>4. ASSUME NEW f \in Frame(v) PROVE v.look[f] \in Nat /\ TickOf(v, f) \in Nat
  <2>1. f \in 1..Len(v.look)
    BY <1>3
  <2>2. v.from * v.fps \in Nat
    BY <1>1
  <2>3. TickOf(v, f) \in Nat
    BY <2>1, <2>2 DEF TickOf
  <2> QED
    BY <1>2, <2>1, <2>3, EvidenceNumbers
<1> QED
  BY <1>1, <1>2, <1>3, <1>4

\* A set of natural numbers that is not empty has a least one.
LEMMA LeastOne ==
  ASSUME NEW T \in SUBSET Nat, T # {}
  PROVE  \E x \in T : \A y \in T : x <= y
<1> DEFINE R == OpToRel(<, Nat)
<1>1. IsWellFoundedOn(R, Nat)
  BY NatLessThanWellFounded
<1>2. \A x, y \in Nat : ~ (<<y, x>> \in R) => x <= y
  BY DEF OpToRel
<1> HIDE DEF R
<1>3. \E x \in T : \A y \in T : ~ (<<y, x>> \in R)
  BY <1>1, WFMin
<1>4. PICK x \in T : \A y \in T : ~ (<<y, x>> \in R)
  BY <1>3
<1>5. ASSUME NEW y \in T PROVE x <= y
  <2>1. x \in Nat /\ y \in Nat
    OBVIOUS
  <2> QED
    BY <2>1, <1>2, <1>4, Zenon
<1> QED
  BY <1>5

-----------------------------------------------------------------------------
(* The filter of similar frames *)

\* Frame f is kept after g was the last one kept.
Jumps(v, frames, f, g) ==
  \/ f - 1 \notin frames
  \/ Distance(v.look[f], v.look[g]) > HashThreshold
  \/ TickOf(v, f) - TickOf(v, g) >= MaxGapSeconds * v.fps

\* The filter has come to frame n.
FilteredTo(v, frames, last, n) ==
  last = [f \in frames \cap 1..n |->
            IF Jumps(v, frames, f, last[f - 1]) THEN f ELSE last[f - 1]]

LEMMA FilterComesToAll ==
  ASSUME NEW v, NEW frames \in SUBSET (Nat \ {0}), NEW n \in Nat
  PROVE  \E last : FilteredTo(v, frames, last, n)
<1> DEFINE Reached(m) == \E last : FilteredTo(v, frames, last, m)
           T == {m \in Nat : ~ Reached(m)}
<1>1. SUFFICES ASSUME T # {} PROVE FALSE
  OBVIOUS
<1> HIDE DEF Reached
<1>2. PICK m \in T : \A k \in T : m <= k
  BY <1>1, LeastOne
<1>3. CASE m = 0
  <2> DEFINE last == [f \in {} |-> f]
  <2>1. frames \cap 1..m = {}
    BY <1>3
  <2>2. FilteredTo(v, frames, last, m)
    BY <2>1 DEF FilteredTo
  <2> QED
    BY <2>2 DEF Reached
<1>4. CASE m # 0
  <2>1. m \in Nat /\ m - 1 \in Nat /\ m - 1 \notin T
    BY <1>2, <1>4
  <2>2. PICK last : FilteredTo(v, frames, last, m - 1)
    BY <2>1 DEF Reached
  <2> DEFINE D    == frames \cap 1..m
             J(f, g) == Jumps(v, frames, f, g)
             next == [f \in D |-> IF f < m THEN last[f]
                                  ELSE IF J(f, last[f - 1]) THEN f ELSE last[f - 1]]
  <2>3. ASSUME NEW f \in D
        PROVE  next[f] = IF J(f, last[f - 1]) THEN f ELSE last[f - 1]
    <3>1. CASE f < m
      <4>1. f \in frames \cap 1..(m - 1)
        BY <2>1, <3>1
      <4> QED
        BY <2>2, <3>1, <4>1 DEF FilteredTo
    <3>2. CASE ~ (f < m)
      BY <3>2
    <3> QED
      BY <3>1, <3>2
  <2>4. ASSUME NEW f \in D, f - 1 \in frames PROVE next[f - 1] = last[f - 1]
    BY <2>1, <2>4
  <2>5. ASSUME NEW f \in D
        PROVE  next[f] = IF J(f, next[f - 1]) THEN f ELSE next[f - 1]
    <3>1. CASE f - 1 \in frames
      BY <2>3, <2>4, <3>1
    <3>2. CASE f - 1 \notin frames
      <4>1. J(f, next[f - 1]) /\ J(f, last[f - 1])
        BY <3>2 DEF Jumps
      <4> HIDE DEF J, next
      <4> QED
        BY <2>3, <4>1
    <3> QED
      BY <3>1, <3>2
  <2>6. next = [f \in D |-> IF J(f, next[f - 1]) THEN f ELSE next[f - 1]]
    <3> DEFINE again == [f \in D |-> IF J(f, next[f - 1]) THEN f ELSE next[f - 1]]
    <3>1. DOMAIN next = D /\ next = [f \in D |-> next[f]]
      OBVIOUS
    <3> HIDE DEF J, next
    <3> QED
      BY <2>5, <3>1
  <2>7. FilteredTo(v, frames, next, m)
    <3> HIDE DEF next
    <3> QED
      BY <2>6 DEF FilteredTo
  <2> QED
    BY <2>7 DEF Reached
<1> QED
  BY <1>3, <1>4

\* What the filter computes, frame by frame.
LEMMA LastKeptIs ==
  ASSUME NEW v, NEW n \in Nat, NEW frames \in SUBSET (1..n)
  PROVE  \A f \in frames :
           LastKept(v, frames)[f] = IF Jumps(v, frames, f, LastKept(v, frames)[f - 1])
                                    THEN f ELSE LastKept(v, frames)[f - 1]
<1> DEFINE Fits(last) == last = [f \in frames |-> IF Jumps(v, frames, f, last[f - 1])
                                                  THEN f ELSE last[f - 1]]
<1>1. frames \cap 1..n = frames /\ frames \in SUBSET (Nat \ {0})
  <2>1. \A f \in 1..n : f \in Nat \ {0}
    OBVIOUS
  <2> QED
    BY <2>1, Zenon
<1>2. \E last : Fits(last)
  <2>1. PICK last : FilteredTo(v, frames, last, n)
    BY <1>1, FilterComesToAll
  <2>2. Fits(last)
    BY <1>1, <2>1 DEF FilteredTo
  <2> QED
    BY <2>2
<1>3. LastKept(v, frames) = CHOOSE last : Fits(last)
  BY DEF LastKept, Jumps
<1> HIDE DEF Fits
<1>4. Fits(LastKept(v, frames))
  BY <1>2, <1>3
<1>5. \A last : Fits(last) => \A f \in frames :
        last[f] = IF Jumps(v, frames, f, last[f - 1]) THEN f ELSE last[f - 1]
  BY DEF Fits
<1> QED
  BY <1>4, <1>5

\* The last frame kept when the filter comes to a frame: that frame, or one before
\* it, itself kept, that the frame does not jump from.
LEMMA LastKeptSound ==
  ASSUME NEW v, NEW n \in Nat, NEW frames \in SUBSET (1..n), NEW f \in frames
  PROVE  LET g == LastKept(v, frames)[f] IN
           /\ g \in frames /\ g <= f /\ LastKept(v, frames)[g] = g
           /\ g = f \/ ~ Jumps(v, frames, f, g)
<1> DEFINE last == LastKept(v, frames)
           Sound(e) == /\ last[e] \in frames /\ last[e] <= e /\ last[last[e]] = last[e]
                       /\ last[e] = e \/ ~ Jumps(v, frames, e, last[e])
           T == {e \in frames : ~ Sound(e)}
<1>1. \A e \in frames : last[e] = IF Jumps(v, frames, e, last[e - 1]) THEN e ELSE last[e - 1]
  BY LastKeptIs
<1>2. \A e \in frames : e \in Nat
  OBVIOUS
<1> HIDE DEF last
<1>3. SUFFICES ASSUME T # {} PROVE FALSE
  BY DEF last
<1>4. PICK m \in T : \A e \in T : m <= e
  <2>1. T \in SUBSET Nat
    BY <1>2
  <2> HIDE DEF T
  <2> QED
    BY <1>3, <2>1, LeastOne
<1>5. m \in frames /\ m \in Nat /\ ~ Sound(m)
  BY <1>2, <1>4
<1>6. CASE Jumps(v, frames, m, last[m - 1])
  BY <1>1, <1>5, <1>6
<1>7. CASE ~ Jumps(v, frames, m, last[m - 1])
  <2>1. last[m] = last[m - 1] /\ m - 1 \in frames
    BY <1>1, <1>5, <1>7 DEF Jumps
  <2>2. m - 1 \notin T
    BY <1>4, <1>5, <2>1, <1>2
  <2>3. Sound(m - 1)
    BY <2>1, <2>2
  <2>4. last[m] \in frames /\ last[m] <= m - 1 /\ last[last[m]] = last[m]
    BY <2>1, <2>3
  <2>5. last[m] <= m
    <3> HIDE DEF T
    <3>1. last[m] \in Nat
      BY <1>2, <2>4
    <3> QED
      BY <1>5, <2>4, <3>1
  <2> QED
    BY <1>5, <1>7, <2>1, <2>4, <2>5
<1> QED
  BY <1>6, <1>7

\* A frame that is not kept has one like it that is: before it, by less than the
\* gap, and within the threshold.
LikeIt(v, f, g) ==
  /\ g <= f
  /\ TickOf(v, f) - TickOf(v, g) < AtLeast(1, MaxGapSeconds * v.fps)
  /\ Distance(v.look[f], v.look[g]) <= HashThreshold

LEMMA DistinctIsLike ==
  ASSUME NEW v, VideoTyped(v), NEW frames \in SUBSET Frame(v), NEW f \in frames
  PROVE  \E g \in Distinct(v, frames) : LikeIt(v, f, g)
<1> DEFINE g == LastKept(v, frames)[f]
<1>1. /\ Frame(v) = 1..Len(v.look) /\ Len(v.look) \in Nat
      /\ \A e \in Frame(v) : v.look[e] \in Nat /\ TickOf(v, e) \in Nat
      /\ v.fps \in Nat
  BY VideoNumbers
<1>2. /\ g \in frames /\ g <= f /\ LastKept(v, frames)[g] = g
      /\ g = f \/ ~ Jumps(v, frames, f, g)
  BY <1>1, LastKeptSound
<1> HIDE DEF g
<1>3. g \in Distinct(v, frames)
  BY <1>2 DEF Distinct
<1>4. MaxGapSeconds * v.fps \in Nat /\ HashThreshold \in Nat
  BY <1>1, EvidenceNumbers
<1>5. /\ v.look[f] \in Nat /\ v.look[g] \in Nat
      /\ TickOf(v, f) \in Nat /\ TickOf(v, g) \in Nat
  BY <1>1, <1>2
<1>6. CASE g = f
  BY <1>2, <1>3, <1>4, <1>5, <1>6 DEF LikeIt, AtLeast, Distance
<1>7. CASE ~ Jumps(v, frames, f, g)
  BY <1>2, <1>3, <1>4, <1>5, <1>7 DEF LikeIt, AtLeast, Distance, Jumps
<1> QED
  BY <1>2, <1>6, <1>7

\* Every frame that is kept has a cell of its batch's sheet.
LEMMA AllOnSheet ==
  ASSUME NEW k \in Nat
  PROVE  OnSheet(k)
<1>1. (k - 1) % BatchSize \in 0..(BatchSize - 1)
  BY EvidenceNumbers
<1> QED
  BY <1>1, EvidenceNumbers DEF OnSheet

-----------------------------------------------------------------------------
(* Segments *)

\* What a quotient of natural numbers is, and how a bound on it follows.
LEMMA Quotient ==
  ASSUME NEW a \in Nat, NEW b \in Nat \ {0}
  PROVE  /\ a \div b \in Nat
         /\ b * (a \div b) <= a /\ a < b * ((a \div b) + 1)
  OBVIOUS

LEMMA Product ==
  ASSUME NEW b \in Nat \ {0}, NEW p \in Nat, NEW q \in Nat
  PROVE  /\ b * p \in Nat
         /\ p <= q => b * p <= b * q
         /\ b * p < b * q => p < q
         /\ b * p <= b * q => p <= q
         /\ p <= b * p
  OBVIOUS

LEMMA QuotientAtLeast ==
  ASSUME NEW a \in Nat, NEW b \in Nat \ {0}, NEW q \in Nat, b * q <= a
  PROVE  q <= a \div b
<1>1. a \div b \in Nat /\ a < b * ((a \div b) + 1)
  BY Quotient
<1>2. (a \div b) + 1 \in Nat /\ b * ((a \div b) + 1) \in Nat /\ b * q \in Nat
  BY <1>1, Product
<1>3. b * q < b * ((a \div b) + 1)
  BY <1>1, <1>2
<1>4. q < (a \div b) + 1
  BY <1>2, <1>3, Product
<1> QED
  BY <1>1, <1>4

LEMMA QuotientAtMost ==
  ASSUME NEW a \in Nat, NEW b \in Nat \ {0}, NEW q \in Nat, a < b * (q + 1)
  PROVE  a \div b <= q
<1>1. a \div b \in Nat /\ b * (a \div b) <= a
  BY Quotient
<1>2. q + 1 \in Nat /\ b * (q + 1) \in Nat /\ b * (a \div b) \in Nat
  BY <1>1, Product
<1>3. b * (a \div b) < b * (q + 1)
  BY <1>1, <1>2
<1>4. a \div b < q + 1
  BY <1>1, <1>2, <1>3, Product
<1> QED
  BY <1>1, <1>4

\* The end of the request's range is at most as late as the extraction may take.
LEMMA RangeEnds ==
  ASSUME NEW v, VideoTyped(v)
  PROVE  EndBound(v) \in Nat /\ EndBound(v) <= MaxTicks + 1
<1>1. v.ticks \in 0..MaxTicks /\ v.ticks \in Nat /\ v.fps \in Nat \ {0} /\ MaxTicks \in Nat
  BY VideoNumbers, EvidenceNumbers
<1>2. v.ticks \div v.fps \in Nat /\ v.ticks \div v.fps <= v.ticks
  <2>1. v.ticks + 1 <= v.fps * (v.ticks + 1)
    BY <1>1, Product
  <2>2. v.ticks < v.fps * (v.ticks + 1)
    <3>1. v.fps * (v.ticks + 1) \in Nat
      BY <1>1, Product
    <3> QED
      BY <1>1, <2>1, <3>1
  <2> QED
    BY <1>1, <2>2, Quotient, QuotientAtMost
<1>3. Total(v) \in Nat /\ Total(v) <= MaxTicks + 1
  BY <1>1, <1>2 DEF Total, AtLeast
<1>4. v.to = NoEnd \/ v.to \in Nat
  BY DEF VideoTyped
<1> QED
  BY <1>1, <1>3, <1>4 DEF EndBound, AtMost

LEMMA SegmentsCount ==
  ASSUME NEW v, VideoTyped(v), EndBound(v) > v.from
  PROVE  SegmentCount(v) \in 1..(MaxTicks + 1)
<1> DEFINE d == EndBound(v) - v.from
           a == EndBound(v) - v.from + SegmentSeconds - 1
<1>1. SegmentSeconds \in Nat \ {0} /\ MaxTicks \in Nat /\ v.from \in Nat
  BY VideoNumbers, EvidenceNumbers
<1>2. d \in Nat \ {0} /\ d <= MaxTicks + 1 /\ a \in Nat /\ a = d + SegmentSeconds - 1
  BY <1>1, RangeEnds
<1>3. SegmentSeconds * 1 <= a
  BY <1>1, <1>2
<1>4. 1 <= a \div SegmentSeconds
  BY <1>1, <1>2, <1>3, QuotientAtLeast
<1>5. a \div SegmentSeconds <= d
  <2>1. d <= SegmentSeconds * d /\ SegmentSeconds * d \in Nat
    BY <1>1, <1>2, Product
  <2>2. SegmentSeconds * (d + 1) = SegmentSeconds * d + SegmentSeconds
    BY <1>1, <1>2
  <2>3. a < SegmentSeconds * (d + 1)
    <3> HIDE DEF a, d
    <3> QED
      BY <1>1, <1>2, <2>1, <2>2
  <2> QED
    BY <1>1, <1>2, <2>3, QuotientAtMost
<1>6. a \div SegmentSeconds \in Nat
  BY <1>1, <1>2, Quotient
<1>7. SegmentCount(v) = a \div SegmentSeconds
  BY DEF SegmentCount
<1> HIDE DEF a, d
<1> QED
  BY <1>1, <1>2, <1>4, <1>5, <1>6, <1>7

\* The ticks of a segment, counted from the start of the extraction.
LEMMA SegmentTicks ==
  ASSUME NEW v, VideoTyped(v), NEW i \in Nat \ {0}, NEW f \in Frame(v)
  PROVE  LET D == SegmentSeconds * v.fps IN
           /\ Segment(v, i).from * v.fps <= TickOf(v, f) <=> D * (i - 1) <= f - 1
           /\ TickOf(v, f) <= (v.from + i * SegmentSeconds) * v.fps <=> f - 1 <= D * i
<1> DEFINE D == SegmentSeconds * v.fps
<1>1. v.fps \in Nat /\ v.from \in Nat /\ SegmentSeconds \in Nat /\ i \in Nat /\ f \in Nat
  BY VideoNumbers, EvidenceNumbers
<1>2. D \in Nat /\ v.from * v.fps \in Nat /\ D * i \in Nat /\ D * (i - 1) \in Int
  BY <1>1
<1>3. (v.from + (i - 1) * SegmentSeconds) * v.fps = v.from * v.fps + D * (i - 1)
  BY <1>1
<1>4. (v.from + i * SegmentSeconds) * v.fps = v.from * v.fps + D * i
  BY <1>1
<1>5. TickOf(v, f) = v.from * v.fps + (f - 1)
  BY DEF TickOf
<1>6. Segment(v, i).from = v.from + (i - 1) * SegmentSeconds
  BY DEF Segment
<1> HIDE DEF D
<1>7. Segment(v, i).from * v.fps <= TickOf(v, f) <=> D * (i - 1) <= f - 1
  BY <1>1, <1>2, <1>3, <1>5, <1>6
<1>8. TickOf(v, f) <= (v.from + i * SegmentSeconds) * v.fps <=> f - 1 <= D * i
  BY <1>1, <1>2, <1>4, <1>5
<1> QED
  BY <1>7, <1>8 DEF D

\* No frame of the range falls between two segments.
LEMMA SegmentsCover ==
  ASSUME NEW v, VideoTyped(v), EndBound(v) > v.from, NEW f \in Frame(v),
         TickOf(v, f) <= EndBound(v) * v.fps
  PROVE  \E i \in 1..SegmentCount(v) : f \in FramesIn(v, i)
<1> DEFINE D == SegmentSeconds * v.fps
           d == EndBound(v) - v.from
           T == {i \in Nat \ {0} : f - 1 <= D * i}
<1>1. /\ v.fps \in Nat \ {0} /\ v.from \in Nat /\ SegmentSeconds \in Nat \ {0}
      /\ f \in Nat \ {0} /\ EndBound(v) \in Nat /\ SegmentCount(v) \in Nat
  BY VideoNumbers, EvidenceNumbers, RangeEnds, SegmentsCount
<1>2. D \in Nat \ {0} /\ d \in Nat \ {0}
  BY <1>1, Product
<1>3. f \in T
  <2>1. f <= D * f /\ D * f \in Nat
    BY <1>1, <1>2, Product
  <2> HIDE DEF D
  <2> QED
    BY <1>1, <2>1
<1>4. PICK i \in T : \A j \in T : i <= j
  <2>1. T \in SUBSET Nat
    OBVIOUS
  <2> HIDE DEF T
  <2> QED
    BY <1>3, <2>1, LeastOne
<1>5. i \in Nat \ {0} /\ f - 1 <= D * i
  BY <1>4
<1>6. i = 1 \/ D * (i - 1) < f - 1
  <2>1. SUFFICES ASSUME i # 1 PROVE D * (i - 1) < f - 1
    OBVIOUS
  <2>2. i - 1 \in Nat \ {0} /\ ~ (i <= i - 1)
    BY <1>5, <2>1
  <2>3. ~ (f - 1 <= D * (i - 1))
    BY <1>4, <2>2
  <2>4. D * (i - 1) \in Nat
    BY <1>2, <2>2, Product
  <2> HIDE DEF D
  <2> QED
    BY <1>1, <2>3, <2>4
<1>7. D * (i - 1) <= f - 1
  <2>1. D * 0 = 0
    BY <1>2
  <2>2. D * (i - 1) \in Nat
    BY <1>2, <1>5, Product
  <2>3. i = 1 => D * (i - 1) = 0
    BY <2>1
  <2> HIDE DEF D
  <2> QED
    BY <1>1, <1>6, <2>2, <2>3
<1>8. f - 1 <= d * v.fps
  <2>1. EndBound(v) * v.fps = v.from * v.fps + d * v.fps
    BY <1>1
  <2>2. TickOf(v, f) = v.from * v.fps + (f - 1)
    BY DEF TickOf
  <2>3. v.from * v.fps \in Nat /\ d * v.fps \in Nat
    BY <1>1, <1>2
  <2> HIDE DEF d
  <2> QED
    BY <1>1, <2>1, <2>2, <2>3
<1>9. i <= SegmentCount(v)
  <2> DEFINE a == EndBound(v) - v.from + SegmentSeconds - 1
  <2>1. SegmentSeconds * (i - 1) < d
    <3>1. CASE i = 1
      <4>1. SegmentSeconds * (i - 1) = 0
        BY <1>1, <3>1
      <4> QED
        BY <1>2, <4>1
    <3>2. CASE i # 1
      <4>1. D * (i - 1) = v.fps * (SegmentSeconds * (i - 1))
        BY <1>1, <1>5
      <4>2. d * v.fps = v.fps * d
        BY <1>1, <1>2
      <4>3. i - 1 \in Nat /\ SegmentSeconds * (i - 1) \in Nat
        BY <1>1, <1>5, Product
      <4>4. v.fps * (SegmentSeconds * (i - 1)) \in Nat /\ v.fps * d \in Nat
        BY <1>1, <1>2, <4>3, Product
      <4>5. v.fps * (SegmentSeconds * (i - 1)) < v.fps * d
        <5>1. D * (i - 1) < f - 1 /\ f - 1 <= d * v.fps
          BY <1>6, <1>8, <3>2
        <5> HIDE DEF D, d
        <5> QED
          BY <1>1, <4>1, <4>2, <4>4, <5>1
      <4> HIDE DEF d
      <4> QED
        BY <1>1, <1>2, <4>3, <4>5, Product
    <3> QED
      BY <3>1, <3>2
  <2>2. a \in Nat /\ a = d + SegmentSeconds - 1
    BY <1>1, <1>2
  <2>3. SegmentSeconds * i = SegmentSeconds * (i - 1) + SegmentSeconds
        /\ SegmentSeconds * (i - 1) \in Nat
    BY <1>1, <1>5, Product
  <2>4. SegmentSeconds * i <= a
    <3> HIDE DEF a, d
    <3> QED
      BY <1>1, <1>2, <2>1, <2>2, <2>3
  <2>5. i <= a \div SegmentSeconds
    BY <1>1, <1>5, <2>2, <2>4, QuotientAtLeast
  <2> QED
    BY <2>5 DEF SegmentCount
<1>10. f \in FramesIn(v, i)
  <2>1. Segment(v, i).from * v.fps <= TickOf(v, f)
    BY <1>5, <1>7, SegmentTicks
  <2>2. TickOf(v, f) <= (v.from + i * SegmentSeconds) * v.fps
    BY <1>5, SegmentTicks
  <2>3. Segment(v, i).to = v.from + i * SegmentSeconds \/ Segment(v, i).to = EndBound(v)
    BY DEF Segment, AtMost
  <2>4. TickOf(v, f) <= Segment(v, i).to * v.fps
    BY <2>2, <2>3
  <2> QED
    BY <2>1, <2>4 DEF FramesIn
<1> QED
  BY <1>1, <1>5, <1>9, <1>10

-----------------------------------------------------------------------------
(* The report *)

FindingRecord == [severity : Severity, category : Category, text : Text]

LEMMA NormalTyped ==
  ASSUME NEW raw \in RawFinding
  PROVE  Normal(raw) \in FindingRecord
<1>1. PolicySeverity[raw.category] \in Severity /\ EthicsCategory \in Category
  BY EvidenceAssumption DEF RawFinding
<1> QED
  BY <1>1 DEF Normal, RawFinding, FindingRecord, Severity

\* The values of a function on a finite set are finitely many, and no more than it has.
LEMMA ValuesAreFinite ==
  ASSUME NEW S, IsFiniteSet(S), NEW g, g = [x \in S |-> g[x]]
  PROVE  IsFiniteSet({g[x] : x \in S}) /\ Cardinality({g[x] : x \in S}) <= Cardinality(S)
<1> DEFINE V == {g[x] : x \in S}
<1>1. g \in Surjection(S, V)
  <2>1. g \in [S -> V]
    OBVIOUS
  <2> QED
    BY <2>1 DEF Surjection
<1> HIDE DEF V
<1>2. IsFiniteSet(V) /\ Cardinality(V) <= Cardinality(S)
  BY <1>1, FS_Surjection
<1> QED
  BY <1>2 DEF V

\* Deduplication keeps findings that there are, finitely many, at least one if
\* there is any, and one of every key.
LEMMA DedupedKeeps ==
  ASSUME NEW fs \in Seq(FindingRecord)
  PROVE  /\ Deduped(fs) \subseteq FindingRecord /\ IsFiniteSet(Deduped(fs))
         /\ Deduped(fs) = {} <=> fs = <<>>
         /\ \A k \in DOMAIN fs : \E f \in Deduped(fs) : Key(f) = Key(fs[k])
<1> DEFINE First == {n \in DOMAIN fs : \A j \in 1..(n - 1) : Key(fs[j]) # Key(fs[n])}
<1>1. DOMAIN fs = 1..Len(fs) /\ Len(fs) \in Nat /\ \A k \in DOMAIN fs : fs[k] \in FindingRecord
  OBVIOUS
<1>2. Deduped(fs) = {fs[k] : k \in First}
  BY DEF Deduped
<1>3. Deduped(fs) \subseteq FindingRecord
  BY <1>1, <1>2
<1>4. IsFiniteSet(Deduped(fs))
  <2>1. IsFiniteSet(1..Len(fs))
    BY <1>1, FS_Interval
  <2>2. IsFiniteSet(First)
    BY <1>1, <2>1, FS_Subset
  <2> DEFINE g == [k \in First |-> fs[k]]
  <2> HIDE DEF First
  <2>3. g = [k \in First |-> g[k]] /\ Deduped(fs) = {g[k] : k \in First}
    BY <1>2
  <2> HIDE DEF g
  <2> QED
    BY <2>2, <2>3, ValuesAreFinite
<1>5. ASSUME NEW k \in DOMAIN fs PROVE \E f \in Deduped(fs) : Key(f) = Key(fs[k])
  <2> DEFINE T == {n \in DOMAIN fs : Key(fs[n]) = Key(fs[k])}
  <2>1. PICK n \in T : \A m \in T : n <= m
    <3>1. T \in SUBSET Nat /\ k \in T
      BY <1>1
    <3> HIDE DEF T
    <3> QED
      BY <3>1, LeastOne
  <2>2. n \in First
    <3>1. ASSUME NEW j \in 1..(n - 1) PROVE Key(fs[j]) # Key(fs[n])
      <4>1. j \in DOMAIN fs /\ ~ (n <= j)
        BY <1>1
      <4> QED
        BY <2>1, <4>1
    <3> QED
      BY <3>1
  <2> QED
    BY <1>2, <2>1, <2>2
<1>6. Deduped(fs) = {} <=> fs = <<>>
  <2>1. fs # <<>> => 1 \in DOMAIN fs
    BY <1>1
  <2>2. fs = <<>> => DOMAIN fs = {}
    OBVIOUS
  <2>3. fs = <<>> => Deduped(fs) = {}
    BY <2>2 DEF Deduped
  <2> QED
    BY <1>5, <2>1, <2>3
<1> QED
  BY <1>3, <1>4, <1>5, <1>6

\* The score is one, and a finding of high severity alone makes it high enough.
LEMMA RiskIsScored ==
  ASSUME NEW fs \in SUBSET FindingRecord, IsFiniteSet(fs)
  PROVE  /\ RiskScore(fs) \in 0..100
         /\ "high" \in Severities(fs) => RiskScore(fs) >= 75
<1> DEFINE S == {SeverityScore[x] : x \in Severities(fs)} \cup {0}
           Bound(s) == \A x \in Severities(fs) : SeverityScore[x] <= s
           worst == CHOOSE s \in S : Bound(s)
           c == Cardinality(fs)
           repeated == Cardinality(fs) - Cardinality({f.category : f \in fs})
<1>1. Severities(fs) \subseteq Severity
  BY DEF Severities, FindingRecord
<1>2. /\ SeverityScore["low"] = 20 /\ SeverityScore["medium"] = 45
      /\ SeverityScore["high"] = 75 /\ SeverityScore["critical"] = 95
  BY DEF SeverityScore
<1>3. \E s \in S : Bound(s)
  <2>1. CASE "critical" \in Severities(fs)
    <3>1. 95 \in S /\ Bound(95)
      BY <1>1, <1>2, <2>1 DEF Severity
    <3> QED
      BY <3>1
  <2>2. CASE "critical" \notin Severities(fs) /\ "high" \in Severities(fs)
    <3>1. 75 \in S /\ Bound(75)
      BY <1>1, <1>2, <2>2 DEF Severity
    <3> QED
      BY <3>1
  <2>3. CASE {"critical", "high"} \cap Severities(fs) = {} /\ "medium" \in Severities(fs)
    <3>1. 45 \in S /\ Bound(45)
      BY <1>1, <1>2, <2>3 DEF Severity
    <3> QED
      BY <3>1
  <2>4. CASE {"critical", "high", "medium"} \cap Severities(fs) = {} /\ "low" \in Severities(fs)
    <3>1. 20 \in S /\ Bound(20)
      BY <1>1, <1>2, <2>4 DEF Severity
    <3> QED
      BY <3>1
  <2>5. CASE Severities(fs) = {}
    <3>1. 0 \in S /\ Bound(0)
      BY <2>5
    <3> QED
      BY <3>1
  <2> QED
    BY <1>1, <2>1, <2>2, <2>3, <2>4, <2>5 DEF Severity
<1>4. worst \in S /\ Bound(worst)
  <2> HIDE DEF S, Bound
  <2> QED
    BY <1>3
<1>5. S \subseteq 0..95
  BY <1>1, <1>2 DEF Severity
<1>6. c \in Nat /\ repeated \in Nat
  <2>1. /\ IsFiniteSet({f.category : f \in fs})
        /\ Cardinality({f.category : f \in fs}) <= Cardinality(fs)
    <3> DEFINE g == [f \in fs |-> f.category]
    <3>1. g = [f \in fs |-> g[f]] /\ {f.category : f \in fs} = {g[f] : f \in fs}
      OBVIOUS
    <3> HIDE DEF g
    <3> QED
      BY <3>1, ValuesAreFinite
  <2> QED
    BY <2>1, FS_CardinalityType
<1>7. RiskScore(fs) = AtMost(100, worst + AtMost(15, 2 * c) + AtMost(10, repeated))
  BY DEF RiskScore
<1>8. AtMost(15, 2 * c) \in Nat /\ AtMost(10, repeated) \in Nat
  <2> HIDE DEF c, repeated
  <2> QED
    BY <1>6 DEF AtMost
<1>9. worst \in Nat /\ ("high" \in Severities(fs) => worst >= 75)
  <2>1. worst \in 0..95
    BY <1>4, <1>5
  <2>2. "high" \in Severities(fs) => 75 <= worst
    BY <1>2, <1>4
  <2> HIDE DEF worst
  <2> QED
    BY <2>1, <2>2
<1> HIDE DEF worst, c, repeated
<1> QED
  BY SMTT(30), <1>7, <1>8, <1>9 DEF AtMost

\* The decision rejects exactly if there is a finding that blocks, and passes
\* exactly if there is none at all.
LEMMA DecisionAgrees ==
  ASSUME NEW fs \in SUBSET FindingRecord, IsFiniteSet(fs)
  PROVE  LET d == Decide(fs, RiskScore(fs)) IN
           /\ d \in {"pass", "warn", "manual_review", "reject"}
           /\ d = "reject" <=> \E f \in fs : f.severity \in {"critical", "high"}
           /\ d = "pass" <=> fs = {}
<1> DEFINE sc == RiskScore(fs)
           Sev == Severities(fs)
<1>1. sc \in Int /\ ("high" \in Sev => sc >= 75)
  BY RiskIsScored
<1>2. Sev \subseteq Severity
  BY DEF Severities, FindingRecord
<1>3. (\E f \in fs : f.severity \in {"critical", "high"}) <=> "critical" \in Sev \/ "high" \in Sev
  BY DEF Severities
<1>4. fs = {} <=> Sev = {}
  BY DEF Severities
<1> HIDE DEF sc, Sev
<1>5. CASE "critical" \in Sev
  <2>1. Decide(fs, sc) = "reject"
    BY <1>5 DEF Decide, Sev
  <2> QED
    BY <1>3, <1>4, <1>5, <2>1 DEF sc
<1>6. CASE "critical" \notin Sev /\ "high" \in Sev
  <2>1. Decide(fs, sc) = "reject"
    BY <1>1, <1>6 DEF Decide, Sev
  <2> QED
    BY <1>3, <1>4, <1>6, <2>1 DEF sc
<1>7. CASE "critical" \notin Sev /\ "high" \notin Sev /\ "medium" \in Sev
  <2>1. Sev \subseteq {"low", "medium"}
    BY <1>2, <1>7 DEF Severity
  <2>2. Decide(fs, sc) \in {"manual_review", "warn"}
    BY <1>7, <2>1 DEF Decide, Sev
  <2> QED
    BY <1>3, <1>4, <1>7, <2>2 DEF sc
<1>8. CASE {"critical", "high", "medium"} \cap Sev = {}
  <2>1. Decide(fs, sc) = IF fs = {} THEN "pass" ELSE "warn"
    BY <1>8 DEF Decide, Sev
  <2> QED
    BY <1>3, <1>4, <1>8, <2>1 DEF sc
<1> QED
  BY <1>5, <1>6, <1>7, <1>8

-----------------------------------------------------------------------------
(* The invariant *)

\* Segments are scanned in order, and a plan that fails scans none.
ScanTyped ==
  /\ VideoTyped(video)
  /\ phase \in {"new", "plan", "scan", "judge", "report", "served", "failed"}
  /\ scanned \in 0..(MaxTicks + 1)
  /\ shown \subseteq (1..(MaxTicks + 1)) \X (1..(MaxTicks + 1))
  /\ phase \in {"new", "plan"} => scanned = 0
  /\ phase = "scan" => EndBound(video) > video.from /\ scanned <= SegmentCount(video)

\* The frames of segment i were sent, or one like each.
SeenIn(v, i, sent) ==
  \A f \in FramesIn(v, i) : \E s \in sent : s[1] = i /\ LikeIt(v, f, s[2])

\* So were those of the segments scanned so far.
ScanSeen == phase = "scan" => \A i \in 1..scanned : SeenIn(video, i, shown)

ReportOf(fs)  == [findings |-> fs, score |-> RiskScore(fs), decision |-> Decide(fs, RiskScore(fs))]
ServedAs(rep) == [final  |-> DecisionLabel[rep.decision],
                  frames |-> {FindingLabel(f) : f \in rep.findings}]

\* The report is of the findings as they are when it is built, and the result of it.
ReportSound ==
  /\ findings \in Seq(FindingRecord)
  /\ phase \in {"report", "served"} => verdict = ReportOf(Deduped(findings))
  /\ phase = "served" => served = ServedAs(verdict)
  /\ verdict.score \in 0..100
  /\ verdict.decision \in {"pass", "warn", "manual_review", "reject"}
  /\ served.final \in {"", "PASS", "REVIEW", "BLOCK"}

EvidenceInv == ScanTyped /\ ScanSeen /\ ReportSound

LEMMA NoVideoTyped == VideoTyped(NoVideo0)
<1>1. 0 \in 0..MaxTicks
  BY EvidenceNumbers
<1>2. <<>> \in Seq(Look) /\ Len(<<>>) = 0
  OBVIOUS
<1> QED
  BY <1>1, <1>2 DEF VideoTyped, NoVideo0

LEMMA EvidenceInitSound == EvidenceInit => EvidenceInv
<1> SUFFICES ASSUME EvidenceInit PROVE EvidenceInv
  OBVIOUS
<1>1. ScanTyped
  BY NoVideoTyped, EvidenceNumbers DEF EvidenceInit, ScanTyped
<1>2. ScanSeen
  BY DEF EvidenceInit, ScanSeen
<1>3. ReportSound
  <2>1. findings = <<>> /\ <<>> \in Seq(FindingRecord)
    BY DEF EvidenceInit
  <2>2. /\ phase = "new" /\ verdict.score = 0 /\ verdict.decision = "pass" /\ served.final = ""
    BY DEF EvidenceInit, NoReport, Unserved
  <2>3. served.final \in {"", "PASS", "REVIEW", "BLOCK"}
    BY <2>2
  <2>4. verdict.score \in 0..100
    <3>1. 0 \in 0..100
      OBVIOUS
    <3> QED
      BY <2>2, <3>1, Zenon
  <2>5. verdict.decision \in {"pass", "warn", "manual_review", "reject"}
    BY <2>2
  <2> QED
    BY <2>1, <2>2, <2>3, <2>4, <2>5 DEF ReportSound
<1> QED
  BY <1>1, <1>2, <1>3 DEF EvidenceInv

\* A video as it is extracted.
LEMMA ExtractedTyped ==
  ASSUME ScanTyped, ExtractFrames
  PROVE  VideoTyped(video')
<1>p. PICK ticks \in 0..MaxTicks, fps \in FrameRate, from \in FromSecond,
           to \in ToSecond \cup {NoEnd} :
        \E n \in 0..(ticks + 1) : \E look \in [1..n -> Look] :
          video' = [ticks |-> ticks, fps |-> fps, from |-> from, to |-> to, look |-> look]
  BY DEF ExtractFrames
<1>q. PICK n \in 0..(ticks + 1) : \E look \in [1..n -> Look] :
        video' = [ticks |-> ticks, fps |-> fps, from |-> from, to |-> to, look |-> look]
  BY <1>p
<1>1. PICK look \in [1..n -> Look] :
        video' = [ticks |-> ticks, fps |-> fps, from |-> from, to |-> to, look |-> look]
  BY <1>q
<1>2. n \in Nat /\ n <= ticks + 1
  BY EvidenceNumbers
<1>3. look \in Seq(Look) /\ Len(look) = n
  BY <1>2
<1>4. from \in Nat /\ to \in Nat \cup {NoEnd}
  BY EvidenceNumbers
<1> QED
  BY <1>1, <1>2, <1>3, <1>4 DEF VideoTyped

LEMMA ScanMoves ==
  ASSUME EvidenceInv, Scan
  PROVE  ScanTyped' /\ ScanSeen'
<1> DEFINE i == scanned + 1
           frames == FramesIn(video, i)
           kept == Distinct(video, frames)
<1>v. /\ VideoTyped(video) /\ phase = "scan" /\ EndBound(video) > video.from
      /\ scanned \in Nat /\ scanned < SegmentCount(video)
      /\ shown \subseteq (1..(MaxTicks + 1)) \X (1..(MaxTicks + 1))
      /\ scanned \in 0..(MaxTicks + 1)
      /\ UNCHANGED video
  BY EvidenceNumbers DEF Scan, EvidenceInv, ScanTyped
<1>1. CASE frames = {}
  <2>1. phase' = "failed" /\ UNCHANGED <<scanned, shown, video>>
    BY <1>1 DEF Scan
  <2> QED
    BY <1>v, <2>1 DEF ScanTyped, ScanSeen
<1>2. CASE frames # {}
  <2>1. /\ scanned' = i /\ phase' = "scan"
        /\ shown' = shown \cup
             {<<i, f>> : f \in {g \in kept : OnSheet(Cardinality(kept \cap 1..g))}}
    BY <1>2, <1>v DEF Scan
  <2>2. SegmentCount(video) \in 1..(MaxTicks + 1) /\ i \in 1..SegmentCount(video)
        /\ i \in 1..(MaxTicks + 1) /\ MaxTicks \in Nat
    <3>1. SegmentCount(video) \in 1..(MaxTicks + 1) /\ MaxTicks \in Nat
      BY <1>v, SegmentsCount, EvidenceNumbers
    <3> QED
      BY <1>v, <3>1
  <2>3. frames \subseteq Frame(video) /\ kept \subseteq frames
        /\ Frame(video) \subseteq 1..(MaxTicks + 1) /\ Frame(video) = 1..Len(video.look)
        /\ Len(video.look) \in Nat
    BY <1>v, VideoNumbers DEF FramesIn, Distinct
  <2> HIDE DEF kept, frames
  <2>4. ASSUME NEW g \in kept PROVE OnSheet(Cardinality(kept \cap 1..g))
    <3>1. IsFiniteSet(1..Len(video.look))
      BY <2>3, FS_Interval
    <3>2. kept \cap 1..g \subseteq 1..Len(video.look)
      BY <2>3
    <3>3. IsFiniteSet(kept \cap 1..g)
      BY <3>1, <3>2, FS_Subset
    <3> QED
      BY <3>3, FS_CardinalityType, AllOnSheet
  <2>5. shown' = shown \cup {<<i, f>> : f \in kept}
    BY <2>1, <2>4
  <2>6. ScanTyped'
    <3>1. shown' \subseteq (1..(MaxTicks + 1)) \X (1..(MaxTicks + 1))
      BY <1>v, <2>2, <2>3, <2>5
    <3>2. i \in 0..(MaxTicks + 1) /\ i <= SegmentCount(video)
      BY <2>2
    <3> QED
      BY <1>v, <2>1, <3>1, <3>2 DEF ScanTyped, EndBound, SegmentCount, Total
  <2>7. ASSUME NEW k \in 1..i, NEW f \in FramesIn(video, k)
        PROVE  \E s \in shown' : s[1] = k /\ LikeIt(video, f, s[2])
    <3>1. CASE k = i
      <4>1. frames \in SUBSET Frame(video) /\ f \in frames
        BY <2>3, <3>1 DEF frames
      <4>2. PICK g \in kept : LikeIt(video, f, g)
        BY <1>v, <4>1, DistinctIsLike DEF kept
      <4>3. <<i, g>> \in shown' /\ <<i, g>>[1] = i /\ <<i, g>>[2] = g
        BY <2>5
      <4> QED
        BY <3>1, <4>2, <4>3
    <3>2. CASE k # i
      <4>1. k \in 1..scanned
        BY <1>v, <3>2
      <4>2. \E s \in shown : s[1] = k /\ LikeIt(video, f, s[2])
        BY <1>v, <4>1 DEF EvidenceInv, ScanSeen, SeenIn
      <4> QED
        BY <2>5, <4>2
    <3> QED
      BY <3>1, <3>2
  <2>8. ScanSeen'
    <3>1. \A k \in 1..i : SeenIn(video, k, shown')
      BY <2>7 DEF SeenIn
    <3> QED
      BY <1>v, <2>1, <3>1 DEF ScanSeen
  <2> QED
    BY <2>6, <2>8
<1> QED
  BY <1>1, <1>2

LEMMA EvidenceNextSound == EvidenceInv /\ [EvidenceNext]_evidenceVars => EvidenceInv'
<1> SUFFICES ASSUME EvidenceInv, [EvidenceNext]_evidenceVars PROVE EvidenceInv'
  OBVIOUS
<1> USE DEF EvidenceInv
\* A step that leaves the findings and what was made of them alone.
<1>r. ASSUME UNCHANGED <<findings, verdict, served>>,
             phase' \in {"report", "served"} => phase' = phase
      PROVE  ReportSound'
  BY <1>r DEF ReportSound
\* One that leaves the video alone.
<1>v. ASSUME UNCHANGED <<video, scanned, shown>>, phase' = phase \/ phase' \in {"judge", "report", "served"}
      PROVE  ScanTyped' /\ ScanSeen'
  BY <1>v DEF ScanTyped, ScanSeen
<1>1. CASE ExtractFrames
  <2>1. /\ phase' = "plan" /\ scanned = 0
        /\ UNCHANGED <<scanned, shown, findings, verdict, served>>
    BY <1>1 DEF ExtractFrames, ScanTyped
  <2>2. ScanTyped'
    BY <1>1, <2>1, ExtractedTyped DEF ScanTyped
  <2>3. ScanSeen' /\ ReportSound'
    BY <1>r, <2>1 DEF ScanSeen
  <2> QED
    BY <2>2, <2>3
<1>2. CASE Plan
  <2>1. /\ phase' \in {"failed", "scan"}
        /\ phase' = "scan" => ~ (EndBound(video) <= video.from)
        /\ scanned = 0
        /\ UNCHANGED <<video, scanned, shown, findings, verdict, served>>
    BY <1>2 DEF Plan, ScanTyped
  <2>2. VideoTyped(video) /\ EndBound(video) \in Nat /\ video.from \in Nat
    BY RangeEnds, VideoNumbers DEF ScanTyped
  <2>3. phase' = "scan" => EndBound(video) > video.from /\ scanned <= SegmentCount(video)
    <3>1. SUFFICES ASSUME phase' = "scan" PROVE EndBound(video) > video.from
                                                /\ scanned <= SegmentCount(video)
      OBVIOUS
    <3>2. EndBound(video) > video.from
      BY <2>1, <2>2, <3>1
    <3>3. SegmentCount(video) \in 1..(MaxTicks + 1)
      BY <2>2, <3>2, SegmentsCount
    <3> QED
      BY <2>1, <3>2, <3>3
  <2>4. ScanTyped'
    BY <2>1, <2>3 DEF ScanTyped
  <2>5. ScanSeen' /\ ReportSound'
    BY <1>r, <2>1 DEF ScanSeen
  <2> QED
    BY <2>4, <2>5
<1>3. CASE Scan
  <2>1. ScanTyped' /\ ScanSeen'
    BY <1>3, ScanMoves
  <2>2. phase' \in {"scan", "failed"} /\ UNCHANGED <<findings, verdict, served>>
    BY <1>3 DEF Scan
  <2> QED
    BY <1>r, <2>1, <2>2
<1>4. CASE AllScanned
  <2>1. /\ phase' = "judge" /\ video' = NoVideo0 /\ scanned' = 0 /\ shown' = {}
        /\ UNCHANGED <<findings, verdict, served>>
    BY <1>4 DEF AllScanned
  <2>2. VideoTyped(video')
    BY <2>1, NoVideoTyped
  <2> QED
    BY <1>r, <2>1, <2>2, EvidenceNumbers DEF ScanTyped, ScanSeen
<1>5. CASE Find
  <2>1. phase = "judge" /\ UNCHANGED <<video, phase, scanned, shown, verdict, served>>
    BY <1>5 DEF Find
  <2>2. PICK raw \in RawFinding : findings' = Append(findings, Normal(raw))
    BY <1>5 DEF Find
  <2>3. findings' \in Seq(FindingRecord)
    BY <2>2, NormalTyped, AppendProperties DEF ReportSound
  <2>4. ReportSound'
    BY <2>1, <2>3 DEF ReportSound
  <2> QED
    BY <1>v, <2>1, <2>4
<1>6. CASE BuildReport
  <2> DEFINE fs == Deduped(findings)
  <2>1. /\ phase = "judge" /\ phase' = "report"
        /\ verdict' = ReportOf(Deduped(findings))
        /\ UNCHANGED <<video, scanned, shown, findings, served>>
    BY <1>6 DEF BuildReport, ReportOf
  <2>2. fs \in SUBSET FindingRecord /\ IsFiniteSet(fs)
    BY DedupedKeeps DEF ReportSound
  <2> HIDE DEF fs
  <2>3. RiskScore(fs) \in 0..100
        /\ Decide(fs, RiskScore(fs)) \in {"pass", "warn", "manual_review", "reject"}
    BY <2>2, RiskIsScored, DecisionAgrees
  <2>4. verdict'.score \in 0..100
        /\ verdict'.decision \in {"pass", "warn", "manual_review", "reject"}
    BY <2>1, <2>3 DEF ReportOf, fs
  <2>5. ReportSound'
    BY <2>1, <2>4 DEF ReportSound
  <2> QED
    BY <1>v, <2>1, <2>5
<1>7. CASE ServeResult
  <2>1. /\ phase = "report" /\ phase' = "served" /\ served' = ServedAs(verdict)
        /\ UNCHANGED <<video, scanned, shown, findings, verdict>>
    BY <1>7 DEF ServeResult, ServedAs
  <2>2. verdict.decision \in {"pass", "warn", "manual_review", "reject"}
    BY DEF ReportSound
  <2>3. served'.final \in {"", "PASS", "REVIEW", "BLOCK"}
    <3>1. served'.final = DecisionLabel[verdict.decision]
      BY <2>1 DEF ServedAs
    <3>2. DecisionLabel[verdict.decision] \in {"PASS", "REVIEW", "BLOCK"}
      BY <2>2 DEF DecisionLabel
    <3> QED
      BY <3>1, <3>2
  <2>4. ReportSound'
    BY <2>1, <2>3 DEF ReportSound
  <2> QED
    BY <1>v, <2>1, <2>4
<1>8. CASE UNCHANGED evidenceVars
  BY <1>8, <1>r, <1>v DEF evidenceVars
<1> QED
  BY <1>1, <1>2, <1>3, <1>4, <1>5, <1>6, <1>7, <1>8 DEF EvidenceNext

\* Every reachable state is well typed.
THEOREM EvidenceTypeCorrect == EvidenceSpec => []EvidenceTypeOK
<1>1. ScanTyped /\ ReportSound => EvidenceTypeOK
  <2>1. DOMAIN DecisionLabel = {"pass", "warn", "manual_review", "reject"}
    BY DEF DecisionLabel
  <2> QED
    BY <2>1 DEF ScanTyped, VideoTyped, ReportSound, EvidenceTypeOK, FindingRecord
<1> QED
  BY <1>1, EvidenceInitSound, EvidenceNextSound, PTL DEF EvidenceSpec, EvidenceInv

\* No frame of the range escapes the review, whatever its length and rate, the size
\* of segments and batches, the threshold and the gap: it was sent, or one that is
\* like it and not much earlier.
THEOREM EveryFrameIsSeen == EvidenceSpec => []EveryFrameSeen
<1>1. ScanTyped /\ ScanSeen => EveryFrameSeen
  <2>1. SUFFICES ASSUME ScanTyped, ScanSeen, phase = "scan", scanned = SegmentCount(video),
                        NEW f \in Frame(video), TickOf(video, f) <= EndBound(video) * video.fps
                 PROVE  \E s \in shown :
                          /\ s[2] <= f
                          /\ TickOf(video, f) - TickOf(video, s[2])
                               < AtLeast(1, MaxGapSeconds * video.fps)
                          /\ Distance(video.look[f], video.look[s[2]]) <= HashThreshold
                          /\ TickOf(video, f) <= Segment(video, s[1]).to * video.fps
    BY DEF EveryFrameSeen
  <2>2. PICK i \in 1..SegmentCount(video) : f \in FramesIn(video, i)
    BY <2>1, SegmentsCover DEF ScanTyped
  <2>3. PICK s \in shown : s[1] = i /\ LikeIt(video, f, s[2])
    BY <2>1, <2>2 DEF ScanSeen, SeenIn
  <2>4. TickOf(video, f) <= Segment(video, s[1]).to * video.fps
    BY <2>2, <2>3 DEF FramesIn
  <2> QED
    BY <2>3, <2>4 DEF LikeIt
<1> QED
  BY <1>1, EvidenceInitSound, EvidenceNextSound, PTL DEF EvidenceSpec, EvidenceInv

\* The labels that a client compares agree with each other and with what the model
\* found, for any number of findings and whatever their score.
THEOREM VerdictsAgree == EvidenceSpec => []VerdictAgrees
<1>1. ReportSound => VerdictAgrees
  <2> DEFINE fs == Deduped(findings)
             d == Decide(fs, RiskScore(fs))
  <2>1. SUFFICES ASSUME ReportSound, phase = "served"
                 PROVE  /\ served.final = "BLOCK" <=> "BLOCK" \in served.frames
                        /\ served.final = "PASS"  <=> findings = <<>>
                        /\ \A k \in DOMAIN findings :
                             \E f \in verdict.findings : Key(f) = Key(findings[k])
                        /\ \A k \in DOMAIN findings :
                             FindingLabel(findings[k]) = "BLOCK" =>
                               \/ served.final = "BLOCK"
                               \/ \E j \in 1..(k - 1) : Key(findings[j]) = Key(findings[k])
    BY DEF VerdictAgrees
  <2>2. /\ verdict.findings = fs /\ verdict.decision = d
        /\ served.final = DecisionLabel[d] /\ served.frames = {FindingLabel(f) : f \in fs}
    <3>1. verdict = ReportOf(fs) /\ served = ServedAs(verdict)
      BY <2>1 DEF ReportSound
    <3> HIDE DEF fs
    <3>2. verdict.findings = fs /\ verdict.decision = d
      BY <3>1 DEF ReportOf
    <3> HIDE DEF d
    <3> QED
      BY <3>1, <3>2 DEF ServedAs
  <2>3. /\ fs \in SUBSET FindingRecord /\ IsFiniteSet(fs) /\ (fs = {} <=> findings = <<>>)
        /\ \A k \in DOMAIN findings : \E f \in fs : Key(f) = Key(findings[k])
    BY <2>1, DedupedKeeps DEF ReportSound
  <2>first. ASSUME NEW k \in DOMAIN findings,
                   ~ \E j \in 1..(k - 1) : Key(findings[j]) = Key(findings[k])
            PROVE  findings[k] \in fs
    BY <2>first DEF Deduped
  <2>4. /\ d \in {"pass", "warn", "manual_review", "reject"}
        /\ d = "reject" <=> \E f \in fs : f.severity \in {"critical", "high"}
        /\ d = "pass" <=> fs = {}
    BY <2>3, DecisionAgrees
  <2> HIDE DEF fs, d
  <2>5. /\ DecisionLabel[d] = "BLOCK" <=> d = "reject"
        /\ DecisionLabel[d] = "PASS" <=> d = "pass"
    BY <2>4 DEF DecisionLabel
  <2>6. "BLOCK" \in served.frames <=> \E f \in fs : f.severity \in {"critical", "high"}
    BY <2>2 DEF FindingLabel
  <2>7. ASSUME NEW k \in DOMAIN findings, FindingLabel(findings[k]) = "BLOCK",
               ~ \E j \in 1..(k - 1) : Key(findings[j]) = Key(findings[k])
        PROVE  served.final = "BLOCK"
    <3>1. findings[k] \in fs
      BY <2>7, <2>first
    <3>2. "BLOCK" \in served.frames
      BY <2>2, <2>7, <3>1
    <3> QED
      BY <2>2, <2>4, <2>5, <2>6, <3>2
  <2> QED
    BY <2>2, <2>3, <2>4, <2>5, <2>6, <2>7
<1> QED
  BY <1>1, EvidenceInitSound, EvidenceNextSound, PTL DEF EvidenceSpec, EvidenceInv
=============================================================================
