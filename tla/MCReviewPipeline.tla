-------------------------- MODULE MCReviewPipeline --------------------------
(* Constants for model checking ReviewPipeline. *)
EXTENDS ReviewPipeline, TLC

CONSTANTS r1, r2, h1, h2, i1, i2, i3

OneReview == {r1}
TwoReviews == {r1, r2}
OneHandler == {h1}
TwoHandlers == {h1, h2}
TwoIds == {i1, i2}
ThreeIds == {i1, i2, i3}
EntrySymmetry == Permutations(TwoIds)
Symmetry == Permutations(TwoHandlers) \cup Permutations(TwoIds)
=============================================================================
