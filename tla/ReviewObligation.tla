--------------------------- MODULE ReviewObligation ---------------------------
(***************************************************************************)
(* What the review workflow promises, without queues, workers, retries and *)
(* faults: a review that the API has accepted is owed until it is settled, *)
(* with a recorded outcome or in the dead-letter stream, and what is       *)
(* settled stays so.  ReviewPipeline implements it.                        *)
(***************************************************************************)
CONSTANT Review

VARIABLE phase   \* of each review

Init == phase = [r \in Review |-> "new"]

\* The API answers that it has queued the review.
Accept(r) ==
  /\ phase[r] = "new"
  /\ phase' = [phase EXCEPT ![r] = "owed"]

\* The outcome is recorded; a review can also be cancelled, or be run by the API
\* process itself, without having been queued.
Settle(r) ==
  /\ phase[r] \in {"new", "owed"}
  /\ phase' = [phase EXCEPT ![r] = "settled"]

Next == \E r \in Review : Accept(r) \/ Settle(r)

Spec == Init /\ [][Next]_phase
=============================================================================
