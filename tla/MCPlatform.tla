------------------------------ MODULE MCPlatform ------------------------------
(* What the processes share in Redis: the create lock, the API keys, the     *)
(* slots and the call pacer.  They have no state in common: a behaviour is   *)
(* one of them, chosen by part, so that one run checks them all.             *)
EXTENDS PlatformCreate, KeyPool, SlotLease, QpmPacer, TLC

CONSTANTS q1, q2, q3, c1, c2, c3, k1, k2, t1, t2, t3, t4,
          h1, h2, h3, d1, d2, d3, m1, m2, m3, m4, m5
ThreeRequests == {q1, q2, q3}
ThreeCalls    == {c1, c2, c3}
TwoKeys       == {k1, k2}
FourTakers    == {t1, t2, t3, t4}
Reviews       == {h1, h2, h3}
Handlers      == Reviews \cup {d1, d2, d3}

\* Requests are alike but for their flow, so that of two flows that differ by a
\* permutation of the requests one is enough (PlatformInit).  h1 and h2 have the same review in the same process.
Members ==
  [h \in Handlers |-> CASE h \in {h1, h2} -> m1 [] h = h3 -> m2
                       [] h = d1 -> m3 [] h = d2 -> m4 [] h = d3 -> m5]

Alike == Permutations(ThreeCalls) \cup Permutations(TwoKeys)

VARIABLE part

PlatformInit ==
  /\ part \in {"create", "keys", "slots", "pacer"}
  /\ CreateInit /\ PoolInit /\ SlotInit /\ QpmInit
  /\ (flow[q3] = "oss" => flow[q2] = "oss") /\ (flow[q2] = "oss" => flow[q1] = "oss")
  /\ part # "create" => flow = [q \in Request |-> "url"]
  /\ part # "slots" => slotAt = [h \in Handler |-> IF h \in Renewing THEN "wait" ELSE "gone"]

PlatformNext ==
  \/ part = "create" /\ CreateNext /\ UNCHANGED <<part, poolVars, slotVars, qpmVars>>
  \/ part = "keys"   /\ PoolNext   /\ UNCHANGED <<part, createVars, slotVars, qpmVars>>
  \/ part = "slots"  /\ SlotNext   /\ UNCHANGED <<part, createVars, poolVars, qpmVars>>
  \/ part = "pacer"  /\ QpmNext    /\ UNCHANGED <<part, createVars, poolVars, slotVars>>

PlatformSpec == PlatformInit /\ [][PlatformNext]_<<part, createVars, poolVars, slotVars, qpmVars>>

\* Types of all variables.
PlatformTypeOK == CreateTypeOK /\ PoolTypeOK /\ SlotTypeOK /\ QpmTypeOK
=============================================================================
