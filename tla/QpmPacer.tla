------------------------------- MODULE QpmPacer -------------------------------
(***************************************************************************)
(* acquire_model_qpm_token (queue.py): one cursor in Redis spaces the      *)
(* model calls of all processes.  A call reserves the cursor's time and    *)
(* moves it on by an interval in one script, and only then finds out       *)
(* whether it can wait that long: the time slot of a call that gives up,   *)
(* or is cancelled while it sleeps, is lost.  The cursor is a key with a   *)
(* TTL, which every reservation renews.                                    *)
(*                                                                         *)
(* Times are relative to now.                                              *)
(***************************************************************************)
EXTENDS Integers, FiniteSets

CONSTANTS Taker,        \* calls that want a token
          Interval,     \* a minute divided by the limit
          QpmWait,      \* how long a call may wait
          QpmTtl        \* life of the cursor's key

ASSUME QpmAssumption ==
  /\ IsFiniteSet(Taker)
  /\ Interval \in Nat \ {0} /\ QpmWait \in Nat
  /\ QpmTtl \in Nat /\ QpmTtl >= QpmWait + Interval

VARIABLES
  token,      \* per call: "want", "sleep", "granted", "refused", "cancelled"
  reserved,   \* per call: its time, if it has one; past times stop at -Interval
  cursor,     \* next_ms, 0: now, past or absent
  keyLeft     \* time until the cursor's key expires

qpmVars == <<token, reserved, cursor, keyLeft>>

QpmInit ==
  /\ token = [t \in Taker |-> "want"]
  /\ reserved = [t \in Taker |-> -Interval]
  /\ cursor = 0 /\ keyLeft = 0

\* Mutation of Reserve: only a call that need not wait moves the cursor on.
ReserveUndone(t) ==
  /\ token[t] = "want"
  /\ reserved' = [reserved EXCEPT ![t] = cursor]
  /\ token' = [token EXCEPT ![t] = IF cursor = 0 THEN "granted"
                                   ELSE IF cursor > QpmWait THEN "refused" ELSE "sleep"]
  /\ cursor' = IF cursor > 0 THEN cursor ELSE Interval
  /\ keyLeft' = QpmTtl

\* The reserve script, and what the caller makes of it.
Reserve(t) ==
  /\ token[t] = "want"
  /\ reserved' = [reserved EXCEPT ![t] = cursor]
  /\ token' = [token EXCEPT ![t] = IF cursor = 0 THEN "granted"
                                   ELSE IF cursor > QpmWait THEN "refused" ELSE "sleep"]
  /\ cursor' = cursor + Interval
  /\ keyLeft' = QpmTtl

Wake(t) ==
  /\ token[t] = "sleep" /\ reserved[t] <= 0
  /\ token' = [token EXCEPT ![t] = "granted"]
  /\ UNCHANGED <<reserved, cursor, keyLeft>>

\* wait_for cancels a sleeping call.
CancelSleep(t) ==
  /\ token[t] = "sleep"
  /\ token' = [token EXCEPT ![t] = "cancelled"]
  /\ UNCHANGED <<reserved, cursor, keyLeft>>

\* Time passes; the key goes when its TTL is over.
QpmTick ==
  /\ reserved' = [t \in Taker |-> IF reserved[t] > -Interval THEN reserved[t] - 1 ELSE reserved[t]]
  /\ keyLeft' = IF keyLeft > 0 THEN keyLeft - 1 ELSE 0
  /\ cursor' = IF keyLeft <= 1 \/ cursor = 0 THEN 0 ELSE cursor - 1
  /\ UNCHANGED token

QpmNext ==
  \/ \E t \in Taker : Reserve(t) \/ Wake(t) \/ CancelSleep(t)
  \/ QpmTick

QpmSpec == QpmInit /\ [][QpmNext]_qpmVars

-----------------------------------------------------------------------------
(* Properties *)

\* Types of all variables.
QpmTypeOK ==
  /\ token \in [Taker -> {"want", "sleep", "granted", "refused", "cancelled"}]
  /\ reserved \in [Taker -> Int] /\ \A t \in Taker : reserved[t] >= -Interval
  /\ cursor \in Nat
  /\ keyLeft \in 0..QpmTtl

Apart(t, u) == reserved[t] - reserved[u] >= Interval \/ reserved[u] - reserved[t] >= Interval

\* Two calls that got a token, or still wait for theirs, have times that are an
\* interval apart (while the later one's is not long over), although calls in
\* between gave up and the cursor's key may have expired.
TokensSpaced ==
  \A t, u \in Taker :
    /\ t # u
    /\ {token[t], token[u]} \subseteq {"sleep", "granted"}
    /\ reserved[t] > -Interval /\ reserved[u] > -Interval
    => Apart(t, u)
=============================================================================
