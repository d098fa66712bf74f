------------------------------- MODULE KeyPool -------------------------------
(***************************************************************************)
(* The pool of API keys of one channel (api_key_pool.py) in Redis, shared  *)
(* by all processes.  A call leases a key, waits for the gate and the      *)
(* provider under it, gives the lease back and reports the outcome; these  *)
(* are two Lua scripts, and a call that wait_for cancels runs neither.     *)
(*                                                                         *)
(* A report changes the mode of the key, not of the lease: it may come     *)
(* from a call of before the key cooled down.                              *)
(***************************************************************************)
EXTENDS Naturals, FiniteSets

CONSTANTS Caller,         \* model calls; a retry is another call
          ApiKey,         \* keys of the channel
          NoKey,
          KeyLimit,       \* concurrent leases per key
          LeaseTtl,       \* life of a lease that is not given back
          CallTime,       \* wait_for's limit on a call, the pool included
          Cooldown,       \* a rate-limited or failing key rests this long
          DisableTime,    \* a key whose authentication failed (ten cooldowns)
          FailThreshold   \* failures in a row that cool a key down

ASSUME KeyPoolAssumption ==
  /\ IsFiniteSet(Caller)
  /\ NoKey \notin ApiKey
  /\ {KeyLimit, CallTime, Cooldown, DisableTime, FailThreshold} \subseteq Nat \ {0}
  /\ LeaseTtl \in Nat /\ LeaseTtl > CallTime

KeyMode == {"healthy", "half_open", "degraded", "cooldown", "disabled"}
Outcome == {"ok", "block", "auth", "rate_limit", "transient"}

VARIABLES
  call,      \* per call: where it is, its key, the time left to it, its outcome
  keyState,  \* per key: mode, time until cooldown_until_ms, probe, failures
  leaseLeft, \* the active sets: time left of each call's lease, 0: none
  cooled     \* history: per key, calls that were using it when it last cooled down

poolVars == <<call, keyState, leaseLeft, cooled>>

FreshKey == [mode |-> "healthy", cool |-> 0, probe |-> FALSE, failures |-> 0]
NewCall  == [at |-> "new", key |-> NoKey, left |-> CallTime, outcome |-> "ok"]

PoolInit ==
  /\ call = [c \in Caller |-> NewCall]
  /\ keyState = [k \in ApiKey |-> FreshKey]
  /\ leaseLeft = [c \in Caller |-> 0]
  /\ cooled = [k \in ApiKey |-> {}]

Leases(k) == {c \in Caller : call[c].key = k /\ leaseLeft[c] > 0}
Users(k)  == {c \in Caller : call[c].key = k /\ call[c].at = "using"}

-----------------------------------------------------------------------------
(* The acquire script *)

NeedsProbe(k) == keyState[k].mode \in {"cooldown", "disabled"} /\ keyState[k].cool = 0

\* Mutation of HasKeyRoom: keys that cool down are candidates.
HasKeyRoomAlways(k) == Cardinality(Leases(k)) < KeyLimit

HasKeyRoom(k) ==
  /\ keyState[k].cool = 0
  /\ NeedsProbe(k) => ~keyState[k].probe
  /\ Cardinality(Leases(k)) < KeyLimit

\* Keys that need no probe come first, then the one with the fewest leases; of
\* equals, the one selected longest ago, which is any here.
Best(k) ==
  /\ HasKeyRoom(k)
  /\ \A j \in ApiKey : HasKeyRoom(j) =>
       \/ ~NeedsProbe(k) /\ NeedsProbe(j)
       \/ /\ NeedsProbe(k) = NeedsProbe(j)
          /\ Cardinality(Leases(k)) <= Cardinality(Leases(j))

\* Mutation of AcquireKey: the lease lives as long as the call may.
AcquireKeyShort(c) ==
  /\ call[c].at = "new" /\ call[c].left > 0
  /\ \E k \in ApiKey :
       /\ Best(k)
       /\ call' = [call EXCEPT ![c].at = "using", ![c].key = k]
       /\ leaseLeft' = [leaseLeft EXCEPT ![c] = 1]
       /\ keyState' = [keyState EXCEPT ![k].mode = IF NeedsProbe(k) THEN "half_open" ELSE @,
                                       ![k].probe = NeedsProbe(k)]
  /\ UNCHANGED cooled

\* A half-open key is an ordinary candidate, and choosing it ends its probe.
AcquireKey(c) ==
  /\ call[c].at = "new" /\ call[c].left > 0
  /\ \E k \in ApiKey :
       /\ Best(k)
       /\ call' = [call EXCEPT ![c].at = "using", ![c].key = k]
       /\ leaseLeft' = [leaseLeft EXCEPT ![c] = LeaseTtl]
       /\ keyState' = [keyState EXCEPT ![k].mode = IF NeedsProbe(k) THEN "half_open" ELSE @,
                                       ![k].probe = NeedsProbe(k)]
  /\ UNCHANGED cooled

\* acquire gives up, or wait_for cuts the waiting call.
NoKeyInTime(c) ==
  /\ call[c].at = "new"
  /\ \A k \in ApiKey : ~HasKeyRoom(k)
  /\ call' = [call EXCEPT ![c].at = "done"]
  /\ UNCHANGED <<keyState, leaseLeft, cooled>>

-----------------------------------------------------------------------------
(* The end of a call *)

\* The provider answers or raises.
Finish(c) ==
  /\ call[c].at = "using"
  /\ \E o \in Outcome : call' = [call EXCEPT ![c].at = "release", ![c].outcome = o]
  /\ UNCHANGED <<keyState, leaseLeft, cooled>>

\* wait_for, a shutdown or a crash: CancelledError is no Exception, and the
\* lease stays until its TTL.
CancelCall(c) ==
  /\ call[c].at \in {"using", "release", "report"}
  /\ call' = [call EXCEPT ![c].at = "done"]
  /\ UNCHANGED <<keyState, leaseLeft, cooled>>

\* ZREM; when it raises, neither script has an effect.
ReleaseKey(c) ==
  /\ call[c].at = "release"
  /\ \/ /\ leaseLeft' = [leaseLeft EXCEPT ![c] = 0]
        /\ call' = [call EXCEPT ![c].at = "report"]
     \/ /\ call' = [call EXCEPT ![c].at = "done"]
        /\ UNCHANGED leaseLeft
  /\ UNCHANGED <<keyState, cooled>>

Failures(s) == IF s.failures < FailThreshold THEN s.failures + 1 ELSE FailThreshold

\* Mutation of Reported: a probe that fails keeps its mark.
ReportedKeepsProbe(s, o) ==
  CASE o = "ok"    -> FreshKey
    [] o = "block" -> [s EXCEPT !.probe = FALSE]
    [] o = "auth"  -> [s EXCEPT !.mode = "disabled", !.cool = DisableTime, !.failures = Failures(s)]
    [] OTHER       -> [s EXCEPT !.mode = "cooldown", !.cool = Cooldown, !.failures = Failures(s)]

\* The report script.  "block" stands for parse, validation and provider_block;
\* failures count up to the threshold, above which they make no difference.
Reported(s, o) ==
  CASE o = "ok"    -> FreshKey
    [] o = "block" -> [s EXCEPT !.probe = FALSE]
    [] o = "auth"  ->
         [mode |-> "disabled", cool |-> DisableTime, probe |-> FALSE, failures |-> Failures(s)]
    [] o = "rate_limit" \/ (o = "transient" /\ Failures(s) = FailThreshold) ->
         [mode |-> "cooldown", cool |-> Cooldown, probe |-> FALSE, failures |-> Failures(s)]
    [] OTHER       ->
         [s EXCEPT !.mode = "degraded", !.probe = FALSE, !.failures = Failures(s)]

ReportKey(c) ==
  LET k == call[c].key
      new == Reported(keyState[k], call[c].outcome) IN
  /\ call[c].at = "report"
  /\ keyState' = [keyState EXCEPT ![k] = new]
  /\ cooled' = IF new.mode \in {"cooldown", "disabled"}
               THEN [cooled EXCEPT ![k] = {b \in Caller \ {c} : call[b].key = k}]
               ELSE cooled
  /\ call' = [call EXCEPT ![c].at = "done"]
  /\ UNCHANGED leaseLeft

Less(n) == IF n > 0 THEN n - 1 ELSE 0

\* Time passes for leases, cooldowns and calls; no call outlives wait_for.
PoolTick ==
  /\ \A c \in Caller : call[c].at \in {"using", "release", "report"} => call[c].left > 0
  /\ call' = [c \in Caller |->
                IF call[c].at = "done" THEN call[c] ELSE [call[c] EXCEPT !.left = Less(@)]]
  /\ leaseLeft' = [c \in Caller |-> Less(leaseLeft[c])]
  /\ keyState' = [k \in ApiKey |-> [keyState[k] EXCEPT !.cool = Less(@)]]
  /\ UNCHANGED cooled

PoolNext ==
  \/ \E c \in Caller :
       \/ AcquireKey(c) \/ NoKeyInTime(c) \/ Finish(c) \/ CancelCall(c)
       \/ ReleaseKey(c) \/ ReportKey(c)
  \/ PoolTick

PoolSpec == PoolInit /\ [][PoolNext]_poolVars

-----------------------------------------------------------------------------
(* Properties *)

\* Types of all variables.
PoolTypeOK ==
  /\ call \in [Caller -> [at : {"new", "using", "release", "report", "done"},
                          key : ApiKey \cup {NoKey}, left : 0..CallTime, outcome : Outcome]]
  /\ keyState \in [ApiKey -> [mode : KeyMode, cool : 0..(Cooldown + DisableTime),
                              probe : BOOLEAN, failures : 0..FailThreshold]]
  /\ leaseLeft \in [Caller -> 0..LeaseTtl]
  /\ cooled \in [ApiKey -> SUBSET Caller]

\* The calls that use a key stay within its limit, although leases expire,
\* cancelled calls leave theirs behind, and reports of other calls change the
\* mode of the key meanwhile.
KeyLimitKept == \A k \in ApiKey : Cardinality(Users(k)) <= KeyLimit

\* A key that rests has no probe in flight: acquire would pass it over for
\* ever, since a probe that is cancelled is never reported.
RestingKeyReturns ==
  \A k \in ApiKey : keyState[k].mode \in {"cooldown", "disabled"} => ~keyState[k].probe

\* A cooldown ends early only by the success of a call that had the key before:
\* no call begins to use a key that rests, unless such a success woke it.
CooldownKept ==
  [][\A k \in ApiKey : keyState[k].cool > 1 /\ keyState'[k].cool = 0 =>
       \E c \in cooled[k] : call[c].at = "report" /\ call[c].outcome = "ok"]_poolVars
=============================================================================
