------------------------------ MODULE SlotLease ------------------------------
(***************************************************************************)
(* The global review slots and the download host slots (queue.py): members *)
(* of one sorted set each, scored with the time they expire.               *)
(*                                                                         *)
(* A review's member is host, process and review: two handlers of a        *)
(* process that work on the same review (a duplicate delivery) share it.   *)
(* It is renewed by a task of the process, which does not run while frame  *)
(* extraction blocks the event loop, skips a turn while there is no Redis  *)
(* client, and ends with the first error of Redis.  A download's member is *)
(* its own and is not renewed.                                             *)
(***************************************************************************)
EXTENDS Integers, FiniteSets

CONSTANTS Handler,        \* coroutines that want a slot
          MemberOf,       \* the member each of them uses
          Renewing,       \* those whose slot is renewed: reviews, not downloads
          SlotLimit,
          SlotTtl,
          RenewEvery      \* a third of the TTL

ASSUME SlotAssumption ==
  /\ IsFiniteSet(Handler)
  /\ Renewing \subseteq Handler
  /\ \A h, i \in Handler : MemberOf[h] = MemberOf[i] /\ h # i => {h, i} \subseteq Renewing
  /\ SlotLimit \in Nat \ {0}
  /\ RenewEvery \in Nat \ {0} /\ SlotTtl \in Nat /\ RenewEvery < SlotTtl

Member == {MemberOf[h] : h \in Handler}

VARIABLES
  slotAt,     \* per handler: "wait", "work", "unrenewed" (it works, its renewal
              \* task has ended), "leave", or "gone"
  expires,    \* per member: time until it expires, 0: not in the set
  renewIn,    \* per handler: time until its renewal task runs
  missed,     \* history: handlers whose renewal did not come when it was due
  unslotted   \* history: members whose slot went away while somebody worked under it

slotVars == <<slotAt, expires, renewIn, missed, unslotted>>

\* The reviews and the downloads of a host have a sorted set each: one of them.
SlotInit ==
  /\ \E rs \in {Renewing, Handler \ Renewing} :
       slotAt = [h \in Handler |-> IF h \in rs THEN "wait" ELSE "gone"]
  /\ expires = [m \in Member |-> 0]
  /\ renewIn = [h \in Handler |-> 0]
  /\ missed = {}
  /\ unslotted = {}

\* Reviews share one sorted set, the downloads from a host another.
Renewed(m) == \E h \in Renewing : MemberOf[h] = m
Rivals(m)  == {n \in Member : Renewed(n) = Renewed(m)}
Held(m)    == {n \in Rivals(m) : expires[n] > 0}
Working(m) == {h \in Handler : MemberOf[h] = m /\ slotAt[h] \in {"work", "unrenewed"}}

-----------------------------------------------------------------------------

\* Mutation of AcquireSlot: the member that is there counts against itself, and
\* the limit is compared before the new member is counted.
AcquireSlotLoose(h) ==
  /\ slotAt[h] = "wait"
  /\ Cardinality(Held(MemberOf[h])) <= SlotLimit
  /\ expires' = [expires EXCEPT ![MemberOf[h]] = SlotTtl]
  /\ slotAt' = [slotAt EXCEPT ![h] = "work"]
  /\ renewIn' = [renewIn EXCEPT ![h] = RenewEvery]
  /\ UNCHANGED <<missed, unslotted>>

\* The acquire script: a member that is there is taken over, another needs room.
AcquireSlot(h) ==
  /\ slotAt[h] = "wait"
  /\ expires[MemberOf[h]] > 0 \/ Cardinality(Held(MemberOf[h])) < SlotLimit
  /\ expires' = [expires EXCEPT ![MemberOf[h]] = SlotTtl]
  /\ slotAt' = [slotAt EXCEPT ![h] = "work"]
  /\ renewIn' = [renewIn EXCEPT ![h] = RenewEvery]
  /\ UNCHANGED <<missed, unslotted>>

\* The wait for a slot is over.
SlotTimeout(h) ==
  /\ slotAt[h] = "wait"
  /\ expires[MemberOf[h]] = 0 /\ Cardinality(Held(MemberOf[h])) >= SlotLimit
  /\ slotAt' = [slotAt EXCEPT ![h] = "gone"]
  /\ UNCHANGED <<expires, renewIn, missed, unslotted>>

\* Mutation of RenewSlot: the next renewal comes when the slot has expired.
RenewSlotLate(h) ==
  /\ h \in Renewing /\ slotAt[h] = "work" /\ renewIn[h] = 0
  /\ expires' = [expires EXCEPT ![MemberOf[h]] = SlotTtl]
  /\ renewIn' = [renewIn EXCEPT ![h] = SlotTtl]
  /\ UNCHANGED <<slotAt, missed, unslotted>>

\* _renew_global_review_slot: ZADD, whether or not the member is still there.
RenewSlot(h) ==
  /\ h \in Renewing /\ slotAt[h] = "work" /\ renewIn[h] = 0
  /\ expires' = [expires EXCEPT ![MemberOf[h]] = SlotTtl]
  /\ renewIn' = [renewIn EXCEPT ![h] = RenewEvery]
  /\ UNCHANGED <<slotAt, missed, unslotted>>

\* There is no Redis client for once, or a call raises and ends the task.
MissRenewal(h) ==
  /\ h \in Renewing /\ slotAt[h] = "work" /\ renewIn[h] = 0
  /\ missed' = missed \cup {h}
  /\ \/ renewIn' = [renewIn EXCEPT ![h] = RenewEvery] /\ UNCHANGED slotAt
     \/ slotAt' = [slotAt EXCEPT ![h] = "unrenewed"] /\ UNCHANGED renewIn
  /\ UNCHANGED <<expires, unslotted>>

\* The review is over and its renewal task cancelled, ...
EndWork(h) ==
  /\ slotAt[h] = "work"
  /\ slotAt' = [slotAt EXCEPT ![h] = "leave"]
  /\ UNCHANGED <<expires, renewIn, missed, unslotted>>

\* ... and its member removed, also from under another handler that shares it.
ReleaseSlot(h) ==
  /\ slotAt[h] = "leave"
  /\ slotAt' = [slotAt EXCEPT ![h] = "gone"]
  /\ expires' = [expires EXCEPT ![MemberOf[h]] = 0]
  /\ unslotted' = IF Working(MemberOf[h]) # {} THEN unslotted \cup {MemberOf[h]} ELSE unslotted
  /\ UNCHANGED <<renewIn, missed>>

\* The process dies, Redis does not answer its ZREM, or the error of the renewal
\* task is raised before it: the member stays.
LoseSlot(h) ==
  /\ slotAt[h] \in {"work", "unrenewed", "leave"}
  /\ slotAt' = [slotAt EXCEPT ![h] = "gone"]
  /\ UNCHANGED <<expires, renewIn, missed, unslotted>>

\* Time passes.  A renewal that is due waits only while its event loop is
\* blocked; a download may outlast its TTL.
SlotTick ==
  LET due == {h \in Renewing : slotAt[h] = "work" /\ renewIn[h] = 0} IN
  /\ missed' = missed \cup due
  /\ expires' = [m \in Member |-> IF expires[m] > 0 THEN expires[m] - 1 ELSE 0]
  /\ renewIn' = [h \in Handler |-> IF renewIn[h] > 0 THEN renewIn[h] - 1 ELSE 0]
  /\ unslotted' = unslotted \cup {m \in Member : expires[m] = 1 /\ Working(m) # {}}
  /\ UNCHANGED slotAt

SlotNext ==
  \/ \E h \in Handler :
       \/ AcquireSlot(h) \/ SlotTimeout(h) \/ RenewSlot(h) \/ MissRenewal(h)
       \/ EndWork(h) \/ ReleaseSlot(h) \/ LoseSlot(h)
  \/ SlotTick

SlotSpec == SlotInit /\ [][SlotNext]_slotVars

-----------------------------------------------------------------------------
(* Properties *)

\* Types of all variables.
SlotTypeOK ==
  /\ slotAt \in [Handler -> {"wait", "work", "unrenewed", "leave", "gone"}]
  /\ expires \in [Member -> 0..SlotTtl]
  /\ renewIn \in [Handler -> 0..RenewEvery]
  /\ missed \subseteq Renewing
  /\ unslotted \subseteq Member

\* A review loses its slot only to a renewal of its own that did not come or to a
\* handler of its own process: nobody else's member is taken.
LossExplained ==
  \A m \in unslotted :
    \/ \E h \in missed : MemberOf[h] = m
    \/ ~Renewed(m)
    \/ \E h, i \in Handler : h # i /\ MemberOf[h] = m /\ MemberOf[i] = m

\* More reviews (or downloads of a host) than the limit are worked on only by as
\* many as lost their slot under their feet, each of them for a known reason.
SlotsKept ==
  /\ LossExplained
  /\ \A m \in Member :
       Cardinality({n \in Rivals(m) : Working(n) # {}})
         <= SlotLimit + Cardinality(unslotted \cap Rivals(m))
=============================================================================
