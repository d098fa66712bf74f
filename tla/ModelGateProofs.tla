--------------------------- MODULE ModelGateProofs ---------------------------
(***************************************************************************)
(* Theorems about ModelGate for any number of calls, any limits and any    *)
(* times that satisfy GateAssumption.                                      *)
(***************************************************************************)
EXTENDS ModelGate, FiniteSetTheorems, TLAPS

Label == {"new", "slot", "calling", "read", "add", "count", "write", "clear",
          "close", "gone"}

CallsOK ==
  /\ pc \in [Call -> Label]
  /\ lease \in [Call -> 0..SlotTtl]
  /\ spent \in [Call -> 0..CallTimeout]
  /\ outcome \in [Call -> {"none", "ok", "upstream", "other"}]

RecordsOK ==
  /\ seen \in [Call -> Circuit]
  /\ late \in [Call -> 0..RecordTime]
  /\ verdict \in [Call -> Mode]
  /\ health \in [Call -> [left : 0..Window, error : BOOLEAN]]

CircuitOK == circuit \in Circuit /\ probes \subseteq Call /\ opened \in 0..OpenTime

Typed == CallsOK /\ RecordsOK /\ CircuitOK

\* A running call's lease outlives it: what is left of the lease and what has
\* been spent of the call together are at least the TTL.
Leased == \A c \in Call : pc[c] = "calling" => lease[c] + spent[c] >= SlotTtl

Within == Cardinality(Members) <= BaseLimit

\* The circuit, and every record that is about to restore what it read, stays
\* within a deadline that an opening record has set.
Restores(c) == pc[c] \in {"add", "count", "write"} /\ StillOpen(c)

Bounded ==
  /\ circuit.left <= opened
  /\ \A c \in Call : Restores(c) => Minus(seen[c].left, late[c]) <= opened
  /\ \A c \in Call : c \notin Recording => late[c] = 0

-----------------------------------------------------------------------------
(* Type correctness *)

LEMMA TypedImpliesTypeOK == Typed => TypeOK
  BY DEF Typed, TypeOK, CallsOK, RecordsOK, CircuitOK, Label

LEMMA ModeNowType == CircuitOK => ModeNow \in Mode
  BY DEF CircuitOK, Circuit, Mode, ModeNow

LEMMA LeaveTyped ==
  ASSUME Typed, NEW c \in Call, Leave(c)
  PROVE  /\ pc' \in [Call -> Label]
         /\ spent' \in [Call -> 0..CallTimeout]
         /\ outcome' \in [Call -> {"none", "ok", "upstream", "other"}]
         /\ seen' \in [Call -> Circuit]
         /\ late' \in [Call -> 0..RecordTime]
         /\ verdict' \in [Call -> Mode]
  BY GateAssumption
     DEF Typed, CallsOK, RecordsOK, Leave, Label, Closed, Circuit, Mode

LEMMA AdmitTyped ==
  ASSUME Typed, NEW c \in Call, Admit(c)
  PROVE  CircuitOK' /\ lease' \in [Call -> 0..SlotTtl]
  <1>1. circuit' \in Circuit
    BY ModeNowType, GateAssumption DEF Typed, Admit, Circuit
  <1>2. probes' \subseteq Call /\ opened' = opened
    BY DEF Typed, CircuitOK, Admit
  <1>3. lease' \in [Call -> 0..SlotTtl]
    BY GateAssumption DEF Typed, CallsOK, Admit
  <1>4. QED
    BY <1>1, <1>2, <1>3 DEF Typed, CircuitOK

LEMMA TypedInit == Init => Typed
  BY GateAssumption
     DEF Init, Typed, CallsOK, RecordsOK, CircuitOK, Label, Closed, Circuit, Mode, NoEvent

LEMMA TypedTick == Typed /\ Tick => Typed'
  <1> SUFFICES ASSUME Typed, Tick PROVE Typed'
    OBVIOUS
  <1>1. CallsOK'
    BY GateAssumption
       DEF Typed, CallsOK, Tick, Down, Minus, Calling
  <1>2. late' \in [Call -> 0..RecordTime]
    BY GateAssumption DEF Typed, RecordsOK, Tick, Recording
  <1>3. health' \in [Call -> [left : 0..Window, error : BOOLEAN]]
    <2>1. ASSUME NEW c \in Call
          PROVE  (IF health[c].left > 1
                  THEN [health[c] EXCEPT !.left = @ - 1] ELSE NoEvent)
                    \in [left : 0..Window, error : BOOLEAN]
      BY <2>1, GateAssumption DEF Typed, RecordsOK, NoEvent
    <2>2. QED
      BY <2>1 DEF Tick
  <1>4. CircuitOK'
    BY GateAssumption DEF Typed, CircuitOK, Circuit, Tick, Down, Minus
  <1>5. QED
    BY <1>1, <1>2, <1>3, <1>4 DEF Typed, RecordsOK, Tick

LEMMA TypedStep == Typed /\ [Next]_vars => Typed'
  <1> SUFFICES ASSUME Typed, [Next]_vars PROVE Typed'
    OBVIOUS
  <1> USE GateAssumption
  <1>1. ASSUME NEW c \in Call, Arrive(c) PROVE Typed'
    BY <1>1 DEF Arrive, Typed, CallsOK, RecordsOK, CircuitOK, Goto, Label,
                callVars, recordVars, history
  <1>2. ASSUME NEW c \in Call, Acquire(c) PROVE Typed'
    BY <1>2, AdmitTyped
       DEF Acquire, Typed, CallsOK, RecordsOK, Goto, Label, recordVars
  <1>3. ASSUME NEW c \in Call, Full(c) PROVE Typed'
    BY <1>3, ModeNowType
       DEF Full, Typed, CallsOK, RecordsOK, CircuitOK, Circuit,
           callVars, recordVars, history
  <1>4. ASSUME NEW c \in Call, Refuse(c) PROVE Typed'
    BY <1>4, LeaveTyped DEF Refuse, Typed, CallsOK, RecordsOK, CircuitOK, history
  <1>5. ASSUME NEW c \in Call, Answer(c) PROVE Typed'
    BY <1>5 DEF Answer, Return, Typed, CallsOK, RecordsOK, CircuitOK, Goto, Label,
                recordVars, history
  <1>6. ASSUME NEW c \in Call, CutWaiting(c) PROVE Typed'
    <2>1. CircuitOK' /\ lease' \in [Call -> 0..SlotTtl]
      BY <1>6, AdmitTyped DEF CutWaiting, Typed, CallsOK, CircuitOK, history
    <2>2. Return(c, "upstream")
      BY <1>6 DEF CutWaiting
    <2>3. QED
      BY <2>1, <2>2 DEF Return, Typed, CallsOK, RecordsOK, Goto, Label, recordVars
  <1>7. ASSUME NEW c \in Call, Abandon(c) PROVE Typed'
    BY <1>7, LeaveTyped DEF Abandon, Typed, CallsOK, RecordsOK, CircuitOK, history
  <1>8. ASSUME NEW c \in Call, Crash(c) PROVE Typed'
    BY <1>8, LeaveTyped DEF Crash, Typed, CallsOK, RecordsOK, CircuitOK, history
  <1>9. ASSUME NEW c \in Call, Read(c) PROVE Typed'
    BY <1>9 DEF Read, Typed, CallsOK, RecordsOK, CircuitOK, Goto, Label, history
  <1>10. ASSUME NEW c \in Call, Ignore(c) PROVE Typed'
    BY <1>10, LeaveTyped DEF Ignore, Typed, CallsOK, RecordsOK, CircuitOK, history
  <1>11. ASSUME NEW c \in Call, Clear(c) PROVE Typed'
    BY <1>11 DEF Clear, Typed, CallsOK, RecordsOK, CircuitOK, Goto, Label, NoEvent,
                 recordVars, history
  <1>12. ASSUME NEW c \in Call, Close(c) PROVE Typed'
    BY <1>12, LeaveTyped
       DEF Close, Typed, CallsOK, RecordsOK, CircuitOK, Closed, Circuit, Mode
  <1>13. ASSUME NEW c \in Call, Add(c) PROVE Typed'
    <2>1. [left |-> Window - late[c], error |-> outcome[c] = "upstream"]
            \in [left : 0..Window, error : BOOLEAN]
      BY DEF Typed, RecordsOK
    <2>2. QED
      BY <1>13, <2>1 DEF Add, Typed, CallsOK, RecordsOK, CircuitOK, Goto, Label,
                         recordVars, history
  <1>14. ASSUME NEW c \in Call, Count(c) PROVE Typed'
    <2>1. Judge(c) \in Mode
      BY DEF Judge, Mode
    <2>2. QED
      BY <1>14, <2>1
         DEF Count, Typed, CallsOK, RecordsOK, CircuitOK, Goto, Label, history
  <1>15. ASSUME NEW c \in Call, Write(c) PROVE Typed'
    <2>1. Minus(seen[c].left, late[c]) \in 0..OpenTime
          /\ OpenTime - late[c] \in 0..OpenTime
      BY DEF Typed, RecordsOK, Circuit, Minus
    <2>2. circuit' \in Circuit /\ opened' \in 0..OpenTime
      BY <1>15, <2>1 DEF Write, Typed, RecordsOK, CircuitOK, Circuit
    <2>3. QED
      BY <1>15, <2>2, LeaveTyped DEF Write, Typed, CallsOK, RecordsOK, CircuitOK
  <1>16. CASE Expire
    BY <1>16 DEF Expire, Typed, CallsOK, RecordsOK, CircuitOK, Closed, Circuit, Mode,
                 callVars, recordVars
  <1>17. CASE Tick
    BY <1>17, TypedTick
  <1>18. CASE UNCHANGED vars
    BY <1>18 DEF vars, callVars, recordVars, history,
                 Typed, CallsOK, RecordsOK, CircuitOK
  <1>19. QED
    BY <1>1, <1>2, <1>3, <1>4, <1>5, <1>6, <1>7, <1>8, <1>9, <1>10, <1>11, <1>12,
       <1>13, <1>14, <1>15, <1>16, <1>17, <1>18 DEF Next, Record

\* Every reachable state is well typed: in particular no lease, open period or
\* event of the health window outlives the time its setting gives it.
THEOREM TypeCorrect == Spec => []TypeOK
  <1>1. Spec => []Typed
    BY TypedInit, TypedStep, PTL DEF Spec
  <1>2. QED
    BY <1>1, TypedImpliesTypeOK, PTL

-----------------------------------------------------------------------------
(* The number of running calls *)

LEMMA MembersFinite == IsFiniteSet(Members) /\ Cardinality(Members) \in Nat
  BY GateAssumption, FS_Subset, FS_CardinalityType DEF Members

\* Removing members keeps the bound.
LEMMA WithinSmaller ==
  ASSUME Within, Members' \subseteq Members
  PROVE  Within'
  <1>1. Cardinality(Members') <= Cardinality(Members) /\ Cardinality(Members') \in Nat
    BY MembersFinite, FS_Subset, FS_CardinalityType
  <1>2. QED
    BY <1>1, MembersFinite, GateAssumption DEF Within

\* A slot is granted only below the limit of the mode, which never exceeds the
\* configured one.
LEMMA WithinAdmit ==
  ASSUME Typed, NEW c \in Call, Admit(c)
  PROVE  Within'
  <1>1. Members' \subseteq Members \cup {c}
    BY DEF Admit, Members, Typed, CallsOK
  <1>2. LimitIn(ModeNow) \in Nat /\ LimitIn(ModeNow) <= BaseLimit
    BY GateAssumption, ModeNowType DEF LimitIn, Typed, Mode
  <1>3. /\ IsFiniteSet(Members \cup {c})
        /\ Cardinality(Members \cup {c}) <= Cardinality(Members) + 1
        /\ Cardinality(Members \cup {c}) \in Nat
    BY MembersFinite, FS_AddElement, FS_CardinalityType
  <1>4. Cardinality(Members') <= Cardinality(Members \cup {c})
        /\ Cardinality(Members') \in Nat
    BY <1>1, <1>3, FS_Subset, FS_CardinalityType
  <1>5. Cardinality(Members) < LimitIn(ModeNow)
    BY DEF Admit, HasRoom
  <1>6. QED
    BY <1>2, <1>3, <1>4, <1>5, MembersFinite, GateAssumption DEF Within

LEMMA WithinStep == Typed /\ Within /\ [Next]_vars => Within'
  <1> SUFFICES ASSUME Typed, Within, [Next]_vars PROVE Within'
    OBVIOUS
  <1>1. CASE \E c \in Call : (Acquire(c) \/ CutWaiting(c)) /\ Admit(c)
    BY <1>1, WithinAdmit
  <1>2. ASSUME NEW c \in Call, lease' = [lease EXCEPT ![c] = 0] PROVE Within'
    <2>1. Members' \subseteq Members
      BY <1>2 DEF Members, Typed, CallsOK
    <2>2. QED
      BY <2>1, WithinSmaller
  <1>3. CASE Tick
    <2>1. Members' \subseteq Members
      BY <1>3, GateAssumption DEF Members, Tick, Down, Minus, Typed, CallsOK
    <2>2. QED
      BY <2>1, WithinSmaller
  <1>4. CASE UNCHANGED lease
    <2>1. Members' = Members
      BY <1>4 DEF Members
    <2>2. QED
      BY <2>1, WithinSmaller
  <1>5. \/ \E c \in Call : (Acquire(c) \/ CutWaiting(c)) /\ Admit(c)
        \/ \E c \in Call : lease' = [lease EXCEPT ![c] = 0]
        \/ Tick
        \/ UNCHANGED lease
    BY DEF Next, Record, Arrive, Acquire, Full, Refuse, Answer, CutWaiting, Abandon,
           Crash, Read, Ignore, Clear, Close, Add, Count, Write, Expire, vars
  <1>6. QED
    BY <1>1, <1>2, <1>3, <1>4, <1>5

LEMMA LeasedStep == Typed /\ Leased /\ [Next]_vars => Leased'
  <1> SUFFICES ASSUME Typed, Leased, [Next]_vars,
                      NEW d \in Call, pc'[d] = "calling"
               PROVE  lease'[d] + spent'[d] >= SlotTtl
    BY DEF Leased
  <1> USE GateAssumption
  <1>1. ASSUME NEW c \in Call, Acquire(c)
        PROVE  lease'[d] + spent'[d] >= SlotTtl
    BY <1>1 DEF Acquire, Admit, Goto, Typed, CallsOK, Leased
  <1>2. CASE Tick
    BY <1>2 DEF Tick, Down, Minus, Calling, Typed, CallsOK, Leased
  <1>3. ASSUME NEW c \in Call, c # d, pc[d] = "calling",
               lease' = [lease EXCEPT ![c] = 0] \/ lease' = lease \/ Admit(c),
               spent' = [spent EXCEPT ![c] = 0] \/ spent' = spent
        PROVE  lease'[d] + spent'[d] >= SlotTtl
    BY <1>3 DEF Leased, Admit, Typed, CallsOK
  <1>4. ASSUME NEW c \in Call,
               Refuse(c) \/ Answer(c) \/ CutWaiting(c) \/ Abandon(c) \/ Crash(c)
        PROVE  lease'[d] + spent'[d] >= SlotTtl
    <2>1. c # d /\ pc[d] = "calling"
      BY <1>4 DEF Refuse, Answer, CutWaiting, Abandon, Crash, Leave, Return, Goto,
                  Typed, CallsOK
    <2>2. lease' = [lease EXCEPT ![c] = 0] \/ lease' = lease \/ Admit(c)
      BY <1>4 DEF Refuse, Answer, CutWaiting, Abandon, Crash
    <2>3. spent' = [spent EXCEPT ![c] = 0]
      BY <1>4 DEF Refuse, Answer, CutWaiting, Abandon, Crash, Leave, Return
    <2>4. QED
      BY <1>3, <2>1, <2>2, <2>3
  <1>5. ASSUME NEW c \in Call, Arrive(c) \/ Record(c)
        PROVE  lease'[d] + spent'[d] >= SlotTtl
    <2>1. c # d /\ pc[d] = "calling"
      BY <1>5 DEF Arrive, Record, Read, Ignore, Clear, Close, Add, Count, Write,
                  Leave, Goto, Typed, CallsOK
    <2>2. lease' = lease
      BY <1>5 DEF Arrive, Record, Read, Ignore, Clear, Close, Add, Count, Write
    <2>3. spent' = [spent EXCEPT ![c] = 0] \/ spent' = spent
      BY <1>5 DEF Arrive, Record, Read, Ignore, Clear, Close, Add, Count, Write,
                  Leave, callVars
    <2>4. QED
      BY <1>3, <2>1, <2>2, <2>3
  <1>6. CASE (\E c \in Call : Full(c)) \/ Expire \/ UNCHANGED vars
    BY <1>6 DEF Full, Expire, vars, callVars, Leased
  <1>7. QED
    BY <1>1, <1>2, <1>4, <1>5, <1>6 DEF Next

\* Whoever is calling is a member of the active set.
LEMMA CallingAreMembers == Typed /\ Leased => Calling \subseteq Members
  BY GateAssumption DEF Typed, CallsOK, Leased, Calling, Members

LEMMA LimitInit == Init => Typed /\ Leased /\ Within
  <1> SUFFICES ASSUME Init PROVE Typed /\ Leased /\ Within
    OBVIOUS
  <1>1. Typed
    BY TypedInit
  <1>2. Leased
    BY DEF Init, Leased
  <1>3. Members = {}
    BY DEF Init, Members
  <1>4. Within
    BY <1>3, FS_EmptySet, GateAssumption DEF Within
  <1>5. QED
    BY <1>1, <1>2, <1>4

LEMMA LimitInvariant == Spec => [](Typed /\ Leased /\ Within)
  BY LimitInit, TypedStep, LeasedStep, WithinStep, PTL DEF Spec

\* The number of calls at the provider never exceeds the configured limit.
THEOREM LimitKept == Spec => []RunningWithinLimit
  <1>1. Typed /\ Leased /\ Within => RunningWithinLimit
    <2> SUFFICES ASSUME Typed, Leased, Within PROVE RunningWithinLimit
      OBVIOUS
    <2>1. Cardinality(Calling) <= Cardinality(Members) /\ Cardinality(Calling) \in Nat
      BY CallingAreMembers, MembersFinite, FS_Subset, FS_CardinalityType
    <2>2. QED
      BY <2>1, MembersFinite, GateAssumption DEF Within, RunningWithinLimit
  <1>2. QED
    BY <1>1, LimitInvariant, PTL

\* A half-open circuit admits a call only when no other call is running.
THEOREM ProbesAlone == Spec => ProbeRunsAlone
  <1>1. Typed /\ Leased /\ [Next]_vars
          => [\A c \in Call :
                pc[c] = "slot" /\ pc'[c] = "calling" /\ circuit'.mode = "half_open"
                  => Calling \subseteq {c}]_vars
    <2> SUFFICES ASSUME Typed, Leased, Next, NEW c \in Call,
                        pc[c] = "slot", pc'[c] = "calling",
                        circuit'.mode = "half_open"
                 PROVE  Calling \subseteq {c}
      OBVIOUS
    <2>1. Acquire(c)
      BY DEF Next, Record, Arrive, Acquire, Full, Refuse, Answer, CutWaiting, Abandon,
             Crash, Read, Ignore, Clear, Close, Add, Count, Write, Expire, Tick,
             Leave, Return, Goto, Typed, CallsOK
    <2>2. ModeNow = "half_open"
      BY <2>1 DEF Acquire, Admit
    <2>3. Cardinality(Members) < 1
      BY <2>1, <2>2 DEF Acquire, Admit, HasRoom, LimitIn
    <2>4. Members = {}
      BY <2>3, MembersFinite, FS_EmptySet
    <2>5. QED
      BY <2>4, CallingAreMembers
  <1>2. QED
    BY <1>1, LimitInvariant, PTL DEF Spec, ProbeRunsAlone


-----------------------------------------------------------------------------
(* The end of an open period *)

\* The other records are untouched when nothing about them or the deadline moves.
LEMMA BoundedElsewhere ==
  ASSUME Typed, Bounded, NEW c \in Call,
         circuit'.left <= opened', opened <= opened', opened' \in Nat,
         \A d \in Call \ {c} : /\ pc'[d] = pc[d] /\ seen'[d] = seen[d]
                              /\ late'[d] = late[d],
         Restores(c)' => Minus(seen'[c].left, late'[c]) <= opened',
         c \notin Recording' => late'[c] = 0
  PROVE  Bounded'
  <1>1. ASSUME NEW d \in Call, Restores(d)'
        PROVE  Minus(seen'[d].left, late'[d]) <= opened'
    <2>1. CASE d = c
      BY <1>1, <2>1
    <2>2. CASE d # c
      <3>1. Restores(d) /\ seen'[d] = seen[d] /\ late'[d] = late[d]
        BY <1>1, <2>2 DEF Restores, StillOpen
      <3>2. Minus(seen[d].left, late[d]) <= opened
        BY <3>1 DEF Bounded
      <3>3. Minus(seen[d].left, late[d]) \in Int /\ opened \in Int
        BY GateAssumption
           DEF Typed, RecordsOK, CircuitOK, Circuit, Minus
      <3>4. QED
        BY <3>1, <3>2, <3>3
    <2>3. QED
      BY <2>1, <2>2
  <1>2. ASSUME NEW d \in Call, d \notin Recording' PROVE late'[d] = 0
    <2>1. CASE d = c
      BY <1>2, <2>1
    <2>2. CASE d # c
      BY <1>2, <2>2 DEF Recording, Bounded
    <2>3. QED
      BY <2>1, <2>2
  <1>3. QED
    BY <1>1, <1>2 DEF Bounded

LEMMA BoundedTick == Typed /\ Bounded /\ Tick => Bounded'
  <1> SUFFICES ASSUME Typed, Bounded, Tick PROVE Bounded'
    OBVIOUS
  <1> USE GateAssumption
  <1>1. circuit'.left <= opened'
    BY DEF Typed, CircuitOK, Circuit, Bounded, Tick, Down, Minus
  <1>2. ASSUME NEW d \in Call, Restores(d)'
        PROVE  Minus(seen'[d].left, late'[d]) <= opened'
    <2>1. Restores(d) /\ d \in Recording /\ seen'[d] = seen[d]
      BY <1>2 DEF Restores, StillOpen, Tick, Recording
    <2>2. late'[d] = late[d] + 1
      BY <2>1 DEF Tick
    <2>3. Minus(seen[d].left, late[d]) <= opened
      BY <2>1 DEF Bounded
    <2>4. /\ seen[d].left \in Nat /\ late[d] \in Nat /\ opened \in Nat
          /\ opened' = Down(opened)
      BY DEF Typed, RecordsOK, CircuitOK, Circuit, Tick
    <2>5. QED
      BY <2>1, <2>2, <2>3, <2>4 DEF Down, Minus
  <1>3. ASSUME NEW d \in Call, d \notin Recording' PROVE late'[d] = 0
    BY <1>3 DEF Tick, Recording, Bounded
  <1>4. QED
    BY <1>1, <1>2, <1>3 DEF Bounded

LEMMA BoundedStep == Typed /\ Bounded /\ [Next]_vars => Bounded'
  <1> SUFFICES ASSUME Typed, Bounded, [Next]_vars PROVE Bounded'
    OBVIOUS
  <1> USE GateAssumption
  <1>0. circuit.left \in Nat /\ opened \in Nat
    BY DEF Typed, CircuitOK, Circuit
  <1>1. ASSUME NEW c \in Call, Leave(c), opened' = opened,
               circuit' = circuit \/ circuit' = Closed
        PROVE  Bounded'
    <2>1. circuit'.left <= opened'
      BY <1>0, <1>1 DEF Bounded, Closed
    <2>2. pc'[c] = "gone" /\ late'[c] = 0
      BY <1>1 DEF Leave, Typed, CallsOK, RecordsOK
    <2>3. \A d \in Call \ {c} : /\ pc'[d] = pc[d] /\ seen'[d] = seen[d]
                               /\ late'[d] = late[d]
      BY <1>1 DEF Leave, Typed, CallsOK, RecordsOK
    <2>4. QED
      BY <1>0, <1>1, <2>1, <2>2, <2>3, BoundedElsewhere DEF Restores
  <1>2. ASSUME NEW c \in Call,
               Refuse(c) \/ Abandon(c) \/ Crash(c) \/ Ignore(c) \/ Close(c)
        PROVE  Bounded'
    BY <1>1, <1>2 DEF Refuse, Abandon, Crash, Ignore, Close, history
  <1>3. ASSUME NEW c \in Call,
               Arrive(c) \/ Acquire(c) \/ Answer(c) \/ CutWaiting(c)
        PROVE  Bounded'
    <2>1. circuit'.left <= opened' /\ opened' = opened
      BY <1>0, <1>3 DEF Arrive, Acquire, Answer, CutWaiting, Admit, Bounded, history
    <2>2. /\ pc[c] \in {"new", "slot", "calling"}
          /\ pc'[c] \in {"slot", "calling", "read"}
          /\ seen' = seen /\ late' = late
          /\ \A d \in Call \ {c} : pc'[d] = pc[d]
      BY <1>3 DEF Arrive, Acquire, Answer, CutWaiting, Return, Goto, recordVars,
                  Typed, CallsOK
    <2>3. late[c] = 0
      BY <2>2 DEF Bounded, Recording
    <2>4. QED
      BY <1>0, <2>1, <2>2, <2>3, BoundedElsewhere DEF Restores
  <1>4. ASSUME NEW c \in Call, Read(c) PROVE Bounded'
    <2>1. /\ circuit' = circuit /\ opened' = opened /\ late' = late
          /\ pc[c] = "read" /\ pc'[c] \in {"clear", "add"} /\ seen'[c] = circuit
          /\ \A d \in Call \ {c} : pc'[d] = pc[d] /\ seen'[d] = seen[d]
      BY <1>4 DEF Read, Goto, history, Typed, CallsOK, RecordsOK
    <2>2. late[c] = 0
      BY <2>1 DEF Bounded, Recording
    <2>3. Minus(seen'[c].left, late'[c]) <= opened'
      BY <1>0, <2>1, <2>2 DEF Minus, Bounded
    <2>4. c \in Recording'
      BY <2>1 DEF Recording
    <2>5. circuit'.left <= opened'
      BY <2>1 DEF Bounded
    <2>6. QED
      BY <1>0, <2>1, <2>3, <2>4, <2>5, BoundedElsewhere
  <1>5. ASSUME NEW c \in Call, Clear(c) \/ Add(c) \/ Count(c) PROVE Bounded'
    <2>1. /\ circuit' = circuit /\ opened' = opened /\ late' = late /\ seen' = seen
          /\ \A d \in Call \ {c} : pc'[d] = pc[d]
          /\ pc[c] = "clear" => pc'[c] = "close"
          /\ pc[c] # "clear" => pc[c] \in {"add", "count"}
          /\ pc'[c] \in {"close", "count", "write"}
      BY <1>5 DEF Clear, Add, Count, Goto, history, recordVars, Typed, CallsOK
    <2>2. c \in Recording'
      BY <2>1 DEF Recording
    <2>3. Restores(c)' => Minus(seen'[c].left, late'[c]) <= opened'
      BY <2>1 DEF Restores, StillOpen, Bounded
    <2>4. circuit'.left <= opened'
      BY <2>1 DEF Bounded
    <2>5. QED
      BY <1>0, <2>1, <2>2, <2>3, <2>4, BoundedElsewhere
  <1>6. ASSUME NEW c \in Call, Write(c) PROVE Bounded'
    <2>1. Minus(seen[c].left, late[c]) \in Nat /\ OpenTime - late[c] \in Nat
      BY DEF Typed, RecordsOK, Circuit, Minus
    <2>2. StillOpen(c) => Minus(seen[c].left, late[c]) <= opened
      BY <1>6 DEF Write, Restores, Bounded
    <2>3. opened' \in Nat /\ opened <= opened' /\ circuit'.left <= opened'
      BY <1>0, <1>6, <2>1, <2>2 DEF Write
    <2>4. pc'[c] = "gone" /\ late'[c] = 0
      BY <1>6 DEF Write, Leave, Typed, CallsOK, RecordsOK
    <2>5. \A d \in Call \ {c} : /\ pc'[d] = pc[d] /\ seen'[d] = seen[d]
                               /\ late'[d] = late[d]
      BY <1>6 DEF Write, Leave, Typed, CallsOK, RecordsOK
    <2>6. QED
      BY <2>3, <2>4, <2>5, BoundedElsewhere DEF Restores
  <1>7. CASE (\E c \in Call : Full(c)) \/ Expire \/ UNCHANGED vars
    BY <1>0, <1>7 DEF Full, Expire, Closed, vars, callVars, recordVars, history,
                      Bounded, Restores, StillOpen, Recording
  <1>8. CASE Tick
    BY <1>8, BoundedTick
  <1>9. QED
    BY <1>2, <1>3, <1>4, <1>5, <1>6, <1>7, <1>8 DEF Next, Record

\* An open circuit never outlasts the deadline of a record that opened it,
\* however records of calls in flight interleave and however late they write.
THEOREM OpenPeriodsEnd == Spec => []OpenNotExtended
  <1>1. Init => Bounded
    BY DEF Init, Bounded, Closed, Restores, Recording
  <1>2. Spec => [](Typed /\ Bounded)
    BY <1>1, TypedInit, TypedStep, BoundedStep, PTL DEF Spec
  <1>3. Bounded => OpenNotExtended
    BY DEF Bounded, OpenNotExtended
  <1>4. QED
    BY <1>2, <1>3, PTL
=============================================================================
