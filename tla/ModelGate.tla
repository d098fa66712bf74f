------------------------------- MODULE ModelGate -------------------------------
(***************************************************************************)
(* Admission of model calls (queue.py): a call takes a concurrency slot,   *)
(* whose limit depends on a circuit breaker, calls the provider, gives the *)
(* slot back, and records its result, from which the circuit is computed   *)
(* anew.                                                                   *)
(*                                                                         *)
(* The acquire script runs atomically in Redis, while                      *)
(* record_model_call_result reads the circuit, adds its event, reads the   *)
(* window and writes the circuit in calls of their own.  Times are kept as *)
(* the time that is left, and Tick lets one unit pass.  A Call is one      *)
(* attempt of call_model_with_retry; a retry is another call.              *)
(***************************************************************************)
EXTENDS Integers, FiniteSets

CONSTANTS Call,            \* model call attempts
          BaseLimit,       \* VIDEO_REVIEW_MODEL_CONCURRENCY_LIMIT
          DegradedLimit,   \* max(1, floor(BaseLimit * degraded multiplier))
          SlotTtl,         \* lease of a concurrency slot
          CallTimeout,     \* wait_for around an attempt
          OpenTime,        \* how long an opened circuit stays open
          Window,          \* length of the health window
          MinRequests,     \* results needed to judge the window
          DegradedPercent, \* error rate that degrades the limit
          OpenPercent,     \* error rate that opens the circuit
          RecordTime       \* bound: duration of record_model_call_result

\* The defaults of config.py satisfy these (300 s, 180 s; 60 s; 3 % and 8 %).
ASSUME GateAssumption ==
  /\ IsFiniteSet(Call)
  /\ BaseLimit \in Nat \ {0} /\ DegradedLimit \in 1..BaseLimit
  /\ CallTimeout \in Nat \ {0} /\ SlotTtl \in Nat /\ SlotTtl > CallTimeout
  /\ RecordTime \in Nat /\ OpenTime \in Nat /\ OpenTime > RecordTime
  /\ Window \in Nat /\ Window > RecordTime
  /\ MinRequests \in Nat \ {0}
  /\ DegradedPercent \in 1..100 /\ OpenPercent \in 1..100

VARIABLES
  pc,       \* what each call does next
  lease,    \* time left of its slot; 0: not a member of the active set
  spent,    \* time since its admission
  outcome,  \* what the call returned: ok, an upstream error, another error
  health,   \* its result in the health window: time left (0: none), an error?
  circuit,  \* mode, and time left until open_until
  seen,     \* the circuit its record read
  late,     \* time since its record read the clock
  verdict,  \* the mode its record is about to write
  probes,   \* history: calls admitted since the circuit became half-open
  opened    \* history: time left of the last deadline set by opening the circuit

callVars   == <<spent, outcome>>
recordVars == <<seen, late, verdict>>
history    == <<probes, opened>>
vars       == <<pc, callVars, recordVars, lease, health, circuit, history>>

Mode    == {"closed", "degraded", "open", "half_open"}
Circuit == [mode : Mode, left : 0..OpenTime]
Closed  == [mode |-> "closed", left |-> 0]
NoEvent == [left |-> 0, error |-> FALSE]

Recording == {c \in Call : pc[c] \in {"add", "count", "write", "clear", "close"}}
Calling   == {c \in Call : pc[c] = "calling"}
Members   == {c \in Call : lease[c] > 0}

Init ==
  /\ pc = [c \in Call |-> "new"]
  /\ lease = [c \in Call |-> 0] /\ spent = [c \in Call |-> 0]
  /\ outcome = [c \in Call |-> "none"]
  /\ health = [c \in Call |-> NoEvent]
  /\ circuit = Closed
  /\ seen = [c \in Call |-> Closed]
  /\ late = [c \in Call |-> 0]
  /\ verdict = [c \in Call |-> "closed"]
  /\ probes = {} /\ opened = 0

Minus(n, k) == IF n > k THEN n - k ELSE 0
Down(n)     == Minus(n, 1)

Goto(c, l) == pc' = [pc EXCEPT ![c] = l]

\* The call returns or raises; its local variables are gone.
Leave(c) ==
  /\ pc' = [pc EXCEPT ![c] = "gone"]
  /\ spent' = [spent EXCEPT ![c] = 0]
  /\ outcome' = [outcome EXCEPT ![c] = "none"]
  /\ seen' = [seen EXCEPT ![c] = Closed]
  /\ late' = [late EXCEPT ![c] = 0]
  /\ verdict' = [verdict EXCEPT ![c] = "closed"]

-----------------------------------------------------------------------------
(* acquire_model_concurrency_slot *)

\* The call has its QPM token and asks for a slot.
Arrive(c) ==
  /\ pc[c] = "new"
  /\ Goto(c, "slot")
  /\ UNCHANGED <<callVars, recordVars, lease, health, circuit, history>>

\* Mutation of ModeNow: nothing turns an open circuit half-open.
ModeNowStuck == circuit.mode

\* An open circuit whose time is up turns half-open for whoever looks next.
ModeNow == IF circuit.mode = "open" THEN "half_open" ELSE circuit.mode

\* Mutation of LimitIn: a half-open circuit admits as many as a closed one.
LimitInUnprobed(m) == IF m = "degraded" THEN DegradedLimit ELSE BaseLimit

\* base_limit times the multiplier of the mode; 0 while open.
LimitIn(m) ==
  CASE m = "closed"    -> BaseLimit
    [] m = "degraded"  -> DegradedLimit
    [] m = "half_open" -> 1
    [] OTHER           -> 0

HasRoom == Cardinality(Members) < LimitIn(ModeNow)

\* Mutation of Admit: the lease is shorter than the call may take.
AdmitShortLease(c) ==
  /\ circuit.left = 0 /\ HasRoom
  /\ circuit' = [mode |-> ModeNow, left |-> 0]
  /\ lease' = [lease EXCEPT ![c] = CallTimeout - 1]
  /\ probes' = IF ModeNow = "half_open" THEN probes \cup {c} ELSE probes
  /\ UNCHANGED opened

\* The acquire script grants a slot.
Admit(c) ==
  /\ circuit.left = 0 /\ HasRoom
  /\ circuit' = [mode |-> ModeNow, left |-> 0]
  /\ lease' = [lease EXCEPT ![c] = SlotTtl]
  /\ probes' = IF ModeNow = "half_open" THEN probes \cup {c} ELSE probes
  /\ UNCHANGED opened

Acquire(c) ==
  /\ pc[c] = "slot"
  /\ Admit(c)
  /\ Goto(c, "calling")
  /\ UNCHANGED <<spent, outcome, recordVars, health>>

\* The script finds the active set full; it may turn the circuit half-open.
Full(c) ==
  /\ pc[c] = "slot"
  /\ circuit.left = 0 /\ ~HasRoom
  /\ circuit' = [mode |-> ModeNow, left |-> 0]
  /\ UNCHANGED <<pc, callVars, recordVars, lease, health, history>>

\* The wait for the slot or for the circuit is over; such an error is local
\* (classify_model_error calls it circuit) and is not recorded.
Refuse(c) ==
  /\ pc[c] = "slot"
  /\ circuit.left > 0 \/ ~HasRoom
  /\ Leave(c)
  /\ UNCHANGED <<lease, health, circuit, history>>

-----------------------------------------------------------------------------
(* The call itself *)

Return(c, o) ==
  /\ outcome' = [outcome EXCEPT ![c] = o]
  /\ spent' = [spent EXCEPT ![c] = 0]
  /\ Goto(c, "read")
  /\ UNCHANGED <<recordVars, health>>

\* The provider answers, or wait_for cuts the call, an upstream error too; the
\* slot is given back before the result is recorded.
Answer(c) ==
  /\ pc[c] = "calling"
  /\ \E o \in {"ok", "upstream", "other"} : Return(c, o)
  /\ lease' = [lease EXCEPT ![c] = 0]
  /\ UNCHANGED <<circuit, history>>

\* wait_for cuts an attempt that still waits for its slot: to the
\* record that is an upstream error.  A slot may have been granted unnoticed.
CutWaiting(c) ==
  /\ pc[c] = "slot"
  /\ Return(c, "upstream")
  /\ \/ UNCHANGED <<lease, circuit, history>>
     \/ Admit(c)

\* The stage is cancelled: the slot is given back and nothing recorded.
Abandon(c) ==
  /\ pc[c] \in {"slot", "calling"}
  /\ lease' = [lease EXCEPT ![c] = 0]
  /\ Leave(c)
  /\ UNCHANGED <<health, circuit, history>>

\* The process dies; its lease runs out by itself.
Crash(c) ==
  /\ pc[c] \notin {"new", "gone"}
  /\ Leave(c)
  /\ UNCHANGED <<lease, health, circuit, history>>

-----------------------------------------------------------------------------
(* record_model_call_result *)

\* Only rate limits and transient errors count against the circuit, and any
\* other result of a call closes a half-open one.
Read(c) ==
  /\ pc[c] = "read"
  /\ seen' = [seen EXCEPT ![c] = circuit]
  /\ \/ circuit.mode = "half_open" /\ outcome[c] # "upstream" /\ Goto(c, "clear")
     \/ circuit.mode # "half_open" /\ outcome[c] = "ok" /\ Goto(c, "add")
     \/ outcome[c] = "upstream" /\ Goto(c, "add")
  /\ UNCHANGED <<spent, outcome, late, verdict, lease, health, circuit, history>>

Ignore(c) ==
  /\ pc[c] = "read"
  /\ circuit.mode # "half_open" /\ outcome[c] = "other"
  /\ Leave(c)
  /\ UNCHANGED <<lease, health, circuit, history>>

Clear(c) ==
  /\ pc[c] = "clear"
  /\ health' = [d \in Call |-> NoEvent]
  /\ Goto(c, "close")
  /\ UNCHANGED <<spent, outcome, recordVars, lease, circuit, history>>

Close(c) ==
  /\ pc[c] = "close"
  /\ circuit' = Closed
  /\ probes' = {} /\ UNCHANGED opened
  /\ Leave(c)
  /\ UNCHANGED <<lease, health>>

\* Mutation of Add: the event's time lies ahead by what the record took so far.
AddAhead(c) ==
  /\ pc[c] = "add"
  /\ health' = [health EXCEPT ![c] = [left  |-> Window + late[c],
                                     error |-> outcome[c] = "upstream"]]
  /\ Goto(c, "count")
  /\ UNCHANGED <<spent, outcome, recordVars, lease, circuit, history>>

Add(c) ==
  /\ pc[c] = "add"
  /\ health' = [health EXCEPT ![c] = [left  |-> Window - late[c],
                                     error |-> outcome[c] = "upstream"]]
  /\ Goto(c, "count")
  /\ UNCHANGED <<spent, outcome, recordVars, lease, circuit, history>>

\* Does the window hold enough results with an error rate of at least p percent?
RateReaches(p) ==
  LET events == {d \in Call : health[d].left > 0}
      errors == {d \in events : health[d].error}
  IN  /\ Cardinality(events) >= MinRequests
      /\ 100 * Cardinality(errors) >= p * Cardinality(events)

StillOpen(c) == seen[c].mode = "open" /\ seen[c].left > 0

Judge(c) ==
  CASE StillOpen(c)                                           -> "open"
    [] seen[c].mode = "half_open" /\ outcome[c] = "upstream"  -> "open"
    [] ~StillOpen(c) /\ RateReaches(OpenPercent)              -> "open"
    [] OTHER -> IF RateReaches(DegradedPercent) THEN "degraded" ELSE "closed"

Count(c) ==
  /\ pc[c] = "count"
  /\ verdict' = [verdict EXCEPT ![c] = Judge(c)]
  /\ Goto(c, "write")
  /\ UNCHANGED <<spent, outcome, seen, late, lease, health, circuit, history>>

\* Mutation of Write: every record that finds the circuit open restarts its time.
WriteRestarts(c) ==
  /\ pc[c] = "write"
  /\ LET left == OpenTime - late[c]
     IN  /\ circuit' = [mode |-> verdict[c],
                        left |-> IF verdict[c] = "open" THEN left ELSE 0]
         /\ opened' = IF verdict[c] = "open" /\ ~StillOpen(c) /\ left > opened
                      THEN left ELSE opened
  /\ probes' = {}
  /\ Leave(c)
  /\ UNCHANGED <<lease, health>>

\* open_until is the one that was read, or OpenTime after the clock was read.
Write(c) ==
  /\ pc[c] = "write"
  /\ LET left == IF StillOpen(c) THEN Minus(seen[c].left, late[c])
                 ELSE OpenTime - late[c]
     IN  /\ circuit' = [mode |-> verdict[c],
                        left |-> IF verdict[c] = "open" THEN left ELSE 0]
         /\ opened' = IF verdict[c] = "open" /\ ~StillOpen(c) /\ left > opened
                      THEN left ELSE opened
  /\ probes' = {}
  /\ Leave(c)
  /\ UNCHANGED <<lease, health>>

-----------------------------------------------------------------------------

\* The circuit's key expires some time after the last result.
Expire ==
  /\ circuit.left = 0
  /\ circuit' = Closed
  /\ probes' = {} /\ UNCHANGED opened
  /\ UNCHANGED <<pc, callVars, recordVars, lease, health>>

Tick ==
  /\ \A c \in Calling : spent[c] < CallTimeout
  /\ \A c \in Recording : late[c] < RecordTime
  /\ lease' = [c \in Call |-> Down(lease[c])]
  /\ spent' = [c \in Call |-> IF c \in Calling THEN spent[c] + 1 ELSE spent[c]]
  /\ health' = [c \in Call |-> IF health[c].left > 1
                               THEN [health[c] EXCEPT !.left = @ - 1] ELSE NoEvent]
  /\ circuit' = [circuit EXCEPT !.left = Down(@)]
  /\ late' = [c \in Call |-> IF c \in Recording THEN late[c] + 1 ELSE late[c]]
  /\ opened' = Down(opened)
  /\ UNCHANGED <<pc, outcome, seen, verdict, probes>>

Record(c) ==
  Read(c) \/ Ignore(c) \/ Clear(c) \/ Close(c) \/ Add(c) \/ Count(c) \/ Write(c)

Next ==
  \/ \E c \in Call :
       \/ Arrive(c) \/ Acquire(c) \/ Full(c) \/ Refuse(c)
       \/ Answer(c) \/ CutWaiting(c) \/ Abandon(c) \/ Crash(c)
       \/ Record(c)
  \/ Expire \/ Tick

Spec == Init /\ [][Next]_vars

\* Time passes, a call that has its turn polls and records, and the provider
\* answers or is cut; no timeout of a waiting call is relied upon.
Proceed(c) == Acquire(c) \/ Full(c) \/ Answer(c) \/ Record(c)

Fairness == WF_vars(Tick) /\ \A c \in Call : WF_vars(Proceed(c))

FairSpec == Spec /\ Fairness

-----------------------------------------------------------------------------
(* Properties *)

\* Types of all variables.
TypeOK ==
  /\ pc \in [Call -> {"new", "slot", "calling", "read", "add", "count",
                      "write", "clear", "close", "gone"}]
  /\ lease \in [Call -> 0..SlotTtl]
  /\ spent \in [Call -> 0..CallTimeout]
  /\ outcome \in [Call -> {"none", "ok", "upstream", "other"}]
  /\ health \in [Call -> [left : 0..Window, error : BOOLEAN]]
  /\ circuit \in Circuit
  /\ seen \in [Call -> Circuit]
  /\ late \in [Call -> 0..RecordTime]
  /\ verdict \in [Call -> Mode]
  /\ probes \subseteq Call /\ opened \in 0..OpenTime

\* Never more calls at the provider than the configured limit, although leases
\* expire, circuits change the limit and waiting calls are cut.
RunningWithinLimit == Cardinality(Calling) <= BaseLimit

\* A probe of a half-open circuit starts when no other call is running, not
\* even one from before the circuit opened.
ProbeRunsAlone ==
  [][\A c \in Call :
       pc[c] = "slot" /\ pc'[c] = "calling" /\ circuit'.mode = "half_open"
         => Calling \subseteq {c}]_vars

\* The circuit is never open beyond a deadline set by a record that opened it:
\* the results of calls in flight do not extend an open period they have seen.
OpenNotExtended == circuit.left <= opened

\* Neither an open or half-open circuit nor a leaked slot shuts the gate for
\* good: even if their own timeouts never fire, no call waits for ever.
WaitersServed == []<>(\A c \in Call : pc[c] # "slot")
=============================================================================
