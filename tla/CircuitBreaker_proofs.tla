------------------------ MODULE CircuitBreaker_proofs ------------------------
(***************************************************************************)
(* Proofs of the safety properties of CircuitBreaker, for any number of    *)
(* callers, any threshold, cooldown and number of attempts.                *)
(***************************************************************************)
EXTENDS CircuitBreaker, TLAPS

USE BreakerAssumption

\* Every variable stays in its range: in particular the failure counter never
\* runs past the threshold, although stale calls keep reporting failures.
\* TypeOK alone is not inductive: it needs failures < Threshold while closed.
TypeInv == TypeOK /\ ClosedBelowThreshold

LEMMA InitTypeInv == Init => TypeInv
<1> SUFFICES ASSUME Init
             PROVE  TypeInv
  OBVIOUS
<1>1. call \in [Callers -> {Idle} \cup InFlight \cup Answered]
  BY DEF Init
<1>2. /\ state = "CLOSED" /\ failures = 0 /\ openAge = Cooldown
      /\ trialAge = Cooldown /\ healthy \in BOOLEAN /\ lost = FALSE
  BY DEF Init
<1>3. /\ 0 \in 0..Threshold /\ Cooldown \in 0..Cooldown /\ 0 < Threshold
  BY BreakerAssumption
<1> QED
  BY <1>1, <1>2, <1>3, Zenon DEF TypeInv, TypeOK, ClosedBelowThreshold

LEMMA NextTypeInv == TypeInv /\ [Next]_vars => TypeInv'
<1> SUFFICES ASSUME TypeInv, [Next]_vars
             PROVE  TypeInv'
  OBVIOUS
<1> USE DEF TypeInv, TypeOK, ClosedBelowThreshold
<1>1. ASSUME NEW c \in Callers, NEW kind \in Kinds, Request(c, kind)
      PROVE  TypeInv'
  <2>1. PICK trial \in BOOLEAN :
           /\ AllowRequest(trial)
           /\ call' = [call EXCEPT ![c] = [pc |-> "sent", kind |-> kind,
                                           attempt |-> 1, trial |-> trial]]
    BY <1>1 DEF Request
  <2>2. [pc |-> "sent", kind |-> kind, attempt |-> 1, trial |-> trial] \in InFlight
    BY DEF InFlight
  <2>3. call' \in [Callers -> {Idle} \cup InFlight \cup Answered]
    BY <2>1, <2>2
  <2>4. /\ state' \in {"CLOSED", "OPEN", "HALF_OPEN"}
        /\ trialAge' \in 0..Cooldown
        /\ lost' \in BOOLEAN
        /\ state' = "CLOSED" => state = "CLOSED"
    <3>1. 0 \in 0..Cooldown
      OBVIOUS
    <3> QED
      BY <2>1, <3>1, Zenon DEF AllowRequest
  <2> QED
    BY <1>1, <2>3, <2>4 DEF Request
<1>2. ASSUME NEW c \in Callers, Answer(c)
      PROVE  TypeInv'
  <2>1. PICK a \in Answers :
           call' = [call EXCEPT ![c] = [pc |-> "answered", kind |-> call[c].kind,
                                        attempt |-> call[c].attempt,
                                        trial |-> call[c].trial, answer |-> a]]
    BY <1>2 DEF Answer, Answers
  <2>2. call[c] \in InFlight
    BY <1>2 DEF Answer, Idle, Answered
  <2>3. [pc |-> "answered", kind |-> call[c].kind, attempt |-> call[c].attempt,
         trial |-> call[c].trial, answer |-> a] \in Answered
    BY <2>2 DEF InFlight, Answered
  <2> QED
    BY <1>2, <2>1, <2>3 DEF Answer
<1>3. ASSUME NEW c \in Callers, Retry(c)
      PROVE  TypeInv'
  <2>1. call[c] \in Answered
    BY <1>3 DEF Retry, Idle, InFlight
  <2>2. call[c].attempt + 1 \in 1..Attempts
    BY <1>3, <2>1 DEF Retry, LastAttempt, Answered
  <2>3. [pc |-> "sent", kind |-> call[c].kind, attempt |-> call[c].attempt + 1,
         trial |-> call[c].trial] \in InFlight
    BY <2>1, <2>2 DEF InFlight, Answered
  <2> QED
    BY <1>3, <2>3 DEF Retry
<1>4. ASSUME NEW c \in Callers, Succeed(c)
      PROVE  TypeInv'
  BY <1>4 DEF Succeed, RecordSuccess
<1>5. ASSUME NEW c \in Callers, Fail(c)
      PROVE  TypeInv'
  BY <1>5 DEF Fail, RecordFailure, Trip
<1>6. ASSUME NEW c \in Callers, Refuse(c)
      PROVE  TypeInv'
  <2>1. call[c] \in Answered
    BY <1>6 DEF Refuse, Idle, InFlight
  <2>2. call[c].trial \in BOOLEAN
    BY <2>1 DEF Answered
  <2> QED
    BY <1>6, <2>2 DEF Refuse
<1>7. CASE Tick
  BY <1>7 DEF Tick, Capped
<1>8. CASE Flip
  BY <1>8 DEF Flip
<1>9. CASE UNCHANGED vars
  BY <1>9 DEF vars
<1> QED
  BY <1>1, <1>2, <1>3, <1>4, <1>5, <1>6, <1>7, <1>8, <1>9 DEF Next, Finish

\* The type invariant: every variable stays in its range, and the counter of
\* _consecutive_failures never exceeds the threshold.
THEOREM TypeCorrect == Spec => []TypeOK
<1>1. TypeInv => TypeOK
  BY DEF TypeInv
<1> QED
  BY <1>1, InitTypeInv, NextTypeInv, PTL DEF Spec

\* A closed circuit has recorded fewer failures than the threshold, so
\* record_failure trips exactly at the threshold and record_success leaves a
\* recovered circuit with a fresh count.
THEOREM ClosedCircuitBelowThreshold == Spec => []ClosedBelowThreshold
<1>1. TypeInv => ClosedBelowThreshold
  BY DEF TypeInv
<1> QED
  BY <1>1, InitTypeInv, NextTypeInv, PTL DEF Spec

-----------------------------------------------------------------------------
\* While the circuit is open the trial that preceded it is at least as old as
\* the opening: the strengthening that makes TrialsSpaced inductive.
OpenedAfterTrial == state = "OPEN" => openAge <= trialAge

LEMMA NextOpenedAfterTrial ==
  TypeInv /\ OpenedAfterTrial /\ [Next]_vars => OpenedAfterTrial'
<1> SUFFICES ASSUME TypeInv, OpenedAfterTrial, [Next]_vars
             PROVE  OpenedAfterTrial'
  OBVIOUS
<1> USE DEF TypeInv, TypeOK, OpenedAfterTrial
<1>1. ASSUME NEW c \in Callers, NEW kind \in Kinds, Request(c, kind)
      PROVE  OpenedAfterTrial'
  BY <1>1 DEF Request, AllowRequest
<1>2. ASSUME NEW c \in Callers, Answer(c) \/ Retry(c) \/ Refuse(c)
      PROVE  OpenedAfterTrial'
  BY <1>2 DEF Answer, Retry, Refuse
<1>3. ASSUME NEW c \in Callers, Succeed(c)
      PROVE  OpenedAfterTrial'
  BY <1>3 DEF Succeed, RecordSuccess
<1>4. ASSUME NEW c \in Callers, Fail(c)
      PROVE  OpenedAfterTrial'
  BY <1>4 DEF Fail, RecordFailure, Trip
<1>5. CASE Tick
  BY <1>5 DEF Tick, Capped
<1>6. CASE Flip \/ UNCHANGED vars
  BY <1>6 DEF Flip, vars
<1> QED
  BY <1>1, <1>2, <1>3, <1>4, <1>5, <1>6 DEF Next, Finish

\* Half-open trials are at least a cooldown apart, whatever the stale calls
\* report: allow_request compares with the latest _opened_at, and every way
\* back to OPEN renews it.
THEOREM TrialsAreSpaced == Spec => TrialsSpaced
<1>1. Init => OpenedAfterTrial
  BY DEF Init, OpenedAfterTrial
<1>2. TypeInv /\ OpenedAfterTrial /\ [Next]_vars
        => [state = "OPEN" /\ state' = "HALF_OPEN" => trialAge = Cooldown]_vars
  <2> SUFFICES ASSUME TypeInv, OpenedAfterTrial, Next,
                      state = "OPEN", state' = "HALF_OPEN"
               PROVE  trialAge = Cooldown
    BY DEF vars
  <2>1. PICK c \in Callers, kind \in Kinds : Request(c, kind)
    BY DEF Next, Finish, Answer, Retry, Succeed, Fail, Refuse, RecordSuccess,
           RecordFailure, Trip, Tick, Flip
  <2>2. openAge >= Cooldown
    BY <2>1 DEF Request, AllowRequest
  <2> QED
    BY <2>2 DEF OpenedAfterTrial, TypeInv, TypeOK
<1> QED
  BY <1>1, <1>2, InitTypeInv, NextTypeInv, NextOpenedAfterTrial, PTL
  DEF Spec, TrialsSpaced

-----------------------------------------------------------------------------
LEMMA NextHalfOpenAccounted ==
  TypeInv /\ HalfOpenAccounted /\ [Next]_vars => HalfOpenAccounted'
<1> SUFFICES ASSUME TypeInv, HalfOpenAccounted, [Next]_vars
             PROVE  HalfOpenAccounted'
  OBVIOUS
<1> USE DEF TypeInv, TypeOK, HalfOpenAccounted, OnTrial, Busy
<1>1. ASSUME NEW c \in Callers, NEW kind \in Kinds, Request(c, kind)
      PROVE  HalfOpenAccounted'
  <2>1. PICK trial \in BOOLEAN :
           /\ AllowRequest(trial)
           /\ call' = [call EXCEPT ![c] = [pc |-> "sent", kind |-> kind,
                                           attempt |-> 1, trial |-> trial]]
    BY <1>1 DEF Request
  <2>2. ASSUME trial
        PROVE  c \in OnTrial'
    BY <2>1, <2>2 DEF Idle
  <2> QED
    BY <2>1, <2>2 DEF AllowRequest
<1>2. ASSUME NEW c \in Callers, Answer(c) \/ Retry(c)
      PROVE  HalfOpenAccounted'
  <2>1. /\ UNCHANGED <<state, lost>>
        /\ \A d \in Callers : call'[d] # Idle <=> call[d] # Idle
        /\ \A d \in Callers : call[d] # Idle => call'[d].trial = call[d].trial
    BY <1>2 DEF Answer, Retry, Idle
  <2> QED
    BY <2>1
<1>3. ASSUME NEW c \in Callers, Succeed(c) \/ Fail(c)
      PROVE  HalfOpenAccounted'
  BY <1>3 DEF Succeed, RecordSuccess, Fail, RecordFailure, Trip
<1>4. ASSUME NEW c \in Callers, Refuse(c)
      PROVE  HalfOpenAccounted'
  <2>1. /\ state' = state
        /\ lost' = (lost \/ call[c].trial)
        /\ \A d \in Callers \ {c} : call'[d] = call[d]
    BY <1>4 DEF Refuse
  <2>2. call[c].trial \in BOOLEAN
    BY <1>4 DEF Refuse, Idle, InFlight, Answered
  <2> QED
    BY <2>1, <2>2
<1>5. CASE Tick \/ Flip \/ UNCHANGED vars
  BY <1>5 DEF Tick, Flip, vars
<1> QED
  BY <1>1, <1>2, <1>3, <1>4, <1>5 DEF Next, Finish

\* A half-open circuit always has a trial to wait for, unless a trial ended on
\* a path of _request that records nothing: that path is the only way for the
\* circuit to be stuck half-open.
THEOREM HalfOpenIsAccounted == Spec => []HalfOpenAccounted
<1>1. Init => HalfOpenAccounted
  BY DEF Init, HalfOpenAccounted
<1> QED
  BY <1>1, InitTypeInv, NextTypeInv, NextHalfOpenAccounted, PTL DEF Spec
=============================================================================
