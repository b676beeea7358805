--------------------------- MODULE CircuitBreaker ---------------------------
(***************************************************************************)
(* The circuit breaker of one base_url (backend/services/api_resilience.py)*)
(* and the threads that go through it: MarketAPIClient._request and        *)
(* health_check (backend/services/api_client.py).                          *)
(*                                                                         *)
(* The breaker's own methods run under its lock, so each is atomic.  What  *)
(* is not atomic is a call: allow_request, every attempt on the wire and   *)
(* the final record_* are separate steps, and the callers are the event    *)
(* loop, the thread pool of POST /market/sync-prices and the scheduler's   *)
(* worker threads.                                                         *)
(*                                                                         *)
(* The clock is kept as two ages capped at the cooldown, which is all the  *)
(* code compares it with; the state space is finite without a time bound.  *)
(***************************************************************************)
EXTENDS Integers, FiniteSets

CONSTANTS
    Callers,     \* threads that may call the API at the same time
    Threshold,   \* circuit_failure_threshold, after max(1, _)
    Cooldown,    \* circuit_cooldown_seconds, in ticks
    Attempts,    \* retry_attempts, after max(1, _)
    UpAnswers    \* what a healthy provider may answer

\* "ok"        a 2xx answer
\* "transient" TransportError, 5xx or 429 (should_retry_http)
\* "refused"   404 or any other status that is neither success nor retried
Answers == {"ok", "transient", "refused"}

ASSUME BreakerAssumption ==
    /\ Threshold \in Nat \ {0}
    /\ Cooldown \in Nat
    /\ Attempts \in Nat \ {0}
    /\ UpAnswers \subseteq Answers

VARIABLES
    state,       \* _state
    failures,    \* _consecutive_failures
    openAge,     \* now - _opened_at, capped at Cooldown
    healthy,     \* is the provider reachable and well
    call,        \* what each caller is doing
    trialAge,    \* history: time since the last half-open trial was granted, capped
    lost         \* history: a half-open trial ended with no record_* call

vars == <<state, failures, openAge, healthy, call, trialAge, lost>>

Kinds == {"request", "health_check"}
Idle == [pc |-> "idle"]
InFlight == [pc : {"sent"}, kind : Kinds, attempt : 1..Attempts, trial : BOOLEAN]
Answered == [pc : {"answered"}, kind : Kinds, attempt : 1..Attempts,
             trial : BOOLEAN, answer : Answers]

Busy(c) == call[c] # Idle
OnTrial == {c \in Callers : Busy(c) /\ call[c].trial}

TypeOK ==
    /\ state \in {"CLOSED", "OPEN", "HALF_OPEN"}
    /\ failures \in 0..Threshold
    /\ openAge \in 0..Cooldown
    /\ healthy \in BOOLEAN
    /\ call \in [Callers -> {Idle} \cup InFlight \cup Answered]
    /\ trialAge \in 0..Cooldown
    /\ lost \in BOOLEAN

Init ==
    /\ state = "CLOSED"
    /\ failures = 0
    /\ openAge = Cooldown
    /\ healthy \in BOOLEAN
    /\ call = [c \in Callers |-> Idle]
    /\ trialAge = Cooldown
    /\ lost = FALSE

-----------------------------------------------------------------------------
(* The breaker.  Each operator is the effect of one locked method.         *)

\* allow_request: granted while closed; the first caller after the cooldown
\* turns an open circuit half-open.  A denied caller fails fast: no step.
AllowRequest(trial) ==
    \/ /\ state = "CLOSED"
       /\ trial = FALSE
       /\ UNCHANGED <<state, trialAge, lost>>
    \/ /\ state = "OPEN"
       /\ openAge >= Cooldown
       /\ trial = TRUE
       /\ state' = "HALF_OPEN"
       /\ trialAge' = 0
       /\ lost' = FALSE

\* Mutated forms: the count survives the recovery; the trial's success is
\* not recognised.
RecordSuccess_keeps_count ==
    /\ state' = IF state = "HALF_OPEN" THEN "CLOSED" ELSE state
    /\ UNCHANGED <<failures, openAge>>
RecordSuccess_never_closes == failures' = 0 /\ UNCHANGED <<state, openAge>>

RecordSuccess ==
    /\ failures' = 0
    /\ state' = IF state = "HALF_OPEN" THEN "CLOSED" ELSE state
    /\ UNCHANGED openAge

Trip == state' = "OPEN" /\ openAge' = 0

\* Mutated forms: failures keep counting while open; a failed trial is
\* ignored; a failed trial re-opens on the old cooldown.
RecordFailure_counts_while_open ==
    /\ failures' = failures + 1
    /\ IF state = "CLOSED" /\ failures + 1 >= Threshold THEN Trip ELSE UNCHANGED <<state, openAge>>
RecordFailure_ignores_trial ==
    /\ failures' = IF state = "CLOSED" THEN failures + 1 ELSE failures
    /\ IF state = "CLOSED" /\ failures + 1 >= Threshold THEN Trip ELSE UNCHANGED <<state, openAge>>
RecordFailure_old_cooldown ==
    \/ /\ state = "CLOSED"
       /\ failures' = failures + 1
       /\ IF failures + 1 >= Threshold THEN Trip ELSE UNCHANGED <<state, openAge>>
    \/ /\ state # "CLOSED"
       /\ failures' = 0
       /\ state' = "OPEN"
       /\ UNCHANGED openAge

RecordFailure ==
    \/ /\ state = "CLOSED"
       /\ failures' = failures + 1
       /\ IF failures + 1 >= Threshold THEN Trip ELSE UNCHANGED <<state, openAge>>
    \/ /\ state = "HALF_OPEN"
       /\ failures' = 0
       /\ Trip
    \/ /\ state = "OPEN"
       /\ UNCHANGED <<state, failures, openAge>>

-----------------------------------------------------------------------------
(* The callers.                                                            *)

\* The head of _request and of health_check, up to the first bytes sent.
Request(c, kind) ==
    /\ ~Busy(c)
    /\ \E trial \in BOOLEAN :
         /\ AllowRequest(trial)
         /\ call' = [call EXCEPT ![c] = [pc |-> "sent", kind |-> kind,
                                         attempt |-> 1, trial |-> trial]]
    /\ UNCHANGED <<failures, openAge, healthy>>

\* The wire answers, or the client's timeout does: both end within the
\* configured timeout.  An unhealthy provider gives transient errors only.
Answer(c) ==
    /\ call[c].pc = "sent"
    /\ \E a \in IF healthy THEN UpAnswers ELSE {"transient"} :
         call' = [call EXCEPT ![c] = [pc |-> "answered", kind |-> call[c].kind,
                                      attempt |-> call[c].attempt,
                                      trial |-> call[c].trial, answer |-> a]]
    /\ UNCHANGED <<state, failures, openAge, healthy, trialAge, lost>>

LastAttempt(c) == call[c].kind = "health_check" \/ call[c].attempt = Attempts

\* A transient failure with attempts left: back off and send again.
Retry(c) ==
    /\ call[c].pc = "answered"
    /\ call[c].answer = "transient"
    /\ ~LastAttempt(c)
    /\ call' = [call EXCEPT ![c] = [pc |-> "sent", kind |-> call[c].kind,
                                    attempt |-> call[c].attempt + 1,
                                    trial |-> call[c].trial]]
    /\ UNCHANGED <<state, failures, openAge, healthy, trialAge, lost>>

\* raise_for_status passed: record_success, return the body.
Succeed(c) ==
    /\ call[c].pc = "answered"
    /\ call[c].answer = "ok"
    /\ RecordSuccess
    /\ call' = [call EXCEPT ![c] = Idle]
    /\ UNCHANGED <<healthy, trialAge, lost>>

\* Retries exhausted, or any failure of a health probe: record_failure.
Fail(c) ==
    /\ call[c].pc = "answered"
    /\ \/ call[c].answer = "transient" /\ LastAttempt(c)
       \/ call[c].answer = "refused" /\ call[c].kind = "health_check"
    /\ RecordFailure
    /\ call' = [call EXCEPT ![c] = Idle]
    /\ UNCHANGED <<healthy, trialAge, lost>>

\* _request raises MarketAPINotFound or MarketAPIError on a non-retryable
\* status: neither record_success nor record_failure is called.
Refuse(c) ==
    /\ call[c].pc = "answered"
    /\ call[c].answer = "refused"
    /\ call[c].kind = "request"
    /\ call' = [call EXCEPT ![c] = Idle]
    /\ lost' = (lost \/ call[c].trial)
    /\ UNCHANGED <<state, failures, openAge, healthy, trialAge>>

Capped(age) == IF age < Cooldown THEN age + 1 ELSE age

Tick ==
    /\ openAge < Cooldown \/ trialAge < Cooldown
    /\ openAge' = Capped(openAge)
    /\ trialAge' = Capped(trialAge)
    /\ UNCHANGED <<state, failures, healthy, call, lost>>

\* The provider goes down or comes back.
Flip ==
    /\ healthy' = ~healthy
    /\ UNCHANGED <<state, failures, openAge, call, trialAge, lost>>

Finish(c) == Retry(c) \/ Succeed(c) \/ Fail(c) \/ Refuse(c)

Next ==
    \/ \E c \in Callers :
         \/ \E kind \in Kinds : Request(c, kind)
         \/ Answer(c)
         \/ Finish(c)
    \/ Tick
    \/ Flip

Spec == Init /\ [][Next]_vars

(* Time passes, a request in flight ends (the client times out), a thread  *)
(* that has its answer processes it, and calls keep coming: the price and  *)
(* rate jobs are cron jobs and the health route is polled.  Nothing is     *)
(* assumed of the provider.                                                *)
Fairness ==
    /\ WF_vars(Tick)
    /\ \A c \in Callers :
         /\ WF_vars(Answer(c))
         /\ WF_vars(Finish(c))
         /\ WF_vars(\E kind \in Kinds : Request(c, kind))

FairSpec == Spec /\ Fairness

-----------------------------------------------------------------------------
(* Properties.                                                             *)

\* A closed circuit always has fewer recorded failures than the threshold:
\* the trip is never skipped or late, and a circuit that recovered starts
\* counting afresh rather than with the failures that opened it.
ClosedBelowThreshold == state = "CLOSED" => failures < Threshold

\* A circuit is half-open only while a trial request is in flight, or after
\* one that ended without telling the breaker how it ended.
HalfOpenAccounted == state = "HALF_OPEN" => OnTrial # {} \/ lost

\* During an outage the provider sees at most one half-open trial per
\* cooldown, whatever the answers of the calls that were already in flight:
\* each way back to OPEN starts a fresh cooldown.
TrialsSpaced ==
    [][state = "OPEN" /\ state' = "HALF_OPEN" => trialAge = Cooldown]_vars

\* A provider that stays healthy gets the circuit closed again: a fail-fast
\* state is never permanent.
Recovers == <>[]healthy => []<>(state = "CLOSED")

\* api_resilience.py, allow_request: "Only one half-open trial is allowed at
\* a time."  A call that was in flight before the outage can report its
\* failure while the trial is out; that re-opens the circuit, and after the
\* cooldown a second trial starts beside the first.
SingleTrial == Cardinality(OnTrial) <= 1

\* api_resilience.py, CircuitBreaker: the trial's "success recovers to
\* CLOSED, failure re-opens the circuit".  A trial refused with a
\* non-retryable status does neither.
TrialResolves == state = "HALF_OPEN" ~> state # "HALF_OPEN"
=============================================================================
