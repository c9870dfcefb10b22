---------------------------- MODULE RetryBreaker ----------------------------
(***************************************************************************)
(* infra/retry.py: coroutines wrapped by with_retry that share one         *)
(* CircuitBreaker.  The wrapped call is awaited, so callers interleave      *)
(* between the admission of an attempt and the record of its result, and   *)
(* again during the back-off sleep (its length is left open).              *)
(***************************************************************************)
EXTENDS Clock

CONSTANTS Callers,          \* the coroutines that share the breaker
          FailureThreshold, \* failure_threshold
          ResetTimeout,     \* reset_timeout
          MaxRetries,       \* max_retries of the decorator
          MaxCalls          \* bound: wrapped calls a run makes

ASSUME RetryAssumption ==
    /\ FailureThreshold \in Nat \ {0}
    /\ ResetTimeout \in Nat /\ MaxRetries \in Nat /\ MaxCalls \in Nat

VARIABLES breaker,      \* the CircuitBreaker: its state, _failure_count, _last_failure_time
          caller,       \* what each coroutine is doing and the attempt it is at
          calls,        \* wrapped calls made so far
          outage        \* history: failures since the last success or reset, and the last one

retryVars == <<breaker, caller, calls, outage>>

RetryTypeOK ==
    /\ breaker \in [state : {"closed", "open", "half_open"}, count : Nat, last : 0..Horizon]
    /\ caller \in [Callers -> [at : {"idle", "running", "backoff"}, attempt : 0..MaxRetries]]
    /\ calls \in 0..MaxCalls
    /\ outage \in [failures : Nat, last : 0..Horizon]

RetryInit ==
    /\ breaker = [state |-> "closed", count |-> 0, last |-> 0]
    /\ caller = [c \in Callers |-> [at |-> "idle", attempt |-> 0]]
    /\ calls = 0
    /\ outage = [failures |-> 0, last |-> 0]

\* The `state` property: reading it is what moves OPEN to HALF_OPEN.
Probed ==
    IF breaker.state = "open" /\ Since(breaker.last) >= ResetTimeout
        THEN [breaker EXCEPT !.state = "half_open"] ELSE breaker

\* record_success closes the breaker whatever its state.
RecordSuccess(b) == [b EXCEPT !.state = "closed", !.count = 0]

\* Mutant of RecordFailure: a failure while OPEN does not restart the timeout.
RecordFailureKeepsClock(b) ==
    LET n == b.count + 1 IN
    IF n >= FailureThreshold
        THEN [state |-> "open", count |-> n,
              last |-> IF b.state = "closed" THEN now ELSE b.last]
        ELSE [b EXCEPT !.count = n, !.last = now]

RecordFailure(b) ==
    LET n == b.count + 1 IN
    [state |-> IF n >= FailureThreshold THEN "open" ELSE b.state, count |-> n, last |-> now]

\* A fresh call, or the next turn of the loop: allow_request, then the call or RetryExhausted.
Admit(c) ==
    /\ \/ caller[c].at = "idle" /\ calls < MaxCalls /\ calls' = calls + 1
       \/ caller[c].at = "backoff" /\ UNCHANGED calls
    /\ breaker' = Probed
    /\ caller' = [caller EXCEPT ![c] =
          IF Probed.state = "open" THEN [at |-> "idle", attempt |-> 0]
                                   ELSE [@ EXCEPT !.at = "running"]]
    /\ UNCHANGED <<outage, now>>

Succeed(c) ==
    /\ caller[c].at = "running"
    /\ breaker' = RecordSuccess(breaker)
    /\ caller' = [caller EXCEPT ![c] = [at |-> "idle", attempt |-> 0]]
    /\ outage' = [outage EXCEPT !.failures = 0]
    /\ UNCHANGED <<calls, now>>

\* An exception of retry_on: sleep before the next attempt, or give up after the last.
FailAttempt(c) ==
    /\ caller[c].at = "running"
    /\ breaker' = RecordFailure(breaker)
    /\ caller' = [caller EXCEPT ![c] =
          IF @.attempt >= MaxRetries THEN [at |-> "idle", attempt |-> 0]
                                     ELSE [at |-> "backoff", attempt |-> @.attempt + 1]]
    /\ outage' = [failures |-> outage.failures + 1, last |-> now]
    /\ UNCHANGED <<calls, now>>

\* An exception outside retry_on, or a cancellation, during the call or the sleep:
\* it leaves through both, and the breaker records nothing.
Abandon(c) ==
    /\ caller[c].at # "idle"
    /\ caller' = [caller EXCEPT ![c] = [at |-> "idle", attempt |-> 0]]
    /\ UNCHANGED <<breaker, calls, outage, now>>

ResetBreaker ==
    /\ breaker.state # "closed" \/ breaker.count > 0
    /\ breaker' = [breaker EXCEPT !.state = "closed", !.count = 0]
    /\ outage' = [outage EXCEPT !.failures = 0]
    /\ UNCHANGED <<caller, calls, now>>

RetryTick == Tick /\ UNCHANGED retryVars

RetryNext ==
    \/ \E c \in Callers : Admit(c) \/ Succeed(c) \/ FailAttempt(c) \/ Abandon(c)
    \/ ResetBreaker \/ RetryTick

RetrySpec == now = 0 /\ RetryInit /\ [][RetryNext]_<<retryVars, now>>

-----------------------------------------------------------------------------
\* Safety, action property.  A degraded service is left alone: with FailureThreshold failures
\* since the last success, an attempt starts only ResetTimeout after the LAST of them,
\* whichever callers they came from and however late an attempt admitted before the outage
\* reports.  (The docstring's "HALF_OPEN: allows one request" is not so: allow_request
\* admits every caller until the first result arrives.)
ShedsLoad ==
    [][\A c \in Callers :
          caller[c].at # "running" /\ caller'[c].at = "running" /\ outage.failures >= FailureThreshold
            => Since(outage.last) >= ResetTimeout]_<<retryVars, now>>
=============================================================================
