-------------------------- MODULE ComponentProofs --------------------------
(***************************************************************************)
(* Safety of components beside the trading cycle, for every number of      *)
(* callers or processes and every value of the settings.  For each one:    *)
(* the inductive invariant, that the initial state has it, that each       *)
(* action keeps it, and what follows from it.                              *)
(***************************************************************************)
EXTENDS RetryBreaker, CallBreaker, RateLimiter, PidLock, TrailingStop, PriceAlerts,
        JobScheduler, LearnedState, Wallets, PaperEngine, Slippage, Twap, SumTheorems


-----------------------------------------------------------------------------
(* RetryBreaker: what the breaker counts is what happened.                 *)

RetryInv ==
    /\ now \in 0..Horizon
    /\ RetryTypeOK
    /\ breaker.count = outage.failures /\ breaker.last = outage.last /\ breaker.last <= now
    /\ breaker.state = "closed" <=> breaker.count < FailureThreshold
    /\ breaker.state = "half_open" => Since(breaker.last) >= ResetTimeout

\* The breaker starts closed, having counted nothing (CircuitBreaker.__init__).
LEMMA RetryInitially == now = 0 /\ RetryInit => RetryInv
BY RetryAssumption, ClockAssumption DEF RetryInit, RetryInv, RetryTypeOK, Since

\* Reading `state` keeps the invariant and moves OPEN to HALF_OPEN only after the timeout.
LEMMA ProbedSound ==
    ASSUME RetryInv
    PROVE  /\ Probed \in [state : {"closed", "open", "half_open"}, count : Nat, last : 0..Horizon]
           /\ Probed.count = breaker.count /\ Probed.last = breaker.last
           /\ Probed.state = "closed" <=> breaker.state = "closed"
           /\ Probed.state = "half_open" => Since(breaker.last) >= ResetTimeout
BY DEF RetryInv, RetryTypeOK, Probed, Since

\* Every step of a caller, of an operator and of the clock keeps the counts those of the outage.
LEMMA RetryStep == RetryInv /\ [RetryNext]_<<retryVars, now>> => RetryInv'
<1> SUFFICES ASSUME RetryInv, [RetryNext]_<<retryVars, now>> PROVE RetryInv'
    OBVIOUS
<1> USE RetryAssumption, ClockAssumption
<1>1. ASSUME NEW c \in Callers, Admit(c) PROVE RetryInv'
  <2>1. breaker' = Probed /\ UNCHANGED <<outage, now>>
        BY <1>1 DEF Admit
  <2>2. caller' \in [Callers -> [at : {"idle", "running", "backoff"}, attempt : 0..MaxRetries]]
        BY <1>1 DEF Admit, RetryInv, RetryTypeOK
  <2>3. calls' \in 0..MaxCalls
        BY <1>1 DEF Admit, RetryInv, RetryTypeOK
  <2> QED BY <2>1, <2>2, <2>3, ProbedSound DEF RetryInv, RetryTypeOK, Since
<1>2. ASSUME NEW c \in Callers, Succeed(c) PROVE RetryInv'
  <2>1. caller' \in [Callers -> [at : {"idle", "running", "backoff"}, attempt : 0..MaxRetries]]
        BY <1>2 DEF Succeed, RetryInv, RetryTypeOK
  <2>2. UNCHANGED <<calls, now>>
        BY <1>2 DEF Succeed
  <2>3. /\ breaker' = [state |-> "closed", count |-> 0, last |-> breaker.last]
        /\ outage' = [failures |-> 0, last |-> outage.last]
        BY <1>2 DEF Succeed, RecordSuccess, RetryInv, RetryTypeOK
  <2> QED BY <2>1, <2>2, <2>3 DEF RetryInv, RetryTypeOK, Since
<1>3. ASSUME NEW c \in Callers, FailAttempt(c) PROVE RetryInv'
  <2>1. caller' \in [Callers -> [at : {"idle", "running", "backoff"}, attempt : 0..MaxRetries]]
        BY <1>3 DEF FailAttempt, RetryInv, RetryTypeOK
  <2>2. /\ breaker' = [state |-> IF breaker.count + 1 >= FailureThreshold THEN "open" ELSE breaker.state,
                       count |-> breaker.count + 1, last |-> now]
        /\ outage' = [failures |-> outage.failures + 1, last |-> now]
        /\ UNCHANGED <<calls, now>>
        BY <1>3 DEF FailAttempt, RecordFailure
  <2> QED BY <2>1, <2>2 DEF RetryInv, RetryTypeOK, Since
<1>4. ASSUME NEW c \in Callers, Abandon(c) PROVE RetryInv'
  <2>1. caller' \in [Callers -> [at : {"idle", "running", "backoff"}, attempt : 0..MaxRetries]]
        BY <1>4 DEF Abandon, RetryInv, RetryTypeOK
  <2>2. UNCHANGED <<breaker, calls, outage, now>>
        BY <1>4 DEF Abandon
  <2> QED BY <2>1, <2>2 DEF RetryInv, RetryTypeOK, Since
<1>5. CASE ResetBreaker
  <2>1. UNCHANGED <<caller, calls, now>>
        BY <1>5 DEF ResetBreaker
  <2>2. /\ breaker' = [state |-> "closed", count |-> 0, last |-> breaker.last]
        /\ outage' = [failures |-> 0, last |-> outage.last]
        BY <1>5 DEF ResetBreaker, RetryInv, RetryTypeOK
  <2> QED BY <2>1, <2>2 DEF RetryInv, RetryTypeOK, Since
<1>6. CASE RetryTick
      BY <1>6 DEF RetryTick, Tick, retryVars, RetryInv, RetryTypeOK, Since
<1>7. CASE UNCHANGED <<retryVars, now>>
      BY <1>7 DEF retryVars, RetryInv, RetryTypeOK, Since
<1> QED BY <1>1, <1>2, <1>3, <1>4, <1>5, <1>6, <1>7 DEF RetryNext

\* Any number of callers leave a degraded service alone (allow_request, record_failure).
THEOREM RetryShedsLoad == RetrySpec => ShedsLoad
<1>1. RetryInv /\ [RetryNext]_<<retryVars, now>> =>
        [\A c \in Callers :
          caller[c].at # "running" /\ caller'[c].at = "running" /\ outage.failures >= FailureThreshold
            => Since(outage.last) >= ResetTimeout]_<<retryVars, now>>
  <2> SUFFICES ASSUME RetryInv, RetryNext, NEW c \in Callers,
                      caller[c].at # "running", caller'[c].at = "running",
                      outage.failures >= FailureThreshold
               PROVE  Since(outage.last) >= ResetTimeout
      OBVIOUS
  <2> USE RetryAssumption
  <2>1. ~(ResetBreaker \/ RetryTick)
        BY DEF ResetBreaker, RetryTick, retryVars
  <2>2. PICK d \in Callers : Admit(d) \/ Succeed(d) \/ FailAttempt(d) \/ Abandon(d)
        BY <2>1 DEF RetryNext
  <2>3. Admit(d) /\ Probed.state # "open"
        BY <2>2 DEF Admit, Succeed, FailAttempt, Abandon, RetryInv, RetryTypeOK
  <2>4. Probed.state = "half_open"
        BY <2>3, ProbedSound DEF RetryInv, RetryTypeOK
  <2> QED BY <2>4, ProbedSound DEF RetryInv
<1>2. RetrySpec => []RetryInv
      BY RetryInitially, RetryStep, PTL DEF RetrySpec
<1> QED BY <1>1, <1>2, PTL DEF RetrySpec, ShedsLoad

-----------------------------------------------------------------------------
(* CallBreaker: the successes that count are those since the circuit left  *)
(* OPEN.                                                                   *)

CallInv ==
    /\ now \in 0..Horizon
    /\ CallTypeOK
    /\ circuit.state = "HALF_OPEN" =>
         probes >= circuit.successes /\ circuit.successes < SuccessThreshold

\* The circuit starts closed (CircuitBreaker.__init__).
LEMMA CallInitially == now = 0 /\ CallInit => CallInv
BY CallAssumption, ClockAssumption DEF CallInit, CallInv, CallTypeOK, Reset

\* Reading `state` starts a recovery with no successes, or changes nothing.
LEMMA PolledCases ==
    ASSUME CallInv
    PROVE  \/ /\ circuit.state = "OPEN"
              /\ Polled = [state |-> "HALF_OPEN", failures |-> circuit.failures,
                           successes |-> 0, last |-> circuit.last]
           \/ Polled = circuit
BY DEF CallInv, CallTypeOK, Polled

\* What reading `state` leaves is a well-formed circuit.
LEMMA PolledTyped ==
    ASSUME CallInv
    PROVE  Polled \in [state : {"CLOSED", "OPEN", "HALF_OPEN"}, failures : Nat,
                       successes : 0..SuccessThreshold, last : 0..Horizon]
BY PolledCases, CallAssumption DEF CallInv, CallTypeOK

\* No entry, report, reset or tick lets successes of an earlier recovery count.
LEMMA CallStep == CallInv /\ [CallNext]_<<callVars, now>> => CallInv'
<1> SUFFICES ASSUME CallInv, [CallNext]_<<callVars, now>> PROVE CallInv'
    OBVIOUS
<1> USE CallAssumption, ClockAssumption
<1>1. ASSUME NEW w \in Workers, Enter(w) PROVE CallInv'
  <2>1. circuit' = Polled /\ probes' = (IF circuit.state = "OPEN" THEN 0 ELSE probes)
        /\ UNCHANGED <<reports, now>>
        BY <1>1 DEF Enter
  <2>2. inCall' \subseteq Workers
        BY <1>1 DEF Enter, CallInv, CallTypeOK
  <2> QED BY <2>1, <2>2, PolledCases, PolledTyped DEF CallInv, CallTypeOK
<1>2. ASSUME NEW w \in Workers, Report(w) PROVE CallInv'
  <2>1. inCall' \subseteq Workers /\ reports' \in 0..MaxReports /\ now' = now
        BY <1>2 DEF Report, CallInv, CallTypeOK
  <2>2. CASE /\ circuit' = Succeeded(Polled)
             /\ probes' = (IF circuit.state = "OPEN" THEN 0 ELSE probes)
                            + (IF Polled.state = "HALF_OPEN" THEN 1 ELSE 0)
    <3>1. CASE Polled.state = "HALF_OPEN"
      <4>1. /\ Polled.successes \in 0..SuccessThreshold /\ Polled.successes < SuccessThreshold
            /\ (IF circuit.state = "OPEN" THEN 0 ELSE probes) >= Polled.successes
            BY <3>1, PolledCases, PolledTyped DEF CallInv, CallTypeOK
      <4>2. probes' \in Nat /\ probes' >= Polled.successes + 1
            BY <2>2, <3>1, <4>1 DEF CallInv, CallTypeOK
      <4>3. \/ /\ Polled.successes + 1 >= SuccessThreshold
               /\ circuit' = [state |-> "CLOSED", failures |-> 0,
                              successes |-> Polled.successes + 1, last |-> Polled.last]
            \/ /\ Polled.successes + 1 < SuccessThreshold
               /\ circuit' = [state |-> "HALF_OPEN", failures |-> Polled.failures,
                              successes |-> Polled.successes + 1, last |-> Polled.last]
        <5>1. circuit' = IF Polled.successes + 1 >= SuccessThreshold
                         THEN [Polled EXCEPT !.state = "CLOSED", !.failures = 0, !.successes = @ + 1]
                         ELSE [Polled EXCEPT !.successes = @ + 1]
              BY <2>2, <3>1 DEF Succeeded
        <5>2. CASE Polled.successes + 1 >= SuccessThreshold
              BY <5>1, <5>2, PolledTyped
        <5>3. CASE ~(Polled.successes + 1 >= SuccessThreshold)
          <6>1. circuit' = [state |-> "HALF_OPEN", failures |-> Polled.failures,
                            successes |-> Polled.successes + 1, last |-> Polled.last]
                BY <3>1, <5>1, <5>3, PolledTyped
          <6> QED BY <4>1, <5>3, <6>1
        <5> QED BY <5>2, <5>3
      <4>4. /\ circuit' \in [state : {"CLOSED", "OPEN", "HALF_OPEN"}, failures : Nat,
                             successes : 0..SuccessThreshold, last : 0..Horizon]
            /\ circuit'.successes = Polled.successes + 1
            /\ circuit'.state = "HALF_OPEN" => Polled.successes + 1 < SuccessThreshold
            BY <3>1, <4>1, <4>3, PolledTyped
      <4> QED BY <2>1, <4>2, <4>4 DEF CallInv, CallTypeOK
    <3>2. CASE Polled.state = "CLOSED"
      <4>1. circuit' = [Polled EXCEPT !.failures = IF @ = 0 THEN 0 ELSE @ - 1]
            BY <2>2, <3>2 DEF Succeeded
      <4>2. circuit' \in [state : {"CLOSED", "OPEN", "HALF_OPEN"}, failures : Nat,
                          successes : 0..SuccessThreshold, last : 0..Horizon]
            /\ circuit'.state = "CLOSED"
            BY <4>1, <3>2, PolledTyped
      <4> QED BY <2>1, <2>2, <3>2, <4>2 DEF CallInv, CallTypeOK
    <3>3. CASE Polled.state = "OPEN"
      <4>1. circuit' = Polled
            BY <2>2, <3>3 DEF Succeeded
      <4> QED BY <2>1, <2>2, <3>3, <4>1, PolledTyped DEF CallInv, CallTypeOK
    <3> QED BY <3>1, <3>2, <3>3, PolledTyped
  <2>3. CASE circuit' = Failed(circuit) /\ UNCHANGED probes
    <3>1. circuit' = [state |-> IF circuit.failures + 1 >= TripAfter THEN "OPEN" ELSE circuit.state,
                      failures |-> circuit.failures + 1,
                      successes |-> circuit.successes, last |-> now]
          BY <2>3 DEF Failed, CallInv, CallTypeOK
    <3> QED BY <2>1, <2>3, <3>1 DEF CallInv, CallTypeOK
  <2> QED BY <1>2, <2>2, <2>3 DEF Report
<1>3. CASE ResetCircuit
      BY <1>3 DEF ResetCircuit, Reset, CallInv, CallTypeOK
<1>4. CASE CallTick
      BY <1>4 DEF CallTick, Tick, callVars, CallInv, CallTypeOK
<1>5. CASE UNCHANGED <<callVars, now>>
      BY <1>5 DEF callVars, CallInv, CallTypeOK
<1> QED BY <1>1, <1>2, <1>3, <1>4, <1>5 DEF CallNext

\* Calls that report in another state than they were admitted in never close the circuit
\* early (record_success).
THEOREM CallProbesBeforeClose == CallSpec => ProbesBeforeClose
<1>1. CallInv /\ [CallNext]_<<callVars, now>> =>
        [circuit.state # "CLOSED" /\ circuit'.state = "CLOSED"
           => circuit' = Reset \/ probes' >= SuccessThreshold]_<<callVars, now>>
  <2> SUFFICES ASSUME CallInv, CallNext, circuit.state # "CLOSED", circuit'.state = "CLOSED",
                      circuit' # Reset
               PROVE  probes' >= SuccessThreshold
      OBVIOUS
  <2> USE CallAssumption
  <2>1. Polled.state # "CLOSED"
        BY PolledCases
  <2>2. \A w \in Workers : ~Enter(w)
        BY <2>1 DEF Enter
  <2>3. PICK w \in Workers : Report(w)
        BY <2>2 DEF CallNext, ResetCircuit, CallTick, callVars
  <2>4. Failed(circuit).state # "CLOSED"
        BY DEF Failed, CallInv, CallTypeOK
  <2>5. /\ circuit' = Succeeded(Polled)
        /\ probes' = (IF circuit.state = "OPEN" THEN 0 ELSE probes)
                       + (IF Polled.state = "HALF_OPEN" THEN 1 ELSE 0)
        BY <2>3, <2>4 DEF Report
  <2>6. Polled.state = "HALF_OPEN"
        BY <2>1, <2>5, PolledTyped DEF Succeeded
  <2>7. Polled.successes + 1 >= SuccessThreshold
        BY <2>5, <2>6, PolledTyped DEF Succeeded
  <2>8. (IF circuit.state = "OPEN" THEN 0 ELSE probes) >= Polled.successes
        BY <2>6, PolledCases, PolledTyped DEF CallInv, CallTypeOK
  <2> QED BY <2>5, <2>6, <2>7, <2>8, PolledTyped DEF CallInv, CallTypeOK
<1>2. CallSpec => []CallInv
      BY CallInitially, CallStep, PTL DEF CallSpec
<1> QED BY <1>1, <1>2, PTL DEF CallSpec, ProbesBeforeClose

-----------------------------------------------------------------------------
(* RateLimiter: the time a token is waited for is credited at most twice.  *)
(* Grants and tokens together are paid for by the burst, the time up to    *)
(* the last refill, and once more the time up to now (awake) or up to the  *)
(* refill before the sleep (asleep), since sleeps do not overlap.          *)

LimiterInv ==
    /\ now \in 0..Horizon
    /\ bucket \in [tokens : 0..Burst * Period, last : 0..Horizon] /\ bucket.last <= now
    /\ line \in Seq(Requesters) /\ granted \in Nat /\ wakeAt \in Int
    /\ granted * Period + bucket.tokens <=
         Burst * Period + bucket.last + (IF wakeAt = -1 THEN now ELSE bucket.last)
    /\ wakeAt # -1 =>
         /\ line # <<>> /\ bucket.tokens < Period
         /\ wakeAt = bucket.last + Period - bucket.tokens

\* What the products of settings and counters are to the provers.
LEMMA Products ==
    ASSUME NEW g \in Nat
    PROVE  Burst * Period \in Nat /\ g * Period \in Nat /\ (g + 1) * Period = g * Period + Period
BY LimiterAssumption

\* A refill credits the time since the last one, up to the capacity of the bucket.
LEMMA RefilledSound ==
    ASSUME LimiterInv
    PROVE  /\ Refilled \in [tokens : 0..Burst * Period, last : 0..Horizon]
           /\ Refilled.last = now
           /\ Refilled.tokens <= bucket.tokens + (now - bucket.last)
<1> DEFINE BP == Burst * Period
<1>1. BP \in Nat
      BY Products
<1>2. Refilled = [tokens |-> IF bucket.tokens + (now - bucket.last) > BP
                             THEN BP ELSE bucket.tokens + (now - bucket.last), last |-> now]
      BY DEF Refilled, Since
<1>3. bucket.tokens \in 0..BP /\ bucket.last \in 0..now /\ now \in 0..Horizon
      BY ClockAssumption DEF LimiterInv
<1>4. bucket.tokens + (now - bucket.last) \in Nat
  <2> HIDE DEF BP
  <2> QED BY <1>1, <1>3, ClockAssumption
<1> HIDE DEF BP
<1>5. /\ Refilled \in [tokens : 0..BP, last : 0..Horizon]
      /\ Refilled.last = now
      /\ Refilled.tokens <= bucket.tokens + (now - bucket.last)
      BY <1>1, <1>2, <1>3, <1>4
<1> QED BY <1>5 DEF BP

\* The bucket starts full and nothing is granted (__init__).
LEMMA LimiterInitially == now = 0 /\ LimiterInit => LimiterInv
<1> SUFFICES ASSUME now = 0, LimiterInit PROVE LimiterInv
    OBVIOUS
<1>1. Burst * Period \in Nat /\ 0 * Period = 0
      BY LimiterAssumption
<1>2. granted * Period = 0
      BY <1>1 DEF LimiterInit
<1> QED BY <1>1, <1>2, ClockAssumption DEF LimiterInit, LimiterInv

\* Appending never shortens a sequence (the line after a cancellation).
LEMMA ConcatLength ==
    ASSUME NEW S, NEW s \in Seq(S), NEW t \in Seq(S)
    PROVE  Len(s \o t) >= Len(s) /\ Len(s) \in Nat
OBVIOUS

\* No request, sleep, wake-up or cancellation is granted time that was not there.
LEMMA LimiterStep == LimiterInv /\ [LimiterNext]_<<limiterVars, now>> => LimiterInv'
<1> SUFFICES ASSUME LimiterInv, [LimiterNext]_<<limiterVars, now>> PROVE LimiterInv'
    OBVIOUS
<1> DEFINE BP == Burst * Period
<1> DEFINE GP == granted * Period
<1> DEFINE GQ == granted' * Period
<1>0. /\ BP \in Nat /\ GP \in Nat /\ Period \in Nat \ {0} /\ Horizon \in Nat /\ granted \in Nat
      BY Products, LimiterAssumption, ClockAssumption DEF LimiterInv
<1>p. (granted + 1) * Period = GP + Period
      BY Products DEF LimiterInv
<1>i. /\ now \in 0..Horizon
      /\ bucket \in [tokens : 0..BP, last : 0..Horizon]
      /\ line \in Seq(Requesters)
      /\ GP + bucket.tokens <= BP + bucket.last + (IF wakeAt = -1 THEN now ELSE bucket.last)
      /\ wakeAt # -1 =>
           /\ line # <<>> /\ bucket.tokens < Period
           /\ wakeAt = bucket.last + Period - bucket.tokens
      BY DEF LimiterInv
<1>n. bucket.tokens \in Nat /\ bucket.last \in Nat /\ now \in Nat /\ wakeAt \in Int /\ bucket.last <= now
  <2> HIDE DEF BP, GP
  <2> QED BY <1>0, <1>i DEF LimiterInv
<1>r. /\ Refilled \in [tokens : 0..BP, last : 0..Horizon] /\ Refilled.last = now
      /\ Refilled.tokens <= bucket.tokens + (now - bucket.last)
      BY RefilledSound
<1>t. Refilled.tokens \in Nat /\ Refilled.tokens <= BP
  <2> HIDE DEF BP
  <2> QED BY <1>0, <1>r
<1>a. wakeAt = -1 => GP + bucket.tokens <= BP + bucket.last + now
      BY <1>i
<1>b. wakeAt # -1 => /\ GP + bucket.tokens <= BP + bucket.last + bucket.last
                     /\ wakeAt = bucket.last + Period - bucket.tokens
      BY <1>i
<1>g. ASSUME /\ now' \in 0..Horizon
             /\ bucket' \in [tokens : 0..BP, last : 0..Horizon] /\ bucket'.last <= now'
             /\ line' \in Seq(Requesters) /\ granted' \in Nat /\ wakeAt' \in Int
             /\ GQ + bucket'.tokens <=
                  BP + bucket'.last + (IF wakeAt' = -1 THEN now' ELSE bucket'.last)
             /\ wakeAt' # -1 =>
                  /\ line' # <<>> /\ bucket'.tokens < Period
                  /\ wakeAt' = bucket'.last + Period - bucket'.tokens
      PROVE  LimiterInv'
      BY <1>g DEF LimiterInv
<1>1. ASSUME NEW r \in Requesters, Queue(r) PROVE LimiterInv'
  <2>1. line' \in Seq(Requesters) /\ line' # <<>> /\ UNCHANGED <<bucket, wakeAt, granted, now>>
        BY <1>1, <1>i DEF Queue
  <2> QED BY <2>1, <1>0, <1>i, <1>n DEF LimiterInv
<1>2. CASE Grant
  <2>1. /\ wakeAt = -1 /\ wakeAt' = -1 /\ now' = now /\ granted' = granted + 1
        /\ Refilled.tokens >= Period
        /\ bucket' = [Refilled EXCEPT !.tokens = @ - Period]
        BY <1>2 DEF Grant
  <2>2. line' \in Seq(Requesters)
        BY <1>2, <1>i DEF Grant
  <2>3. GQ = GP + Period
        BY <2>1, <1>p
  <2> HIDE DEF BP, GP, GQ
  <2>4. bucket' = [tokens |-> Refilled.tokens - Period, last |-> now]
        BY <2>1, <1>r
  <2>7. bucket' \in [tokens : 0..BP, last : 0..Horizon] /\ bucket'.last = now
        /\ bucket'.tokens = Refilled.tokens - Period
    <3>1. Refilled.tokens - Period \in 0..BP
          BY <2>1, <1>0, <1>t
    <3> QED BY <2>4, <3>1, <1>i
  <2>5. GQ + bucket'.tokens <= BP + bucket'.last + now'
        BY <2>1, <2>3, <2>7, <1>0, <1>n, <1>r, <1>t, <1>a
  <2>6. granted' \in Nat
        BY <2>1, <1>0
  <2> QED BY <2>1, <2>2, <2>7, <2>5, <2>6, <1>g, <1>i, <1>n
<1>3. CASE Sleep
  <2>1. /\ wakeAt = -1 /\ wakeAt' = now + Period - Refilled.tokens
        /\ Refilled.tokens < Period /\ bucket' = Refilled
        /\ line # <<>> /\ UNCHANGED <<line, granted, now>>
        BY <1>3 DEF Sleep
  <2>2. GQ = GP
        BY <2>1
  <2> HIDE DEF BP, GP, GQ
  <2>3. wakeAt' \in Nat
        BY <2>1, <1>0, <1>n, <1>t
  <2>4. GQ + bucket'.tokens <= BP + bucket'.last + bucket'.last
    <3>a. GP + bucket.tokens <= BP + bucket.last + now
          BY <2>1, <1>a
    <3>b. Refilled.tokens <= bucket.tokens + (now - bucket.last)
          BY <1>r
    <3>1. GP + Refilled.tokens <= BP + now + now
          BY <3>a, <3>b, <1>0, <1>n, <1>t
    <3>2. bucket'.tokens = Refilled.tokens /\ bucket'.last = now
          BY <2>1, <1>r
    <3> QED BY <2>2, <3>1, <3>2
  <2>5. granted' \in Nat /\ wakeAt' # -1
        BY <2>1, <2>3, <1>0
  <2> QED BY <2>1, <2>3, <2>4, <2>5, <1>g, <1>0, <1>i, <1>n, <1>r
<1>4. CASE Wake
  <2>1. /\ wakeAt # -1 /\ now >= wakeAt /\ wakeAt' = -1 /\ now' = now /\ granted' = granted + 1
        /\ bucket' = [bucket EXCEPT !.tokens = 0]
        BY <1>4 DEF Wake
  <2>2. line' \in Seq(Requesters)
        BY <1>4, <1>i DEF Wake
  <2>3. GQ = GP + Period
        BY <2>1, <1>p
  <2> HIDE DEF BP, GP, GQ
  <2>4. bucket' = [tokens |-> 0, last |-> bucket.last]
        BY <2>1, <1>i
  <2>7. bucket' \in [tokens : 0..BP, last : 0..Horizon]
        /\ bucket'.last = bucket.last /\ bucket'.tokens = 0
        BY <2>4, <1>0, <1>i
  <2>5. GQ + bucket'.tokens <= BP + bucket'.last + now'
        BY <2>1, <2>3, <2>7, <1>0, <1>n, <1>b
  <2>6. granted' \in Nat
        BY <2>1, <1>0
  <2> QED BY <2>1, <2>2, <2>7, <2>5, <2>6, <1>g, <1>i, <1>n
<1>5. ASSUME NEW i \in 1..Len(line), CancelRequest(i) PROVE LimiterInv'
  <2>1. /\ line' = SubSeq(line, 1, i - 1) \o SubSeq(line, i + 1, Len(line))
        /\ wakeAt' = IF i = 1 THEN -1 ELSE wakeAt
        /\ UNCHANGED <<bucket, granted, now>>
        BY <1>5 DEF CancelRequest
  <2>2. line' \in Seq(Requesters)
        BY <2>1, <1>i
  <2>3. i # 1 => line' # <<>>
    <3>1. Len(SubSeq(line, 1, i - 1)) = i - 1 /\ SubSeq(line, 1, i - 1) \in Seq(Requesters)
          /\ SubSeq(line, i + 1, Len(line)) \in Seq(Requesters)
          BY <1>i
    <3>2. Len(line') >= i - 1
          BY <2>1, <3>1, ConcatLength
    <3> QED BY <3>2
  <2>4. GQ = GP
        BY <2>1
  <2> HIDE DEF BP, GP, GQ
  <2>5. GQ + bucket'.tokens <= BP + bucket'.last + (IF wakeAt' = -1 THEN now' ELSE bucket'.last)
    <3>1. bucket' = bucket /\ now' = now /\ (wakeAt' # -1 => wakeAt' = wakeAt) /\ GQ = GP
          BY <2>1, <2>4
    <3>2. GP + bucket.tokens <= BP + bucket.last + now
      <4>1. CASE wakeAt = -1
            BY <4>1, <1>a
      <4>2. CASE wakeAt # -1
        <5>1. GP + bucket.tokens <= BP + bucket.last + bucket.last
              BY <4>2, <1>b
        <5> QED BY <5>1, <1>0, <1>n
      <4> QED BY <4>1, <4>2
    <3>3. wakeAt' # -1 => GP + bucket.tokens <= BP + bucket.last + bucket.last
          BY <3>1, <1>b
    <3> QED BY <3>1, <3>2, <3>3
  <2>6. wakeAt' # -1 =>
          /\ line' # <<>> /\ bucket'.tokens < Period
          /\ wakeAt' = bucket'.last + Period - bucket'.tokens
        BY <2>1, <2>3, <1>i
  <2>7. /\ now' \in 0..Horizon /\ bucket' \in [tokens : 0..BP, last : 0..Horizon]
        /\ bucket'.last <= now' /\ granted' \in Nat
        BY <2>1, <1>0, <1>i, <1>n
  <2>8. wakeAt' \in Int
        BY <2>1, <1>n
  <2> QED BY <2>2, <2>5, <2>6, <2>7, <2>8, <1>g
<1>6. CASE LimiterTick
  <2>1. now < Horizon /\ now' = now + 1 /\ UNCHANGED limiterVars
        BY <1>6 DEF LimiterTick, Tick
  <2>2. GQ = GP /\ UNCHANGED <<bucket, line, wakeAt, granted>>
        BY <2>1 DEF limiterVars
  <2> HIDE DEF BP, GP, GQ
  <2> QED BY <2>1, <2>2, <1>g, <1>0, <1>i, <1>n
<1>7. CASE UNCHANGED <<limiterVars, now>>
      BY <1>7 DEF limiterVars, LimiterInv
<1> QED BY <1>1, <1>2, <1>3, <1>4, <1>5, <1>6, <1>7 DEF LimiterNext

\* Whatever the arrivals, overruns and cancellations: after the burst at most two requests
\* per period (acquire).
THEOREM LimiterWithinTwiceTheRate == LimiterSpec => []GrantsWithinTwiceTheRate
<1>1. LimiterInv => GrantsWithinTwiceTheRate
  <2> SUFFICES ASSUME LimiterInv PROVE GrantsWithinTwiceTheRate
      OBVIOUS
  <2> DEFINE BP == Burst * Period
  <2> DEFINE GP == granted * Period
  <2>1. BP \in Nat /\ GP \in Nat
        BY Products DEF LimiterInv
  <2>2. /\ now \in Nat /\ bucket.last \in Nat /\ bucket.tokens \in Nat /\ bucket.last <= now
        /\ GP + bucket.tokens <= BP + bucket.last + (IF wakeAt = -1 THEN now ELSE bucket.last)
        BY <2>1, ClockAssumption DEF LimiterInv
  <2>3. GP <= BP + 2 * now
    <3> HIDE DEF BP, GP
    <3> QED BY <2>1, <2>2
  <2> QED BY <2>3 DEF GrantsWithinTwiceTheRate
<1>2. LimiterSpec => []LimiterInv
      BY LimiterInitially, LimiterStep, PTL DEF LimiterSpec
<1> QED BY <1>1, <1>2, PTL

-----------------------------------------------------------------------------
(* PidLock: without a race, at most one process holds the lock or is       *)
(* releasing it, and a holder has the file open that the path names.       *)

PidInv ==
    /\ PidTypeOK
    /\ \A p \in Processes : proc[p].at \in {"opened", "held"} => proc[p].fd # 0
    /\ ~raced =>
         /\ \A p, q \in Processes :
              proc[p].at \in {"held", "released"} /\ proc[q].at \in {"held", "released"} => p = q
         /\ \A p \in Processes : proc[p].at = "held" => proc[p].fd = path

\* Nobody has the lock and there is no file (__init__).
LEMMA PidInitially == PidInit => PidInv
<1> SUFFICES ASSUME PidInit PROVE PidInv
    OBVIOUS
<1>1. proc = [p \in Processes |-> [at |-> "out", fd |-> 0]]
      BY DEF PidInit, Out
<1>2. path = 0 /\ inodes = 0 /\ raced = FALSE
      BY DEF PidInit
<1>3. 0 \in 0..MaxInode /\ 0 \in 0..inodes
      BY <1>2, PidAssumption
<1>4. proc \in [Processes -> [at : {"out", "opened", "held", "released"}, fd : 0..inodes]]
      BY <1>1, <1>3
<1>5. PidTypeOK
      BY <1>2, <1>3, <1>4 DEF PidTypeOK
<1>6. \A p \in Processes : proc[p].at = "out"
      BY <1>1
<1> QED BY <1>5, <1>6 DEF PidInv

\* Every step of a process, and its death, keeps one holder at most while nothing has raced.
LEMMA PidStep == PidInv /\ [PidNext]_pidVars => PidInv'
<1> SUFFICES ASSUME PidInv, [PidNext]_pidVars PROVE PidInv'
    OBVIOUS
<1> USE PidAssumption
<1>1. ASSUME NEW p \in Processes, Open(p) PROVE PidInv'
  <2>1. /\ proc[p].at = "out" /\ raced' = raced
        /\ proc' = [proc EXCEPT ![p] = [at |-> "opened", fd |-> path']]
        BY <1>1 DEF Open
  <2>2. /\ inodes' \in 0..MaxInode /\ inodes <= inodes'
        /\ path' \in 1..inodes' /\ (path # 0 => path' = path)
        BY <1>1 DEF Open, PidInv, PidTypeOK
  <2>3. PidTypeOK'
        BY <2>1, <2>2 DEF PidInv, PidTypeOK
  <2>4. ~raced => \A q \in Processes : proc[q].at = "held" => path # 0
        BY DEF PidInv
  <2> QED BY <2>1, <2>2, <2>3, <2>4 DEF PidInv, PidTypeOK
<1>2. ASSUME NEW p \in Processes, TryLock(p) PROVE PidInv'
  <2> DEFINE taken == \E q \in Holders : proc[q].fd = proc[p].fd
  <2>1. /\ proc[p].at = "opened" /\ path' = path /\ inodes' = inodes
        /\ proc' = [proc EXCEPT ![p] = IF taken THEN Out ELSE [proc[p] EXCEPT !.at = "held"]]
        /\ raced' = (raced \/ (~taken /\ ReleaseAround(p)))
        BY <1>2 DEF TryLock
  <2>2. CASE taken
    <3>1. proc' = [proc EXCEPT ![p] = [at |-> "out", fd |-> 0]] /\ raced' = raced
          BY <2>1, <2>2 DEF Out, PidInv, PidTypeOK
    <3>2. path' = path /\ inodes' = inodes
          BY <2>1
    <3>3. PidTypeOK'
          BY <3>1, <3>2 DEF PidInv, PidTypeOK
    <3>4. \A q \in Processes : q # p => proc'[q] = proc[q]
          BY <3>1 DEF PidInv, PidTypeOK
    <3>5. proc'[p].at = "out"
          BY <3>1 DEF PidInv, PidTypeOK
    <3> HIDE DEF taken
    <3>6. \A q \in Processes : proc'[q].at \in {"opened", "held"} => proc'[q].fd # 0
          BY <3>4, <3>5 DEF PidInv
    <3>7. ~raced' => ~raced
          BY <3>1
    <3>8. ASSUME ~raced', NEW q \in Processes, NEW r \in Processes,
                 proc'[q].at \in {"held", "released"}, proc'[r].at \in {"held", "released"}
          PROVE  q = r
      <4>1. q # p /\ r # p
            BY <3>5, <3>8
      <4>2. proc[q].at \in {"held", "released"} /\ proc[r].at \in {"held", "released"}
            BY <3>4, <3>8, <4>1
      <4> QED BY <3>7, <3>8, <4>2 DEF PidInv
    <3>9. ASSUME ~raced', NEW q \in Processes, proc'[q].at = "held"
          PROVE  proc'[q].fd = path'
      <4>1. q # p
            BY <3>5, <3>9
      <4>2. proc'[q] = proc[q]
            BY <3>4, <4>1
      <4>3. proc[q].fd = path
            BY <3>7, <3>9, <4>2 DEF PidInv
      <4> QED BY <3>2, <4>2, <4>3
    <3> QED BY <3>3, <3>6, <3>8, <3>9 DEF PidInv
  <2>3. CASE ~taken
    <3>1. proc' = [proc EXCEPT ![p] = [at |-> "held", fd |-> proc[p].fd]]
      <4>1. proc' = [proc EXCEPT ![p] = [proc[p] EXCEPT !.at = "held"]]
            BY <2>1, <2>3
      <4>2. [proc[p] EXCEPT !.at = "held"] = [at |-> "held", fd |-> proc[p].fd]
            BY DEF PidInv, PidTypeOK
      <4> QED BY <4>1, <4>2
    <3>2. PidTypeOK'
          BY <2>1, <3>1 DEF PidInv, PidTypeOK
    <3>3. ~raced' => \A q \in Processes : proc[q].at \notin {"held", "released"}
          BY <2>1, <2>3 DEF ReleaseAround, Holders, PidInv
    <3>4. ~raced' => proc[p].fd = path
          BY <2>1, <2>3 DEF ReleaseAround
    <3>5. ~raced' =>
            /\ \A q, r \in Processes :
                 proc'[q].at \in {"held", "released"} /\ proc'[r].at \in {"held", "released"} => q = r
            /\ \A q \in Processes : proc'[q].at = "held" => proc'[q].fd = path'
          BY <2>1, <3>1, <3>3, <3>4 DEF PidInv, PidTypeOK
    <3>6. \A q \in Processes : proc'[q].at \in {"opened", "held"} => proc'[q].fd # 0
          BY <2>1, <3>1 DEF PidInv, PidTypeOK
    <3> QED BY <3>2, <3>5, <3>6 DEF PidInv
  <2> QED BY <2>2, <2>3
<1>3. ASSUME NEW p \in Processes, Unlock(p) PROVE PidInv'
      BY <1>3 DEF Unlock, PidInv, PidTypeOK
<1>4. ASSUME NEW p \in Processes, Unlink(p) PROVE PidInv'
      BY <1>4 DEF Unlink, Out, PidInv, PidTypeOK
<1>5. ASSUME NEW p \in Processes, Die(p) PROVE PidInv'
      BY <1>5 DEF Die, Out, PidInv, PidTypeOK
<1>6. CASE UNCHANGED pidVars
      BY <1>6 DEF pidVars, PidInv, PidTypeOK
<1> QED BY <1>1, <1>2, <1>3, <1>4, <1>5, <1>6 DEF PidNext

\* Refused starts, crashes and restarts of any number of processes leave one holder at most,
\* as long as nobody took the lock around a release in progress (acquire, release).
THEOREM PidLockExclusive == PidSpec => []SingleUnlessReleaseRaced
<1>1. PidInv => SingleUnlessReleaseRaced
  <2> SUFFICES ASSUME PidInv, ~raced PROVE Cardinality(Holders) <= 1
      BY DEF SingleUnlessReleaseRaced
  <2>1. CASE Holders = {}
        BY <2>1, FS_EmptySet
  <2>2. CASE Holders # {}
    <3>1. PICK p \in Processes : p \in Holders
          BY <2>2 DEF Holders
    <3>2. Holders = {p}
          BY <3>1 DEF Holders, PidInv
    <3> QED BY <3>2, FS_Singleton
  <2> QED BY <2>1, <2>2
<1>2. PidSpec => []PidInv
      BY PidInitially, PidStep, PTL DEF PidSpec
<1> QED BY <1>1, <1>2, PTL


-----------------------------------------------------------------------------
(* TrailingStop: the mark is the best price, and the stop is computed from *)
(* it, although the code moves the stop only when that tightens it.        *)

TrailInv == TrailTypeOK /\ mark = best /\ TrailsTheBest

\* Rounding to hundredths keeps the order of what it rounds.
LEMMA HundredthMonotone ==
    ASSUME NEW x \in Int, NEW y \in Int, x <= y
    PROVE  Hundredth(x) <= Hundredth(y) /\ Hundredth(x) \in Int
BY DEF Hundredth

\* A factor keeps the order of what it multiplies.
LEMMA FactorMonotone ==
    ASSUME NEW k \in Nat, NEW p \in Nat, NEW q \in Nat, p <= q
    PROVE  p * k <= q * k /\ p * k \in Nat /\ q * k \in Nat
<1>1. q * k = p * k + (q - p) * k
      OBVIOUS
<1>2. q - p \in Nat
      OBVIOUS
<1>3. (q - p) * k >= 0 /\ (q - p) * k \in Int
      BY <1>2
<1> QED BY <1>1, <1>3

\* A higher price never puts the stop lower, in either mode and on either side.
LEMMA StopMonotone ==
    ASSUME NEW p \in Levels, NEW q \in Levels, p <= q,
           order \in [side : {"SELL", "BUY"}, mode : {"amount", "percent"}]
    PROVE  CalculateStop(p) <= CalculateStop(q)
           /\ CalculateStop(p) \in Int /\ CalculateStop(q) \in Int
<1>1. p \in Nat /\ q \in Nat /\ Trail \in Nat /\ Trail <= 100
      BY TrailAssumption
<1>2. 100 - Trail \in Nat /\ 100 + Trail \in Nat
      BY <1>1
<1>3. /\ p * (100 - Trail) \in Nat /\ q * (100 - Trail) \in Nat /\ p * (100 - Trail) <= q * (100 - Trail)
      /\ p * (100 + Trail) \in Nat /\ q * (100 + Trail) \in Nat /\ p * (100 + Trail) <= q * (100 + Trail)
      BY <1>1, <1>2, FactorMonotone
<1>4. /\ Hundredth(p * (100 - Trail)) <= Hundredth(q * (100 - Trail))
      /\ Hundredth(p * (100 + Trail)) <= Hundredth(q * (100 + Trail))
      /\ Hundredth(p * (100 - Trail)) \in Int /\ Hundredth(q * (100 - Trail)) \in Int
      /\ Hundredth(p * (100 + Trail)) \in Int /\ Hundredth(q * (100 + Trail)) \in Int
      BY <1>3, HundredthMonotone
<1>5. CASE order.mode = "amount"
      BY <1>1, <1>5 DEF CalculateStop
<1>6. CASE order.mode = "percent"
      BY <1>4, <1>6 DEF CalculateStop
<1> QED BY <1>5, <1>6

\* A stop is armed at its first price, untriggered (__init__).
LEMMA TrailInitially == TrailInit => TrailInv
<1> SUFFICES ASSUME TrailInit PROVE TrailInv
    OBVIOUS
<1>1. CalculateStop(mark) \in Int
      BY StopMonotone, TrailAssumption DEF TrailInit
<1>2. /\ mark = best /\ stop = CalculateStop(best) /\ mark \in Levels /\ best \in Levels
      /\ fired = FALSE /\ trigger = 0 /\ lastQuote = 0
      /\ order \in [side : {"SELL", "BUY"}, mode : {"amount", "percent"}]
      BY DEF TrailInit
<1>3. shows \in 0..ShowsMax
      BY TrailAssumption DEF TrailInit
<1>4. stop \in Int
      BY <1>1, <1>2
<1>5. TrailTypeOK
      BY <1>2, <1>3, <1>4 DEF TrailTypeOK
<1>6. TrailsTheBest
      BY <1>2 DEF TrailsTheBest
<1> QED BY <1>2, <1>5, <1>6 DEF TrailInv

\* No price and no reset leaves the stop behind the best price.
LEMMA TrailStep == TrailInv /\ [TrailNext]_trailVars => TrailInv'
<1> SUFFICES ASSUME TrailInv, [TrailNext]_trailVars PROVE TrailInv'
    OBVIOUS
<1> USE TrailAssumption
<1>1. ASSUME NEW p \in Levels, UpdatePrice(p) PROVE TrailInv'
  <2>1. /\ order' = order /\ ~fired /\ shows' \in 0..ShowsMax
        /\ order \in [side : {"SELL", "BUY"}, mode : {"amount", "percent"}]
        /\ mark \in Levels /\ best = mark /\ stop = CalculateStop(mark) /\ p \in Nat \ {0}
        BY <1>1 DEF UpdatePrice, TrailInv, TrailTypeOK, TrailsTheBest
  <2>2. mark' = best' /\ mark' = IF Better(p, mark) THEN p ELSE mark
        BY <1>1, <2>1 DEF UpdatePrice
  <2>3. stop' = CalculateStop(mark') /\ stop' \in Int
    <3>1. CalculateStop(p) \in Int /\ CalculateStop(mark) \in Int
          BY <2>1, StopMonotone
    <3>2. stop' = IF Better(p, mark) /\ Better(CalculateStop(p), stop) THEN CalculateStop(p) ELSE stop
          BY <1>1 DEF UpdatePrice
    <3>3. ASSUME Better(p, mark), ~Better(CalculateStop(p), stop)
          PROVE  CalculateStop(p) = stop
      <4>1. CASE order.side = "SELL"
        <5>1. mark <= p
              BY <2>1, <3>3, <4>1 DEF Better
        <5>2. CalculateStop(mark) <= CalculateStop(p)
              BY <2>1, <5>1, StopMonotone
        <5>3. ~(CalculateStop(p) > stop)
              BY <3>3, <4>1 DEF Better
        <5> QED BY <2>1, <3>1, <5>2, <5>3
      <4>2. CASE order.side = "BUY"
        <5>1. p <= mark
              BY <2>1, <3>3, <4>2 DEF Better
        <5>2. CalculateStop(p) <= CalculateStop(mark)
              BY <2>1, <5>1, StopMonotone
        <5>3. ~(CalculateStop(p) < stop)
              BY <3>3, <4>2 DEF Better
        <5> QED BY <2>1, <3>1, <5>2, <5>3
      <4> QED BY <2>1, <4>1, <4>2
    <3> QED BY <2>1, <2>2, <3>1, <3>2, <3>3
  <2>4. CalculateStop(mark)' = CalculateStop(mark') /\ CalculateStop(best)' = CalculateStop(mark')
        BY <2>1, <2>2 DEF CalculateStop
  <2>5. fired' = Crossed(p, stop') /\ trigger' = (IF fired' THEN p ELSE 0) /\ lastQuote' = p
        BY <1>1 DEF UpdatePrice, Held
  <2>6. fired' \in BOOLEAN /\ trigger' \in Levels \cup {0} /\ lastQuote' \in Levels \cup {0}
    <3>1. CASE order.side = "SELL"
      <4>1. Crossed(p, stop') = (p <= stop')
            BY <3>1 DEF Crossed
      <4>2. (p <= stop') \in BOOLEAN
            OBVIOUS
      <4> QED BY <2>5, <4>1, <4>2
    <3>2. CASE order.side = "BUY"
      <4>1. Crossed(p, stop') = (p >= stop')
            BY <3>2 DEF Crossed
      <4>2. (p >= stop') \in BOOLEAN
            OBVIOUS
      <4> QED BY <2>5, <4>1, <4>2
    <3> QED BY <2>1, <3>1, <3>2
  <2>7. (fired <=> lastQuote # 0 /\ Crossed(lastQuote, stop))' /\ (trigger = IF fired THEN lastQuote ELSE 0)'
        BY <2>1, <2>5 DEF Crossed
  <2>8. TrailTypeOK'
        BY <2>1, <2>2, <2>3, <2>6 DEF TrailTypeOK
  <2>9. stop' = CalculateStop(best)'
        BY <2>3, <2>4
  <2>10. TrailsTheBest'
        BY <2>7, <2>9 DEF TrailsTheBest, Crossed
  <2> QED BY <2>2, <2>8, <2>10 DEF TrailInv
<1>2. ASSUME NEW p \in Levels, ResetStop(p) PROVE TrailInv'
  <2>1. /\ order' = order /\ mark' = p /\ best' = p /\ stop' = CalculateStop(p)
        /\ fired' = FALSE /\ trigger' = 0 /\ lastQuote' = 0 /\ shows' \in 0..ShowsMax
        BY <1>2 DEF ResetStop, Rearmed, TrailInv, TrailTypeOK
  <2>2. CalculateStop(p) \in Int
        BY StopMonotone DEF TrailInv, TrailTypeOK
  <2> QED BY <2>1, <2>2 DEF TrailInv, TrailTypeOK, TrailsTheBest, CalculateStop
<1>3. CASE UNCHANGED trailVars
      BY <1>3 DEF trailVars, TrailInv, TrailTypeOK, TrailsTheBest, CalculateStop, Crossed
<1> QED BY <1>1, <1>2, <1>3 DEF TrailNext

\* Every path of prices and resets leaves the stop where the best price since it was armed
\* puts it, and fired exactly if the last price it was shown crosses it (update_price, reset).
THEOREM StopTrailsTheBest == TrailSpec => []TrailsTheBest
<1>1. TrailInv => TrailsTheBest
      BY DEF TrailInv
<1>2. TrailSpec => []TrailInv
      BY TrailInitially, TrailStep, PTL DEF TrailSpec
<1> QED BY <1>1, <1>2, PTL
-----------------------------------------------------------------------------
(* PriceAlerts: what an alert remembers of its firings is what happened     *)
(* since it was registered.                                                *)

AlertInv ==
    /\ now \in 0..Horizon
    /\ AlertTypeOK
    /\ \A a \in AlertIds : firings[a].count > 0 => firings[a].last # NeverFired
    /\ \A a \in DOMAIN alerts :
          /\ alerts[a].last = firings[a].last
          /\ firings[a].count > 0 /\ ~alerts[a].repeating => alerts[a].status # "active"

\* No alert is registered and none has fired (AlertManager.__init__).
LEMMA AlertInitially == now = 0 /\ AlertInit => AlertInv
BY ClockAssumption, AlertAssumption DEF AlertInit, AlertInv, AlertTypeOK, Unfired, NeverFired

\* A registration starts an alert anew, whatever the one it replaces had done (add_alert).
LEMMA AddKeeps == ASSUME AlertInv, NEW a \in AlertIds, AddAlert(a) PROVE AlertInv'
<1>1. PICK alert \in Alert :
        /\ alert.last = NeverFired
        /\ alerts' = [b \in DOMAIN alerts \cup {a} |-> IF b = a THEN alert ELSE alerts[b]]
  <2>1. PICK c \in {"price_above", "price_below"}, t \in Quotes \ {0}, r \in BOOLEAN :
          alerts' = [b \in DOMAIN alerts \cup {a} |->
              IF b = a THEN [condition |-> c, threshold |-> t, repeating |-> r,
                             status |-> "active", last |-> NeverFired]
                       ELSE alerts[b]]
        BY DEF AddAlert
  <2> DEFINE alert == [condition |-> c, threshold |-> t, repeating |-> r,
                       status |-> "active", last |-> NeverFired]
  <2>2. alert \in Alert /\ alert.last = NeverFired
        BY ClockAssumption DEF Alert, NeverFired
  <2> QED BY <2>1, <2>2
<1>2. firings' = [firings EXCEPT ![a] = Unfired] /\ UNCHANGED <<lastChecked, now>>
      BY DEF AddAlert
<1>3. Unfired \in [count : Nat, last : NeverFired..Horizon] /\ Unfired.count = 0 /\ Unfired.last = NeverFired
      BY ClockAssumption DEF Unfired, NeverFired
<1>4. registered' \in 0..MaxAlerts
      BY AlertAssumption DEF AddAlert, AlertInv, AlertTypeOK
<1> HIDE DEF Unfired
<1>5. /\ DOMAIN alerts' = DOMAIN alerts \cup {a} /\ alerts'[a] = alert
      /\ \A b \in DOMAIN alerts \ {a} : alerts'[b] = alerts[b]
      BY <1>1
<1>6. /\ firings' \in [AlertIds -> [count : Nat, last : NeverFired..Horizon]]
      /\ firings'[a] = Unfired /\ \A b \in AlertIds \ {a} : firings'[b] = firings[b]
      BY <1>2, <1>3 DEF AlertInv, AlertTypeOK
<1>7. AlertTypeOK'
      BY <1>1, <1>2, <1>4, <1>5, <1>6 DEF AlertInv, AlertTypeOK
<1>8. \A b \in AlertIds : firings'[b].count > 0 => firings'[b].last # NeverFired
      BY <1>3, <1>6 DEF AlertInv
<1>9. \A b \in DOMAIN alerts' :
          /\ alerts'[b].last = firings'[b].last
          /\ firings'[b].count > 0 /\ ~alerts'[b].repeating => alerts'[b].status # "active"
      BY <1>1, <1>3, <1>5, <1>6 DEF AlertInv, AlertTypeOK
<1> QED BY <1>2, <1>7, <1>8, <1>9 DEF AlertInv

\* Cancelling and removing leave what has fired as it is (cancel_alert, remove_alert).
LEMMA CancelKeeps ==
    ASSUME AlertInv, NEW a \in AlertIds, RemoveAlert(a) \/ CancelAlert(a)
    PROVE  AlertInv'
<1>1. CASE RemoveAlert(a)
      BY <1>1 DEF RemoveAlert, AlertInv, AlertTypeOK
<1>2. CASE CancelAlert(a)
  <2>1. a \in DOMAIN alerts /\ UNCHANGED <<registered, lastChecked, firings, now>>
        BY <1>2 DEF CancelAlert
  <2>2. alerts[a] \in Alert
        BY <2>1 DEF AlertInv, AlertTypeOK
  <2> DEFINE gone == [alerts[a] EXCEPT !.status = "cancelled"]
  <2>3. /\ gone \in Alert /\ gone.status = "cancelled"
        /\ gone.last = alerts[a].last /\ gone.repeating = alerts[a].repeating
        BY <2>2 DEF Alert
  <2>4. alerts' = [alerts EXCEPT ![a] = gone]
        BY <1>2 DEF CancelAlert
  <2> HIDE DEF gone
  <2>5. /\ DOMAIN alerts' = DOMAIN alerts /\ alerts'[a] = gone
        /\ \A b \in DOMAIN alerts \ {a} : alerts'[b] = alerts[b]
        BY <2>1, <2>4
  <2> QED BY <2>1, <2>3, <2>5 DEF AlertInv, AlertTypeOK
<1> QED BY <1>1, <1>2

\* What an update fires is recorded on the alert and in its history alike (check).
LEMMA CheckKeeps == ASSUME AlertInv, NEW p \in Quotes, Check(p) PROVE AlertInv'
<1> DEFINE hit == {a \in DOMAIN alerts : Fires(a, p)}
           next(a) == [alerts[a] EXCEPT !.last = now,
                         !.status = IF alerts[a].repeating THEN "active" ELSE "triggered"]
<1>1. /\ alerts' = [a \in DOMAIN alerts |-> IF a \notin hit THEN alerts[a] ELSE next(a)]
      /\ lastChecked' = hit
      /\ firings' = [a \in AlertIds |->
            IF a \in hit THEN [count |-> firings[a].count + 1, last |-> now] ELSE firings[a]]
      /\ UNCHANGED <<registered, now>>
      BY DEF Check
<1>2. /\ now \in 0..Horizon /\ now \in NeverFired..Horizon /\ now # NeverFired
      /\ DOMAIN alerts \subseteq AlertIds /\ hit \subseteq DOMAIN alerts
      /\ \A a \in AlertIds : firings[a] \in [count : Nat, last : NeverFired..Horizon]
      BY DEF AlertInv, AlertTypeOK, NeverFired
<1>3. \A a \in DOMAIN alerts :
        /\ next(a) \in Alert /\ next(a).last = now /\ next(a).repeating = alerts[a].repeating
        /\ ~alerts[a].repeating => next(a).status = "triggered"
  <2> SUFFICES ASSUME NEW a \in DOMAIN alerts
               PROVE  /\ next(a) \in Alert /\ next(a).last = now
                      /\ next(a).repeating = alerts[a].repeating
                      /\ ~alerts[a].repeating => next(a).status = "triggered"
      OBVIOUS
  <2>1. alerts[a] \in Alert
        BY DEF AlertInv, AlertTypeOK
  <2> QED BY <1>2, <2>1 DEF Alert
<1> HIDE DEF hit, next
<1>4. /\ DOMAIN alerts' = DOMAIN alerts
      /\ \A a \in hit : alerts'[a] = next(a) /\ firings'[a] = [count |-> firings[a].count + 1, last |-> now]
      /\ \A a \in DOMAIN alerts \ hit : alerts'[a] = alerts[a]
      /\ \A a \in AlertIds \ hit : firings'[a] = firings[a]
      BY <1>1, <1>2
<1>5. \A a \in hit : firings'[a] \in [count : Nat, last : NeverFired..Horizon] /\ firings'[a].last = now
  <2> SUFFICES ASSUME NEW a \in hit
               PROVE  firings'[a] \in [count : Nat, last : NeverFired..Horizon] /\ firings'[a].last = now
      OBVIOUS
  <2>1. firings[a].count + 1 \in Nat
        BY <1>2
  <2>2. firings'[a] = [count |-> firings[a].count + 1, last |-> now]
        BY <1>4
  <2> QED BY <1>2, <2>1, <2>2
<1>6. firings' \in [AlertIds -> [count : Nat, last : NeverFired..Horizon]]
  <2>1. \A a \in AlertIds : firings'[a] \in [count : Nat, last : NeverFired..Horizon]
        BY <1>2, <1>4, <1>5
  <2> QED BY <1>1, <2>1
<1>7. AlertTypeOK'
      BY <1>1, <1>2, <1>3, <1>4, <1>6 DEF AlertInv, AlertTypeOK
<1>8. \A a \in AlertIds : firings'[a].count > 0 => firings'[a].last # NeverFired
      BY <1>2, <1>4, <1>5 DEF AlertInv
<1>9. \A a \in DOMAIN alerts :
          /\ alerts'[a].last = firings'[a].last
          /\ firings'[a].count > 0 /\ ~alerts'[a].repeating => alerts'[a].status # "active"
  <2> SUFFICES ASSUME NEW a \in DOMAIN alerts
               PROVE  /\ alerts'[a].last = firings'[a].last
                      /\ firings'[a].count > 0 /\ ~alerts'[a].repeating => alerts'[a].status # "active"
      OBVIOUS
  <2>1. CASE a \in hit
        BY <1>3, <1>4, <1>5, <2>1
  <2>2. CASE a \notin hit
        BY <1>2, <1>4, <2>2 DEF AlertInv
  <2> QED BY <2>1, <2>2
<1> QED BY <1>1, <1>2, <1>4, <1>7, <1>8, <1>9 DEF AlertInv

\* Every registration, cancellation, removal, update and tick keeps the memory of the alerts.
LEMMA AlertStep == AlertInv /\ [AlertNext]_<<alertVars, now>> => AlertInv'
<1> SUFFICES ASSUME AlertInv, [AlertNext]_<<alertVars, now>> PROVE AlertInv'
    OBVIOUS
<1>1. CASE AlertTick
  <2>1. UNCHANGED <<alerts, registered, lastChecked, firings>>
        BY <1>1 DEF AlertTick, alertVars
  <2>2. now' \in 0..Horizon
        BY <1>1, ClockAssumption DEF AlertTick, Tick, AlertInv
  <2> QED BY <2>1, <2>2 DEF AlertInv, AlertTypeOK
<1>2. CASE UNCHANGED <<alertVars, now>>
      BY <1>2 DEF alertVars, AlertInv, AlertTypeOK
<1> QED BY <1>1, <1>2, AddKeeps, CancelKeeps, CheckKeeps DEF AlertNext

\* "Alerts fire once, then deactivate unless set to repeating", and keep their cooldown.
THEOREM AlertsFireAsRegistered == AlertSpec => FiresAsRegistered
<1>1. AlertInv /\ [AlertNext]_<<alertVars, now>> =>
        [\A a \in AlertIds : firings'[a].count > firings[a].count =>
          /\ a \in DOMAIN alerts /\ alerts[a].status # "cancelled"
          /\ firings[a].count > 0 => /\ alerts[a].repeating
                                     /\ Since(firings[a].last) >= Cooldown]_<<alertVars, now>>
  <2> SUFFICES ASSUME AlertInv, AlertNext, NEW a \in AlertIds, firings'[a].count > firings[a].count
               PROVE  /\ a \in DOMAIN alerts /\ alerts[a].status # "cancelled"
                      /\ firings[a].count > 0 => /\ alerts[a].repeating
                                                 /\ Since(firings[a].last) >= Cooldown
      OBVIOUS
  <2>0. /\ firings \in [AlertIds -> [count : Nat, last : NeverFired..Horizon]]
        /\ now \in Int /\ Cooldown \in Int /\ firings[a].last \in Int /\ firings[a].count \in Nat
        BY AlertAssumption DEF AlertInv, AlertTypeOK, NeverFired
  <2>1. ~ \E b \in AlertIds : AddAlert(b)
    <3> SUFFICES ASSUME NEW b \in AlertIds, AddAlert(b) PROVE FALSE
        OBVIOUS
    <3>1. firings' = [firings EXCEPT ![b] = Unfired]
          BY DEF AddAlert
    <3> QED BY <2>0, <3>1 DEF Unfired
  <2>2. ~ (\E b \in AlertIds : RemoveAlert(b) \/ CancelAlert(b)) /\ ~ AlertTick
    <3>1. firings' # firings
          BY <2>0
    <3> QED BY <3>1 DEF RemoveAlert, CancelAlert, AlertTick, alertVars
  <2>3. PICK p \in Quotes : Check(p)
        BY <2>1, <2>2 DEF AlertNext
  <2>4. a \in DOMAIN alerts /\ Fires(a, p)
    <3>1. firings' = [b \in AlertIds |->
            IF b \in {c \in DOMAIN alerts : Fires(c, p)}
            THEN [count |-> firings[b].count + 1, last |-> now] ELSE firings[b]]
          BY <2>3 DEF Check
    <3>2. firings'[a] # firings[a]
          BY <2>0
    <3>3. a \in {c \in DOMAIN alerts : Fires(c, p)}
          BY <3>1, <3>2
    <3> QED BY <3>3
  <2>5. alerts[a].status = "active" /\ ~CoolingDown(alerts[a])
        BY <2>4 DEF Fires
  <2>6. ASSUME firings[a].count > 0 PROVE alerts[a].repeating
        BY <2>4, <2>5, <2>6 DEF AlertInv
  <2>7. ASSUME firings[a].count > 0 PROVE Since(firings[a].last) >= Cooldown
    <3>1. alerts[a].last # NeverFired /\ alerts[a].last = firings[a].last
          BY <2>4, <2>7 DEF AlertInv
    <3> QED BY <2>0, <2>5, <2>6, <2>7, <3>1 DEF CoolingDown, Since
  <2> QED BY <2>4, <2>5, <2>6, <2>7
<1>2. AlertSpec => []AlertInv
      BY AlertInitially, AlertStep, PTL DEF AlertSpec
<1> QED BY <1>1, <1>2, PTL DEF AlertSpec, FiresAsRegistered
-----------------------------------------------------------------------------
(* JobScheduler: what memory and file hold of a job is when it finished.   *)

JobInv ==
    /\ now \in 0..Horizon
    /\ JobTypeOK
    /\ \A j \in Jobs : j \in unsaved \/ (lastRun[j] = finished[j] /\ stateFile[j] = finished[j])

\* No job has run and the state file is absent (JobScheduler.__init__).
LEMMA JobInitially == now = 0 /\ JobInit => JobInv
<1> SUFFICES ASSUME now = 0, JobInit PROVE JobInv
    OBVIOUS
<1>1. Blank \in [Jobs -> Never..Horizon]
      BY ClockAssumption DEF Blank, Never
<1>2. \A j \in Jobs : lastRun[j] = finished[j] /\ stateFile[j] = finished[j]
      BY DEF JobInit
<1>3. 0 \in 0..Horizon /\ 0 \in 0..MaxRestarts
      BY ClockAssumption, JobAssumption
<1> HIDE DEF Blank, Jobs
<1>4. JobTypeOK
      BY <1>1, <1>3 DEF JobInit, JobTypeOK
<1> QED BY <1>2, <1>3, <1>4 DEF JobInv

\* Whether the write of the file is done, refused or cut, a job is known to be unsaved or
\* memory and file agree with its last finish (mark_ran, _save).
LEMMA MarkKeeps ==
    ASSUME JobInv, NEW j \in Jobs, MarkRan(j)
    PROVE  /\ lastRun' \in [Jobs -> Never..Horizon] /\ stateFile' \in [Jobs -> Never..Horizon]
           /\ finished' \in [Jobs -> Never..Horizon] /\ unsaved' \subseteq Jobs
           /\ \A k \in Jobs : k \in unsaved' \/ (lastRun'[k] = finished'[k] /\ stateFile'[k] = finished'[k])
<1>1. /\ lastRun \in [Jobs -> Never..Horizon] /\ stateFile \in [Jobs -> Never..Horizon]
      /\ finished \in [Jobs -> Never..Horizon] /\ unsaved \subseteq Jobs /\ now \in Never..Horizon
      /\ \A k \in Jobs : k \in unsaved \/ (lastRun[k] = finished[k] /\ stateFile[k] = finished[k])
      BY DEF JobInv, JobTypeOK, Never
<1>2. Blank \in [Jobs -> Never..Horizon]
      BY ClockAssumption DEF Blank, Never
<1> HIDE DEF Jobs, Blank
<1>3. /\ lastRun' = [lastRun EXCEPT ![j] = now] /\ finished' = [finished EXCEPT ![j] = now]
      /\ lastRun' \in [Jobs -> Never..Horizon] /\ finished' \in [Jobs -> Never..Horizon]
      BY <1>1 DEF MarkRan
<1>4. /\ lastRun'[j] = now /\ finished'[j] = now
      /\ \A k \in Jobs \ {j} : lastRun'[k] = lastRun[k] /\ finished'[k] = finished[k]
      BY <1>1, <1>3
<1>5. CASE stateFile' = lastRun' /\ unsaved' = {k \in unsaved : lastRun'[k] # finished'[k]}
      BY <1>1, <1>3, <1>4, <1>5
<1>6. CASE stateFile' = stateFile /\ unsaved' = unsaved \cup {j}
      BY <1>1, <1>3, <1>4, <1>6
<1>7. CASE stateFile' = Blank /\ unsaved' = Jobs
      BY <1>1, <1>2, <1>3, <1>7
<1> QED BY <1>5, <1>6, <1>7 DEF MarkRan

\* Refits, retrains, restarts and the clock keep memory and file in step with the jobs.
LEMMA JobStep == JobInv /\ [JobNext]_<<jobVars, now>> => JobInv'
<1> SUFFICES ASSUME JobInv, [JobNext]_<<jobVars, now>> PROVE JobInv'
    OBVIOUS
<1>0. "regime_refit" \in Jobs /\ "tcn_retrain" \in Jobs
      BY DEF Jobs
<1>1. CASE RefitRegime
  <2>1. fitted' = TRUE /\ pickled' \in BOOLEAN /\ UNCHANGED <<retraining, restarts, now>>
        BY <1>1 DEF RefitRegime
  <2>2. CASE MarkRan("regime_refit")
        BY <1>0, <2>1, <2>2, MarkKeeps DEF JobInv, JobTypeOK
  <2>3. CASE UNCHANGED <<lastRun, stateFile, finished, unsaved>>
        BY <2>1, <2>3 DEF JobInv, JobTypeOK
  <2> QED BY <1>1, <2>2, <2>3 DEF RefitRegime
<1>2. CASE StartRetrain
      BY <1>2 DEF StartRetrain, JobInv, JobTypeOK
<1>3. CASE FinishRetrain
  <2>1. retraining' = FALSE /\ UNCHANGED <<fitted, pickled, restarts, now>> /\ MarkRan("tcn_retrain")
        BY <1>3 DEF FinishRetrain
  <2> QED BY <1>0, <2>1, MarkKeeps DEF JobInv, JobTypeOK
<1>4. CASE RestartAgent
  <2>1. restarts' \in 0..MaxRestarts
        BY <1>4, JobAssumption DEF RestartAgent, JobInv, JobTypeOK
  <2> QED BY <1>4, <2>1 DEF RestartAgent, JobInv, JobTypeOK
<1>5. CASE JobTick
  <2>1. UNCHANGED <<lastRun, stateFile, retraining, fitted, pickled, restarts, finished, unsaved>>
        BY <1>5 DEF JobTick, jobVars
  <2>2. now' \in 0..Horizon
        BY <1>5, ClockAssumption DEF JobTick, Tick, JobInv
  <2> QED BY <2>1, <2>2 DEF JobInv, JobTypeOK
<1>6. CASE UNCHANGED <<jobVars, now>>
      BY <1>6 DEF jobVars, JobInv, JobTypeOK
<1> QED BY <1>1, <1>2, <1>3, <1>4, <1>5, <1>6 DEF JobNext

\* "Keeps last-run timestamps in a JSON file so that intervals survive process restarts".
THEOREM JobsStaySpaced == JobSpec => IntervalsSurviveRestarts
<1>1. JobInv /\ [JobNext]_<<jobVars, now>> =>
        [/\ ~retraining /\ retraining' => Spaced("tcn_retrain")
         /\ fitted /\ ~retraining /\ finished' # finished => Spaced("regime_refit")]_<<jobVars, now>>
  <2> SUFFICES ASSUME JobInv, JobNext
               PROVE  /\ ~retraining /\ retraining' => Spaced("tcn_retrain")
                      /\ fitted /\ ~retraining /\ finished' # finished => Spaced("regime_refit")
      OBVIOUS
  <2>1. \A j \in Jobs : Due(j) => Spaced(j)
        BY DEF JobInv, Due, Spaced
  <2>2. "regime_refit" \in Jobs /\ "tcn_retrain" \in Jobs
        BY DEF Jobs
  <2>3. ASSUME ~retraining, retraining' PROVE Spaced("tcn_retrain")
    <3>1. StartRetrain
          BY <2>3 DEF JobNext, RefitRegime, FinishRetrain, RestartAgent, JobTick, jobVars
    <3> QED BY <2>1, <2>2, <3>1 DEF StartRetrain
  <2>4. ASSUME fitted, ~retraining, finished' # finished PROVE Spaced("regime_refit")
    <3>1. RefitRegime
          BY <2>4 DEF JobNext, StartRetrain, FinishRetrain, RestartAgent, JobTick, jobVars
    <3> QED BY <2>1, <2>2, <2>4, <3>1 DEF RefitRegime
  <2> QED BY <2>3, <2>4
<1>2. JobSpec => []JobInv
      BY JobInitially, JobStep, PTL DEF JobSpec
<1> QED BY <1>1, <1>2, PTL DEF JobSpec, IntervalsSurviveRestarts
-----------------------------------------------------------------------------
(* LearnedState: what is on disk is what the running process works with,   *)
(* unless a write was lost.                                                *)

LearnInv ==
    /\ LearnTypeOK
    /\ closed.usable <= closed.count
    /\ lastFit > 0 /\ ~fitLost => fit # NoFit /\ fit.at = lastFit /\ fitFile = fit
    /\ edgeFile # 0 => applied = edgeFile

\* A first process starts from the configured edge, without a calibrator and without files.
LEMMA LearnInitially == LearnInit => LearnInv
<1> SUFFICES ASSUME LearnInit PROVE LearnInv
    OBVIOUS
<1>1. /\ closed = [count |-> 0, usable |-> 0, mixed |-> FALSE, spread |-> FALSE]
      /\ 0 \in 0..MaxClosed /\ 0 \in 0..MaxLearns
      BY LearnAssumption DEF LearnInit
<1>2. minEdge \in Edges /\ applied \in Edges /\ edgeFile = 0
      BY LearnAssumption DEF LearnInit, Edges
<1>3. fit \in Fits /\ fitFile \in Fits /\ lastFit = 0 /\ fitLost = FALSE /\ learns = 0
      BY DEF LearnInit, Fits
<1> HIDE DEF Edges, Fits
<1>4. /\ closed \in [count : 0..MaxClosed, usable : 0..MaxClosed, mixed : BOOLEAN, spread : BOOLEAN]
      /\ closed.usable <= closed.count
      BY <1>1
<1>5. LearnTypeOK
      BY <1>1, <1>2, <1>3, <1>4 DEF LearnTypeOK
<1>6. ~(lastFit > 0) /\ edgeFile = 0
      BY <1>2, <1>3
<1> QED BY <1>4, <1>5, <1>6 DEF LearnInv

\* The edges learner.py may apply are the integers from its floor to its ceiling, in basis points.
LEMMA EdgesAre ==
    /\ Floor \in Int /\ Ceiling \in Int /\ Floor = 4000 /\ Ceiling = 20000
    /\ \A q : q \in Edges <=> q \in Int /\ Floor <= q /\ q <= Ceiling
    /\ BaseEdge \in Edges
<1>1. Floor \in Int /\ Ceiling \in Int /\ Floor = 4000 /\ Ceiling = 20000
      BY DEF Floor, Ceiling
<1>2. \A q : q \in Edges <=> q \in Int /\ Floor <= q /\ q <= Ceiling
  <2>1. ASSUME NEW lo \in Int, NEW hi \in Int
        PROVE  \A q : q \in lo..hi <=> q \in Int /\ lo <= q /\ q <= hi
        OBVIOUS
  <2>2. Floor \in Int /\ Ceiling \in Int
        BY <1>1
  <2> QED BY <2>1, <2>2 DEF Edges
<1>3. BaseEdge \in Edges
      BY LearnAssumption DEF Edges
<1> QED BY <1>1, <1>2, <1>3

\* The adjusted edge stays between the floor and the ceiling of learner.py, whatever the Brier
\* score and the win rate, and so does what the decay to the baseline makes of it.
LEMMA AdjustedInRange == ASSUME NEW brier, NEW wins, minEdge \in Edges PROVE Adjusted(brier, wins) \in Edges
<1>1. /\ \A e \in Int : Clamped(e) \in Edges
      /\ \A e \in Int : ByWinRate(e, wins) \in Int
  <2>1. ASSUME NEW e \in Int PROVE Clamped(e) \in Edges
    <3>1. AtMost(e, Ceiling) \in Int /\ AtMost(e, Ceiling) <= Ceiling
          BY EdgesAre DEF AtMost
    <3>2. Clamped(e) \in Int /\ Floor <= Clamped(e) /\ Clamped(e) <= Ceiling
          BY <3>1, EdgesAre DEF Clamped, AtLeast
    <3> QED BY <3>2, EdgesAre
  <2>2. ASSUME NEW e \in Int PROVE ByWinRate(e, wins) \in Int
    <3>1. AtMost(e + 1000, Ceiling) \in Int /\ AtLeast(e - 500, 5000) \in Int
          BY DEF AtLeast, AtMost, Ceiling
    <3> QED BY <3>1 DEF ByWinRate
  <2> QED BY <2>1, <2>2
<1>2. ASSUME NEW e \in Int PROVE ByBrier(e, brier) \in Int /\ ByWinRate(e, "none") \in Int
  <2>1. AtMost(e + 2000, Ceiling) \in Int /\ AtLeast(e - 1000, 5000) \in Int
        BY DEF AtLeast, AtMost, Ceiling
  <2> QED BY <2>1 DEF ByBrier, ByWinRate
<1>3. \A e \in Edges : Decayed(e) \in Edges
  <2> SUFFICES ASSUME NEW e \in Edges PROVE Decayed(e) \in Edges
      OBVIOUS
  <2>1. /\ e \in Int /\ BaseEdge \in Int /\ 4000 <= e /\ e <= 20000
        /\ 4000 <= BaseEdge /\ BaseEdge <= 20000
        BY EdgesAre
  <2> DEFINE x == e * 99 + BaseEdge
             q == x \div 100
  <2>2. x \in Int /\ 400000 <= x /\ x <= 2000000
        BY <2>1
  <2> HIDE DEF x
  <2>3. /\ q \in Int /\ x = 100 * q + (x % 100)
        /\ x % 100 \in 0..99
        BY <2>2, Z3
  <2>4. x % 100 \in Int /\ 0 <= x % 100 /\ x % 100 <= 99
        BY <2>3
  <2> HIDE DEF q
  <2>5. 4000 <= q /\ q <= 20000
        BY <2>2, <2>3, <2>4
  <2>6. q \in Edges
        BY <2>3, <2>5, EdgesAre
  <2>7. Decayed(e) = q
        BY DEF Decayed, q, x
  <2> QED BY <2>6, <2>7
<1>4. minEdge \in Int
      BY EdgesAre
<1>5. Clamped(minEdge) \in Edges
      BY <1>1, <1>4
<1>6. \A w \in {wins, "none"} : Clamped(ByWinRate(ByBrier(minEdge, brier), w)) \in Edges
      BY <1>1, <1>2, <1>4
<1> QED BY <1>3, <1>5, <1>6 DEF Adjusted

\* A fit that is written is what a later process loads; one that is not is known to be lost.
LEMMA FitKeeps ==
    ASSUME LearnInv, NEW write \in Writes,
           IF Refits
           THEN /\ fit' = NewFit
                /\ fitFile' = Written(fitFile, NoFit, NewFit, write)
                /\ lastFit' = closed.count /\ fitLost' = (write # "done")
           ELSE UNCHANGED <<fit, fitFile, lastFit, fitLost>>
    PROVE  /\ fit' \in Fits /\ fitFile' \in Fits /\ lastFit' \in 0..MaxClosed /\ fitLost' \in BOOLEAN
           /\ lastFit' > 0 /\ ~fitLost' => fit' # NoFit /\ fit'.at = lastFit' /\ fitFile' = fit'
<1>1. CASE Refits
  <2>1. closed.count \in 1..MaxClosed /\ closed.usable \in 1..MaxClosed
        BY <1>1, LearnAssumption DEF Refits, ShouldRefit, LearnInv, LearnTypeOK
  <2>2. /\ NewFit \in Fits /\ NewFit # NoFit /\ NewFit.at = closed.count /\ NewFit.samples = closed.usable
        BY <2>1 DEF NewFit, NoFit, Fits
  <2>3. /\ Written(fitFile, NoFit, NewFit, write) \in {fitFile, NoFit, NewFit}
        /\ write = "done" => Written(fitFile, NoFit, NewFit, write) = NewFit
        BY DEF Written, Writes
  <2>4. fitFile \in Fits /\ NoFit \in Fits
        BY DEF LearnInv, LearnTypeOK, Fits
  <2>5. /\ fit' = NewFit /\ fitFile' = Written(fitFile, NoFit, NewFit, write)
        /\ lastFit' = closed.count /\ fitLost' = (write # "done")
        BY <1>1
  <2> HIDE DEF NewFit, NoFit, Fits
  <2>6. fit' \in Fits /\ fitFile' \in Fits
        BY <2>2, <2>3, <2>4, <2>5
  <2>7. lastFit' \in 0..MaxClosed /\ fitLost' \in BOOLEAN
        BY <2>1, <2>5
  <2>8. ASSUME ~fitLost' PROVE fit' # NoFit /\ fit'.at = lastFit' /\ fitFile' = fit'
    <3>1. write = "done"
          BY <2>5, <2>8
    <3> QED BY <2>2, <2>3, <2>5, <3>1
  <2> QED BY <2>1, <2>2, <2>5, <2>6, <2>7, <2>8
<1>2. CASE ~Refits
      BY <1>2 DEF LearnInv, LearnTypeOK
<1> QED BY <1>1, <1>2

\* A LEARN step, also one that a failed write ends, keeps memory and files in step.
LEMMA LearnKeeps ==
    ASSUME LearnInv, NEW brier, NEW wins, NEW fitWrite \in Writes, NEW edgeWrite \in Writes,
           Learn(brier, wins, fitWrite, edgeWrite)
    PROVE  LearnInv'
<1>1. closed' = closed /\ learns' \in 0..MaxLearns
      BY LearnAssumption DEF Learn, LearnInv, LearnTypeOK
<1>2. /\ fit' \in Fits /\ fitFile' \in Fits /\ lastFit' \in 0..MaxClosed /\ fitLost' \in BOOLEAN
      /\ lastFit' > 0 /\ ~fitLost' => fit' # NoFit /\ fit'.at = lastFit' /\ fitFile' = fit'
      BY FitKeeps DEF Learn
<1>3. /\ minEdge' \in Edges /\ applied' \in Edges /\ edgeFile' \in Edges \cup {0}
      /\ edgeFile' # 0 => applied' = edgeFile'
  <2>1. minEdge \in Edges /\ applied \in Edges /\ edgeFile \in Edges \cup {0}
        BY DEF LearnInv, LearnTypeOK
  <2>2. CASE fitWrite = "done"
    <3>1. /\ minEdge' = Adjusted(brier, wins) /\ edgeFile' = Written(edgeFile, 0, minEdge', edgeWrite)
          /\ applied' = IF edgeWrite = "done" THEN minEdge' ELSE applied
          BY <2>2 DEF Learn
    <3>2. minEdge' \in Edges
          BY <2>1, <3>1, AdjustedInRange
    <3>3. edgeWrite \in {"done", "refused", "cut"}
          BY DEF Writes
    <3> QED BY <2>1, <3>1, <3>2, <3>3 DEF Written, LearnInv
  <2>3. CASE fitWrite # "done"
        BY <2>1, <2>3 DEF Learn, LearnInv
  <2> QED BY <2>2, <2>3
<1> QED BY <1>1, <1>2, <1>3 DEF LearnInv, LearnTypeOK

\* Trades closing, LEARN steps and restarts keep memory and files in step.
LEMMA LearnStep == LearnInv /\ [LearnNext]_learnVars => LearnInv'
<1> SUFFICES ASSUME LearnInv, [LearnNext]_learnVars PROVE LearnInv'
    OBVIOUS
<1>1. ASSUME NEW usable \in BOOLEAN, NEW mixed \in BOOLEAN, NEW spread \in BOOLEAN,
             CloseTrade(usable, mixed, spread)
      PROVE  LearnInv'
  <2>1. UNCHANGED <<minEdge, applied, edgeFile, fit, fitFile, lastFit, fitLost, learns>>
        BY <1>1 DEF CloseTrade
  <2>2. /\ closed.count \in 0..MaxClosed /\ closed.usable \in 0..MaxClosed /\ closed.mixed \in BOOLEAN
        /\ closed.count < MaxClosed /\ closed.usable <= closed.count /\ closed.spread \in BOOLEAN
        BY <1>1 DEF LearnInv, LearnTypeOK, CloseTrade
  <2>3. PICK n \in 0..MaxClosed, u \in 0..MaxClosed, m \in BOOLEAN, s \in BOOLEAN :
          u <= n /\ closed' = [count |-> n, usable |-> u, mixed |-> m, spread |-> s]
    <3> DEFINE n == closed.count + 1
               u == closed.usable + (IF usable THEN 1 ELSE 0)
               m == closed.mixed \/ (usable /\ mixed /\ closed.usable > 0)
               s == closed.spread \/ (usable /\ spread /\ closed.usable > 0)
    <3>1. n \in 0..MaxClosed /\ u \in 0..MaxClosed /\ u <= n
          BY <2>2, LearnAssumption
    <3>2. m \in BOOLEAN /\ s \in BOOLEAN
          OBVIOUS
    <3>3. closed' = [count |-> n, usable |-> u, mixed |-> m, spread |-> s]
          BY <1>1 DEF CloseTrade
    <3> HIDE DEF n, u, m, s
    <3> QED BY <3>1, <3>2, <3>3
  <2> QED BY <2>1, <2>3 DEF LearnInv, LearnTypeOK
<1>2. CASE Restart
  <2>1. learns' \in 0..MaxLearns
        BY <1>2, LearnAssumption DEF Restart, LearnInv, LearnTypeOK
  <2>2. fit' = fitFile /\ applied' = minEdge' /\ UNCHANGED <<closed, edgeFile, fitFile, lastFit, fitLost>>
        BY <1>2 DEF Restart, LoadedFit
  <2>3. minEdge' \in Edges /\ (edgeFile # 0 => minEdge' = edgeFile)
        BY <1>2, LearnAssumption DEF Restart, LearnInv, LearnTypeOK, Edges
  <2> QED BY <2>1, <2>2, <2>3 DEF LearnInv, LearnTypeOK
<1>3. CASE UNCHANGED learnVars
      BY <1>3 DEF learnVars, LearnInv, LearnTypeOK
<1> QED BY <1>1, <1>2, <1>3, LearnKeeps DEF LearnNext

\* What is learned survives restarts: should_refit counts from the last fit of any process, and
\* the edge that is applied is the one that was saved.
THEOREM LearningSurvives == LearnSpec => LearningSurvivesRestarts
<1>1. LearnInv /\ LearnInv' /\ [LearnNext]_learnVars =>
        [/\ lastFit' # lastFit => lastFit = 0 \/ fitLost \/ closed.count >= lastFit + RefitInterval
         /\ edgeFile' # 0 => applied' = edgeFile']_learnVars
  <2> SUFFICES ASSUME LearnInv, LearnNext, lastFit' # lastFit, lastFit # 0, ~fitLost
               PROVE  closed.count >= lastFit + RefitInterval
      BY DEF LearnInv
  <2>1. Refits
        BY DEF LearnNext, CloseTrade, Learn, Restart
  <2>2. lastFit > 0
        BY DEF LearnInv, LearnTypeOK
  <2> QED BY <2>1, <2>2 DEF LearnInv, Refits, ShouldRefit
<1>2. LearnSpec => []LearnInv
      BY LearnInitially, LearnStep, PTL DEF LearnSpec
<1> QED BY <1>1, <1>2, PTL DEF LearnSpec, LearningSurvivesRestarts
-----------------------------------------------------------------------------
(* Wallets: the traders in flight pay for how far a wallet is ahead.       *)

OnTheWay(w) == Cardinality({t \in Traders : w \in using[t]})

\* A wallet is ahead of another at most by what the traders that do not use it could record.
WalletInv ==
    /\ WalletTypeOK
    /\ strategy = "min_utilization" => \A a, b \in Wallet :
          utilization[a] + MaxAmount * OnTheWay(a) <= utilization[b] + Outstanding
    /\ strategy = "weighted" => \A a, b \in Wallet :
          utilization[a] * Allocation[b] + (MaxAmount * OnTheWay(a)) * Allocation[b]
             <= utilization[b] * Allocation[a] + Outstanding * Allocation[b]
    /\ strategy = "round_robin" => \E n \in Nat : \A i \in DOMAIN Addresses :
          picks[Addresses[i]] = IF i <= rrIndex % Len(Addresses) THEN n + 1 ELSE n

\* The wallets are a sequence of distinct addresses with positive weights (WalletManager.__init__).
LEMMA WalletFacts ==
    /\ Len(Addresses) \in Nat \ {0} /\ DOMAIN Addresses = 1..Len(Addresses)
    /\ \A i \in DOMAIN Addresses : Addresses[i] \in Wallet
    /\ \A w \in Wallet : Allocation[w] \in Nat \ {0}
    /\ \A w \in Wallet : \E i \in DOMAIN Addresses : w = Addresses[i]
    /\ MaxAmount \in Nat \ {0} /\ IsFiniteSet(Traders) /\ Cardinality(Traders) \in Nat
    /\ Outstanding \in Nat
<1>1. Addresses \in Seq(STRING) /\ Addresses # <<>>
      BY WalletAssumption
<1>2. Len(Addresses) \in Nat \ {0} /\ DOMAIN Addresses = 1..Len(Addresses)
      BY <1>1
<1>3. Cardinality(Traders) \in Nat /\ MaxAmount \in Nat \ {0}
      BY WalletAssumption, FS_CardinalityType
<1>4. Outstanding \in Nat
      BY <1>3 DEF Outstanding
<1> QED BY <1>2, <1>3, <1>4, WalletAssumption DEF Wallet

\* Comparing ratios by cross-multiplication is transitive.
LEMMA RatioTransitive ==
    ASSUME NEW ua \in Nat, NEW ub \in Nat, NEW uc \in Nat,
           NEW wa \in Nat \ {0}, NEW wb \in Nat \ {0}, NEW wc \in Nat \ {0},
           ua * wb <= ub * wa, ub * wc <= uc * wb
    PROVE  /\ ua * wc <= uc * wa
           /\ ua * wb < ub * wa \/ ub * wc < uc * wb => ua * wc < uc * wa
<1>1. (ua * wb) * wc <= (ub * wa) * wc /\ (ub * wc) * wa <= (uc * wb) * wa
      OBVIOUS
<1>2. /\ (ua * wb) * wc = (ua * wc) * wb /\ (ub * wa) * wc = (ub * wc) * wa
      /\ (uc * wb) * wa = (uc * wa) * wb
      OBVIOUS
<1>3. (ua * wc) * wb <= (uc * wa) * wb
      BY <1>1, <1>2
<1>4. \A x, y \in Int : x * wb <= y * wb => x <= y
      OBVIOUS
<1>5. \A x, y \in Int : x * wb < y * wb => x < y
      OBVIOUS
<1>6. ua * wb < ub * wa => (ua * wb) * wc < (ub * wa) * wc
      OBVIOUS
<1>7. ub * wc < uc * wb => (ub * wc) * wa < (uc * wb) * wa
      OBVIOUS
<1> DEFINE x == ua * wc
           y == uc * wa
<1>8. x \in Int /\ y \in Int /\ x * wb <= y * wb
      BY <1>3
<1>9. ua * wb < ub * wa \/ ub * wc < uc * wb => x * wb < y * wb
      BY <1>1, <1>2, <1>6, <1>7
<1> HIDE DEF x, y
<1>10. x <= y
      BY <1>4, <1>8
<1>11. ua * wb < ub * wa \/ ub * wc < uc * wb => x < y
      BY <1>5, <1>8, <1>9
<1> QED BY <1>10, <1>11 DEF x, y

\* The order min() goes by, with its tie-breaking 1e-9, is a strict order of the wallets in
\* which two that it cannot tell apart compare alike to any third (get_wallet).
LEMMA LowerOrders ==
    ASSUME utilization \in [Wallet -> Nat],
           NEW weight, \A w \in Wallet : weight[w] \in Nat \ {0},
           NEW a \in Wallet, NEW b \in Wallet, NEW c \in Wallet
    PROVE  /\ ~Lower(weight, a, a)
           /\ Lower(weight, a, b) => ~Lower(weight, b, a)
           /\ Lower(weight, a, b) /\ ~Lower(weight, c, b) => Lower(weight, a, c)
<1> DEFINE ua == utilization[a]
           ub == utilization[b]
           uc == utilization[c]
           wa == weight[a]
           wb == weight[b]
           wc == weight[c]
<1>1. /\ ua \in Nat /\ ub \in Nat /\ uc \in Nat
      /\ wa \in Nat \ {0} /\ wb \in Nat \ {0} /\ wc \in Nat \ {0}
      OBVIOUS
<1>2. /\ Lower(weight, a, a) <=> ua * wa < ua * wa \/ (ua * wa = ua * wa /\ wa > wa)
      /\ Lower(weight, a, b) <=> ua * wb < ub * wa \/ (ua * wb = ub * wa /\ wa > wb)
      /\ Lower(weight, b, a) <=> ub * wa < ua * wb \/ (ub * wa = ua * wb /\ wb > wa)
      /\ Lower(weight, c, b) <=> uc * wb < ub * wc \/ (uc * wb = ub * wc /\ wc > wb)
      /\ Lower(weight, a, c) <=> ua * wc < uc * wa \/ (ua * wc = uc * wa /\ wa > wc)
      BY DEF Lower
<1> HIDE DEF ua, ub, uc, wa, wb, wc
<1>3. /\ ua * wb \in Int /\ ub * wa \in Int /\ ub * wc \in Int /\ uc * wb \in Int
      /\ ua * wc \in Int /\ uc * wa \in Int /\ ua * wa \in Int
      BY <1>1
<1>4. ua * wb <= ub * wa /\ ub * wc <= uc * wb =>
        /\ ua * wc <= uc * wa
        /\ ua * wb < ub * wa \/ ub * wc < uc * wb => ua * wc < uc * wa
      BY <1>1, RatioTransitive
<1>5. ~Lower(weight, a, a)
      BY <1>1, <1>2, <1>3
<1>6. Lower(weight, a, b) => ~Lower(weight, b, a)
      BY <1>1, <1>2, <1>3
<1>7. ASSUME Lower(weight, a, b), ~Lower(weight, c, b) PROVE Lower(weight, a, c)
  <2>1. ua * wb <= ub * wa /\ ub * wc <= uc * wb
        BY <1>2, <1>3, <1>7
  <2>2. CASE ua * wb < ub * wa \/ ub * wc < uc * wb
        BY <1>2, <1>4, <2>1, <2>2
  <2>3. CASE ua * wb = ub * wa /\ ub * wc = uc * wb
    <3>1. wa > wb /\ ~(wc > wb)
          BY <1>2, <1>3, <1>7, <2>3
    <3>2. wa > wc
          BY <1>1, <3>1
    <3> QED BY <1>2, <1>3, <1>4, <2>1, <3>2
  <2> QED BY <1>3, <2>1, <2>2, <2>3
<1> QED BY <1>5, <1>6, <1>7

\* min() finds a wallet that none is lower than (get_wallet).
LEMMA FirstIs ==
    ASSUME utilization \in [Wallet -> Nat],
           NEW weight, \A w \in Wallet : weight[w] \in Nat \ {0}
    PROVE  /\ First(weight) \in DOMAIN Addresses
           /\ \A j \in DOMAIN Addresses : ~Lower(weight, Addresses[j], Addresses[First(weight)])
<1> DEFINE n == Len(Addresses)
           lower(i, j) == Lower(weight, Addresses[i], Addresses[j])
           Least(i, m) == /\ \A j \in 1..m : ~lower(j, i)
                          /\ \A j \in 1..(i - 1) : lower(i, j)
           C == {m \in Nat : m < n => \E i \in 1..(m + 1) : Least(i, m + 1)}
<1>1. n \in Nat \ {0} /\ DOMAIN Addresses = 1..n
      BY WalletFacts
<1>2. \A i, j, k \in 1..n :
        /\ ~lower(i, i)
        /\ lower(i, j) => ~lower(j, i)
        /\ lower(i, j) /\ ~lower(k, j) => lower(i, k)
  <2>1. \A i \in 1..n : Addresses[i] \in Wallet
        BY <1>1, WalletFacts
  <2> SUFFICES ASSUME NEW i \in 1..n, NEW j \in 1..n, NEW k \in 1..n
               PROVE  /\ ~lower(i, i)
                      /\ lower(i, j) => ~lower(j, i)
                      /\ lower(i, j) /\ ~lower(k, j) => lower(i, k)
      OBVIOUS
  <2> QED BY <2>1, LowerOrders
<1> HIDE DEF n, lower
<1>3. 0 \in C
  <2>1. Least(1, 1)
    <3>1. \A j \in 1..1 : j = 1
          OBVIOUS
    <3>2. 1 \in 1..n /\ ~ \E j \in 1..(1 - 1) : TRUE
          BY <1>1
    <3> QED BY <1>2, <3>1, <3>2
  <2> QED BY <2>1
<1>4. ASSUME NEW m \in Nat, m \in C PROVE m + 1 \in C
  <2> SUFFICES ASSUME m + 1 < n PROVE \E i \in 1..(m + 2) : Least(i, m + 2)
      OBVIOUS
  <2>1. PICK i \in 1..(m + 1) : Least(i, m + 1)
        BY <1>1, <1>4
  <2>2. /\ m + 2 \in 1..n /\ i \in 1..n /\ i \in 1..(m + 2) /\ (m + 2) - 1 = m + 1
        /\ \A j \in 1..(m + 2) : j \in 1..n /\ (j \in 1..(m + 1) \/ j = m + 2)
        BY <1>1
  <2>3. CASE lower(m + 2, i)
    <3>1. \A j \in 1..(m + 1) : lower(m + 2, j)
          BY <1>2, <2>1, <2>2, <2>3
    <3>2. \A j \in 1..(m + 1) : ~lower(j, m + 2)
          BY <1>2, <2>2, <3>1
    <3>3. ~lower(m + 2, m + 2)
          BY <1>2, <2>2
    <3> QED BY <2>2, <3>1, <3>2, <3>3
  <2>4. CASE ~lower(m + 2, i)
        BY <2>1, <2>2, <2>4
  <2> QED BY <2>3, <2>4
<1>5. \A m \in Nat : m \in C
  <2> HIDE DEF C
  <2> QED BY <1>3, <1>4, CountingUp
<1>6. n - 1 \in Nat /\ (n - 1) + 1 = n /\ n - 1 < n
      BY <1>1
<1>7. \E i \in 1..n : Least(i, n)
      BY <1>5, <1>6
<1>8. \E i \in DOMAIN Addresses :
        /\ \A j \in DOMAIN Addresses : ~Lower(weight, Addresses[j], Addresses[i])
        /\ \A j \in 1..(i - 1) : Lower(weight, Addresses[i], Addresses[j])
      BY <1>1, <1>7 DEF lower
<1> HIDE DEF Least
<1> QED BY <1>8 DEF First

\* What each strategy hands out: the wallet whose turn it is, the one with the least
\* utilization, the one with the least utilization per weight (get_wallet).
LEMMA SelectedIs ==
    ASSUME WalletTypeOK
    PROVE  /\ Selected \in Wallet
           /\ strategy = "min_utilization" =>
                \A b \in Wallet : utilization[Selected] <= utilization[b]
           /\ strategy = "weighted" =>
                \A b \in Wallet : utilization[Selected] * Allocation[b] <= utilization[b] * Allocation[Selected]
           /\ strategy = "round_robin" =>
                /\ (rrIndex % Len(Addresses)) + 1 \in DOMAIN Addresses
                /\ Selected = Addresses[(rrIndex % Len(Addresses)) + 1]
<1>1. /\ utilization \in [Wallet -> Nat] /\ rrIndex \in Nat
      /\ strategy \in {"round_robin", "min_utilization", "weighted"}
      BY DEF WalletTypeOK
<1>2. CASE strategy = "round_robin"
  <2> DEFINE n == Len(Addresses)
  <2>1. n \in Nat \ {0} /\ DOMAIN Addresses = 1..n
        BY WalletFacts
  <2> HIDE DEF n
  <2>2. (rrIndex % n) + 1 \in 1..n
        BY <1>1, <2>1
  <2> QED BY <1>2, <2>1, <2>2, WalletFacts DEF Selected, n
<1>3. CASE strategy = "min_utilization"
  <2> DEFINE one == [w \in Wallet |-> 1]
             s == Addresses[First(one)]
  <2>1. \A w \in Wallet : one[w] = 1 /\ one[w] \in Nat \ {0}
        OBVIOUS
  <2> HIDE DEF one
  <2>2. First(one) \in DOMAIN Addresses /\ \A j \in DOMAIN Addresses : ~Lower(one, Addresses[j], s)
        BY <1>1, <2>1, FirstIs
  <2>3. s \in Wallet /\ \A b \in Wallet : ~Lower(one, b, s)
        BY <2>2, WalletFacts
  <2> HIDE DEF s
  <2>4. \A b \in Wallet : utilization[s] <= utilization[b]
        BY <1>1, <2>1, <2>3 DEF Lower
  <2>5. Selected = s
        BY <1>3 DEF Selected, s, one
  <2> QED BY <1>3, <2>3, <2>4, <2>5
<1>4. CASE strategy = "weighted"
  <2> DEFINE s == Addresses[First(Allocation)]
  <2>1. \A w \in Wallet : Allocation[w] \in Nat \ {0}
        BY WalletFacts
  <2>2. First(Allocation) \in DOMAIN Addresses /\ \A j \in DOMAIN Addresses : ~Lower(Allocation, Addresses[j], s)
        BY <1>1, <2>1, FirstIs
  <2>3. s \in Wallet /\ \A b \in Wallet : ~Lower(Allocation, b, s)
        BY <2>2, WalletFacts
  <2> HIDE DEF s
  <2>4. ASSUME NEW b \in Wallet PROVE utilization[s] * Allocation[b] <= utilization[b] * Allocation[s]
    <3>1. utilization[s] * Allocation[b] \in Int /\ utilization[b] * Allocation[s] \in Int
          BY <1>1, <2>1, <2>3
    <3>2. ~(utilization[b] * Allocation[s] < utilization[s] * Allocation[b])
          BY <2>3 DEF Lower
    <3> QED BY <3>1, <3>2
  <2>5. Selected = s
        BY <1>4 DEF Selected, s
  <2> QED BY <1>4, <2>3, <2>4, <2>5
<1> QED BY <1>1, <1>2, <1>3, <1>4

\* The traders in flight are finitely many and each is in flight on one wallet.
LEMMA FlightsAre ==
    ASSUME WalletTypeOK
    PROVE  /\ \A w : OnTheWay(w) \in Nat /\ OnTheWay(w) <= Cardinality(Traders)
           /\ \A t \in Traders : \A w \in using[t] : using[t] = {w} /\ w \in Wallet
<1>1. \A w : {t \in Traders : w \in using[t]} \in SUBSET Traders
      OBVIOUS
<1>2. \A w : OnTheWay(w) \in Nat /\ OnTheWay(w) <= Cardinality(Traders)
      BY <1>1, WalletFacts, FS_Subset, FS_CardinalityType DEF OnTheWay
<1>3. \A t \in Traders : \A w \in using[t] : using[t] = {w} /\ w \in Wallet
      BY DEF WalletTypeOK
<1> QED BY <1>2, <1>3

\* Being given a wallet, or recording on it, changes the flights of that wallet alone.
LEMMA FlightsMove ==
    ASSUME WalletTypeOK, NEW t \in Traders, NEW w \in Wallet
    PROVE  /\ using[t] = {} /\ using' = [using EXCEPT ![t] = {w}] =>
                \A b \in Wallet : b # w => OnTheWay(b)' = OnTheWay(b)
           /\ w \in using[t] /\ using' = [using EXCEPT ![t] = {}] =>
                \A b \in Wallet : OnTheWay(b)' = IF b = w THEN OnTheWay(b) - 1 ELSE OnTheWay(b)
<1>1. \A b : IsFiniteSet({u \in Traders : b \in using[u]})
  <2>1. \A b : {u \in Traders : b \in using[u]} \in SUBSET Traders
        OBVIOUS
  <2> QED BY <2>1, WalletFacts, FS_Subset
<1>2. DOMAIN using = Traders
      BY DEF WalletTypeOK
<1>3. ASSUME using[t] = {}, using' = [using EXCEPT ![t] = {w}], NEW b \in Wallet, b # w
      PROVE  OnTheWay(b)' = OnTheWay(b)
  <2>1. {u \in Traders : b \in using'[u]} = {u \in Traders : b \in using[u]}
        BY <1>2, <1>3
  <2> QED BY <2>1 DEF OnTheWay
<1>4. ASSUME w \in using[t], using' = [using EXCEPT ![t] = {}], NEW b \in Wallet
      PROVE  OnTheWay(b)' = IF b = w THEN OnTheWay(b) - 1 ELSE OnTheWay(b)
  <2>1. CASE b = w
    <3> DEFINE F == {u \in Traders : b \in using[u]}
    <3>1. {u \in Traders : b \in using'[u]} = F \ {t} /\ t \in F
          BY <1>2, <1>4, <2>1
    <3>2. IsFiniteSet(F)
          BY <1>1
    <3>3. OnTheWay(b) = Cardinality(F) /\ OnTheWay(b)' = Cardinality(F \ {t})
          BY <3>1 DEF OnTheWay
    <3> HIDE DEF F
    <3>4. Cardinality(F \ {t}) = Cardinality(F) - 1
          BY <3>1, <3>2, FS_RemoveElement
    <3> QED BY <2>1, <3>3, <3>4
  <2>2. CASE b # w
    <3>1. using[t] = {w}
          BY <1>4, FlightsAre
    <3>2. {u \in Traders : b \in using'[u]} = {u \in Traders : b \in using[u]}
          BY <1>2, <1>4, <2>2, <3>1
    <3> QED BY <2>2, <3>2 DEF OnTheWay
  <2> QED BY <2>1, <2>2
<1> QED BY <1>3, <1>4

\* No wallet has been used or handed out (WalletManager.__init__).
LEMMA WalletInitially == WalletInit => WalletInv
<1> SUFFICES ASSUME WalletInit PROVE WalletInv
    OBVIOUS
<1>1. WalletTypeOK
      BY DEF WalletInit, WalletTypeOK
<1>2. \A w : {t \in Traders : w \in using[t]} = {}
      BY DEF WalletInit
<1>3. \A w : OnTheWay(w) = 0
      BY <1>2, FS_EmptySet DEF OnTheWay
<1>4. \A w \in Wallet : utilization[w] = 0 /\ picks[w] = 0
      BY DEF WalletInit
<1>5. ASSUME NEW a \in Wallet, NEW b \in Wallet
      PROVE  utilization[a] * Allocation[b] + (MaxAmount * OnTheWay(a)) * Allocation[b]
                <= utilization[b] * Allocation[a] + Outstanding * Allocation[b]
  <2>1. Allocation[a] \in Nat /\ Allocation[b] \in Nat /\ Outstanding \in Nat /\ MaxAmount \in Nat
        BY WalletFacts
  <2>2. /\ 0 * Allocation[b] = 0 /\ MaxAmount * 0 = 0 /\ 0 * Allocation[a] = 0
        /\ Outstanding * Allocation[b] \in Nat
        BY <2>1
  <2> QED BY <1>3, <1>4, <2>2
<1>6. \A a, b \in Wallet : utilization[a] + MaxAmount * OnTheWay(a) <= utilization[b] + Outstanding
      BY <1>3, <1>4, WalletFacts
<1>7. \A i \in DOMAIN Addresses : picks[Addresses[i]] = IF i <= rrIndex % Len(Addresses) THEN 0 + 1 ELSE 0
  <2> DEFINE n == Len(Addresses)
  <2>1. n \in Nat \ {0} /\ DOMAIN Addresses = 1..n
        BY WalletFacts
  <2> HIDE DEF n
  <2>2. 0 % n = 0
        BY <2>1
  <2>3. \A i \in DOMAIN Addresses : picks[Addresses[i]] = 0
        BY <1>4, WalletFacts
  <2> QED BY <2>1, <2>2, <2>3 DEF WalletInit, n
<1> QED BY <1>1, <1>5, <1>6, <1>7 DEF WalletInv

\* The turn passes to the next wallet, and from the last one to the first (_rr_index).
LEMMA TurnPasses ==
    ASSUME NEW r \in Nat, NEW n \in Nat \ {0}
    PROVE  /\ r % n \in 0..(n - 1)
           /\ (r + 1) % n = IF (r % n) + 1 = n THEN 0 ELSE (r % n) + 1
<1> DEFINE q == r \div n
           m == r % n
           p == (r + 1) \div n
           k == (r + 1) % n
<1>1. /\ q \in Nat /\ p \in Nat /\ m \in 0..(n - 1) /\ k \in 0..(n - 1)
      /\ r = n * q + m /\ r + 1 = n * p + k
      BY Z3
<1> HIDE DEF q, m, p, k
<1>2. n * (p - q) = n * p - n * q /\ n * (p - q) = m + 1 - k
  <2>1. n * (p - q) = n * p - n * q
        BY <1>1
  <2>2. n * p \in Int /\ n * q \in Int
        BY <1>1
  <2> QED BY <1>1, <2>1, <2>2
<1>3. p - q \in Int /\ ~(p - q < 0) /\ ~(p - q > 1)
  <2>1. ASSUME p - q < 0 PROVE FALSE
    <3>1. n * (p - q) <= n * (-1)
          BY <1>1, <2>1
    <3> QED BY <1>1, <1>2, <3>1
  <2>2. ASSUME p - q > 1 PROVE FALSE
    <3>1. n * (p - q) >= n * 2
          BY <1>1, <2>2
    <3> QED BY <1>1, <1>2, <3>1
  <2> QED BY <1>1, <2>1, <2>2
<1>4. p - q = 0 \/ p - q = 1
      BY <1>3
<1>5. m + 1 - k = 0 \/ m + 1 - k = n
  <2>1. n * 0 = 0 /\ n * 1 = n
        BY <1>1
  <2> QED BY <1>2, <1>4, <2>1
<1>6. k = IF m + 1 = n THEN 0 ELSE m + 1
      BY <1>1, <1>5
<1> QED BY <1>1, <1>6 DEF m, k

\* Two products with a common factor compare as the others do.
LEMMA Scaled ==
    ASSUME NEW x \in Int, NEW y \in Int, NEW k \in Nat, x <= y
    PROVE  x * k <= y * k
OBVIOUS

\* A wallet given out was the least used, so all the traders together cannot take it further
\* ahead than they could record at once; a turn taken is counted for the wallet it fell on.
LEMMA GetKeeps == ASSUME WalletInv, NEW t \in Traders, GetWallet(t) PROVE WalletInv'
<1> DEFINE s == Selected
<1>1. WalletTypeOK
      BY DEF WalletInv
<1>2. /\ using[t] = {} /\ using' = [using EXCEPT ![t] = {s}]
      /\ picks' = [picks EXCEPT ![s] = @ + 1] /\ rrIndex' = rrIndex + 1
      /\ UNCHANGED <<strategy, utilization>>
      BY DEF GetWallet
<1>3. /\ s \in Wallet
      /\ strategy = "min_utilization" => \A b \in Wallet : utilization[s] <= utilization[b]
      /\ strategy = "weighted" =>
           \A b \in Wallet : utilization[s] * Allocation[b] <= utilization[b] * Allocation[s]
      /\ strategy = "round_robin" =>
           /\ (rrIndex % Len(Addresses)) + 1 \in DOMAIN Addresses
           /\ s = Addresses[(rrIndex % Len(Addresses)) + 1]
      BY <1>1, SelectedIs
<1> HIDE DEF s
<1>4. WalletTypeOK'
      BY <1>1, <1>2, <1>3 DEF WalletTypeOK
<1>5. /\ \A b \in Wallet : OnTheWay(b)' \in Nat /\ OnTheWay(b)' <= Cardinality(Traders)
      /\ \A b \in Wallet : b # s => OnTheWay(b)' = OnTheWay(b)
  <2>1. \A b : {u \in Traders : b \in using'[u]} \in SUBSET Traders
        OBVIOUS
  <2>2. \A b : OnTheWay(b)' \in Nat /\ OnTheWay(b)' <= Cardinality(Traders)
        BY <2>1, WalletFacts, FS_Subset, FS_CardinalityType DEF OnTheWay
  <2> QED BY <1>1, <1>2, <1>3, <2>2, FlightsMove
<1>6. \A b \in Wallet : /\ MaxAmount * OnTheWay(b)' \in Nat
                        /\ MaxAmount * OnTheWay(b)' <= Outstanding
  <2> SUFFICES ASSUME NEW b \in Wallet
               PROVE  MaxAmount * OnTheWay(b)' \in Nat /\ MaxAmount * OnTheWay(b)' <= Outstanding
      OBVIOUS
  <2> DEFINE f == OnTheWay(b)'
             c == Cardinality(Traders)
  <2>1. f \in Nat /\ c \in Nat /\ f <= c /\ MaxAmount \in Nat
        BY <1>5, WalletFacts
  <2> HIDE DEF f, c
  <2>2. f * MaxAmount <= c * MaxAmount /\ MaxAmount * f = f * MaxAmount /\ MaxAmount * f \in Nat
        BY <2>1
  <2> QED BY <2>2 DEF Outstanding, f, c
<1>7. /\ utilization \in [Wallet -> Nat] /\ Outstanding \in Nat
      /\ \A b \in Wallet : Allocation[b] \in Nat
      BY <1>1, WalletFacts DEF WalletTypeOK
<1>8. ASSUME strategy = "min_utilization", NEW a \in Wallet, NEW b \in Wallet
      PROVE  utilization[a] + MaxAmount * OnTheWay(a)' <= utilization[b] + Outstanding
  <2>1. CASE a = s
    <3>1. utilization[a] <= utilization[b]
          BY <1>3, <1>8, <2>1
    <3> QED BY <1>6, <1>7, <3>1
  <2>2. CASE a # s
        BY <1>5, <1>8, <2>2 DEF WalletInv
  <2> QED BY <2>1, <2>2
<1>9. ASSUME strategy = "weighted", NEW a \in Wallet, NEW b \in Wallet
      PROVE  utilization[a] * Allocation[b] + (MaxAmount * OnTheWay(a)') * Allocation[b]
                <= utilization[b] * Allocation[a] + Outstanding * Allocation[b]
  <2>1. CASE a = s
    <3>1. utilization[a] * Allocation[b] <= utilization[b] * Allocation[a]
          BY <1>3, <1>9, <2>1
    <3>2. (MaxAmount * OnTheWay(a)') * Allocation[b] <= Outstanding * Allocation[b]
      <4>1. MaxAmount * OnTheWay(a)' \in Int /\ Outstanding \in Int /\ Allocation[b] \in Nat
            BY <1>6, <1>7
      <4> QED BY <1>6, <4>1, Scaled
    <3>3. /\ utilization[a] * Allocation[b] \in Int /\ utilization[b] * Allocation[a] \in Int
          /\ (MaxAmount * OnTheWay(a)') * Allocation[b] \in Int /\ Outstanding * Allocation[b] \in Int
          BY <1>6, <1>7
    <3> QED BY <3>1, <3>2, <3>3
  <2>2. CASE a # s
    <3>1. OnTheWay(a)' = OnTheWay(a)
          BY <1>5, <2>2
    <3>2. utilization[a] * Allocation[b] + (MaxAmount * OnTheWay(a)) * Allocation[b]
            <= utilization[b] * Allocation[a] + Outstanding * Allocation[b]
          BY <1>9 DEF WalletInv
    <3> QED BY <3>1, <3>2
  <2> QED BY <2>1, <2>2
<1>10. ASSUME strategy = "round_robin"
       PROVE  \E m \in Nat : \A i \in DOMAIN Addresses :
                picks'[Addresses[i]] = IF i <= rrIndex' % Len(Addresses) THEN m + 1 ELSE m
  <2> DEFINE n == Len(Addresses)
             r == rrIndex % n
  <2>1. n \in Nat \ {0} /\ DOMAIN Addresses = 1..n /\ rrIndex \in Nat
        BY <1>1, WalletFacts DEF WalletTypeOK
  <2>2. r \in 0..(n - 1) /\ (rrIndex + 1) % n = IF r + 1 = n THEN 0 ELSE r + 1
        BY <2>1, TurnPasses
  <2>3. PICK m \in Nat : \A i \in DOMAIN Addresses :
            picks[Addresses[i]] = IF i <= r THEN m + 1 ELSE m
        BY <1>10 DEF WalletInv
  <2>4. r + 1 \in DOMAIN Addresses /\ s = Addresses[r + 1]
        BY <1>3, <1>10
  <2>5. \A i \in DOMAIN Addresses :
          picks'[Addresses[i]] = IF i = r + 1 THEN picks[Addresses[i]] + 1 ELSE picks[Addresses[i]]
    <3>1. \A i \in DOMAIN Addresses : Addresses[i] \in Wallet /\ (Addresses[i] = s <=> i = r + 1)
          BY <2>4, WalletAssumption, WalletFacts
    <3>2. picks \in [Wallet -> Nat]
          BY <1>1 DEF WalletTypeOK
    <3> HIDE DEF r, n
    <3> QED BY <1>2, <3>1, <3>2
  <2> HIDE DEF r, n
  <2>6. rrIndex' % n = IF r + 1 = n THEN 0 ELSE r + 1
        BY <1>2, <2>2
  <2>7. CASE r + 1 = n
    <3>1. \A i \in DOMAIN Addresses : picks'[Addresses[i]] = m + 1 /\ ~(i <= 0)
          BY <2>1, <2>2, <2>3, <2>5, <2>7
    <3>2. \A i \in DOMAIN Addresses :
            picks'[Addresses[i]] = IF i <= rrIndex' % n THEN (m + 1) + 1 ELSE m + 1
          BY <2>6, <2>7, <3>1
    <3> DEFINE u == m + 1
    <3>3. u \in Nat /\ \A i \in DOMAIN Addresses :
                        picks'[Addresses[i]] = IF i <= rrIndex' % Len(Addresses) THEN u + 1 ELSE u
          BY <3>2 DEF n
    <3> HIDE DEF u
    <3> QED BY <3>3
  <2>8. CASE r + 1 # n
    <3>1. \A i \in DOMAIN Addresses :
            picks'[Addresses[i]] = IF i <= rrIndex' % n THEN m + 1 ELSE m
          BY <2>1, <2>2, <2>3, <2>5, <2>6, <2>8
    <3> QED BY <3>1 DEF n
  <2> QED BY <2>7, <2>8
<1> QED BY <1>2, <1>4, <1>8, <1>9, <1>10 DEF WalletInv

\* What a trader records, it had been counted for since it was given the wallet.
LEMMA RecordKeeps ==
    ASSUME WalletInv, NEW t \in Traders, NEW amount \in 1..MaxAmount, RecordUtilization(t, amount)
    PROVE  WalletInv'
<1>1. WalletTypeOK
      BY DEF WalletInv
<1>2. PICK w \in using[t] : utilization' = [utilization EXCEPT ![w] = @ + amount]
      BY DEF RecordUtilization
<1>3. using' = [using EXCEPT ![t] = {}] /\ UNCHANGED <<strategy, rrIndex, picks>>
      BY DEF RecordUtilization
<1>4. w \in Wallet /\ \A b \in Wallet : OnTheWay(b)' = IF b = w THEN OnTheWay(b) - 1 ELSE OnTheWay(b)
      BY <1>1, <1>2, <1>3, FlightsAre, FlightsMove
<1>5. /\ utilization \in [Wallet -> Nat] /\ MaxAmount \in Nat \ {0} /\ Outstanding \in Nat
      /\ amount \in Nat /\ amount <= MaxAmount
      /\ \A b \in Wallet : OnTheWay(b) \in Nat /\ Allocation[b] \in Nat
  <2>1. utilization \in [Wallet -> Nat]
        BY <1>1 DEF WalletTypeOK
  <2>2. MaxAmount \in Nat \ {0} /\ Outstanding \in Nat /\ \A b \in Wallet : Allocation[b] \in Nat
        BY WalletFacts
  <2>3. amount \in Nat /\ amount <= MaxAmount
        BY <2>2
  <2>4. \A b \in Wallet : OnTheWay(b) \in Nat
        BY <1>1, FlightsAre
  <2> QED BY <2>1, <2>2, <2>3, <2>4
<1>6. /\ utilization' \in [Wallet -> Nat] /\ utilization'[w] = utilization[w] + amount
      /\ \A b \in Wallet : b # w => utilization'[b] = utilization[b]
      BY <1>2, <1>4, <1>5
<1>7. WalletTypeOK'
      BY <1>1, <1>3, <1>6 DEF WalletTypeOK
<1>8. \A a \in Wallet :
        /\ utilization'[a] \in Nat /\ utilization'[a] >= utilization[a]
        /\ MaxAmount * OnTheWay(a) \in Int /\ MaxAmount * OnTheWay(a)' \in Int
        /\ utilization'[a] + MaxAmount * OnTheWay(a)' <= utilization[a] + MaxAmount * OnTheWay(a)
  <2> SUFFICES ASSUME NEW a \in Wallet
               PROVE  /\ utilization'[a] \in Nat /\ utilization'[a] >= utilization[a]
                      /\ MaxAmount * OnTheWay(a) \in Int /\ MaxAmount * OnTheWay(a)' \in Int
                      /\ utilization'[a] + MaxAmount * OnTheWay(a)'
                            <= utilization[a] + MaxAmount * OnTheWay(a)
      OBVIOUS
  <2>1. CASE a = w
    <3>1. MaxAmount * (OnTheWay(w) - 1) = MaxAmount * OnTheWay(w) - MaxAmount /\ MaxAmount * OnTheWay(w) \in Int
          BY <1>4, <1>5
    <3> QED BY <1>4, <1>5, <1>6, <2>1, <3>1
  <2>2. CASE a # w
        BY <1>4, <1>5, <1>6, <2>2
  <2> QED BY <2>1, <2>2
<1>9. ASSUME strategy = "min_utilization", NEW a \in Wallet, NEW b \in Wallet
      PROVE  utilization'[a] + MaxAmount * OnTheWay(a)' <= utilization'[b] + Outstanding
  <2>1. utilization[a] + MaxAmount * OnTheWay(a) <= utilization[b] + Outstanding
        BY <1>9 DEF WalletInv
  <2>2. utilization[a] \in Nat /\ utilization[b] \in Nat
        BY <1>5
  <2> QED BY <1>5, <1>8, <2>1, <2>2
<1>10. ASSUME strategy = "weighted", NEW a \in Wallet, NEW b \in Wallet
       PROVE  utilization'[a] * Allocation[b] + (MaxAmount * OnTheWay(a)') * Allocation[b]
                 <= utilization'[b] * Allocation[a] + Outstanding * Allocation[b]
  <2> DEFINE u == utilization[a]
             v == utilization'[a]
             x == MaxAmount * OnTheWay(a)
             y == MaxAmount * OnTheWay(a)'
             k == Allocation[b]
             l == Allocation[a]
             p == utilization[b]
             q == utilization'[b]
  <2>1. u * k + x * k <= p * l + Outstanding * k
        BY <1>10 DEF WalletInv
  <2>2. /\ u \in Nat /\ v \in Nat /\ x \in Int /\ y \in Int /\ k \in Nat /\ l \in Nat
        /\ p \in Nat /\ q \in Nat /\ v + y <= u + x /\ p <= q /\ Outstanding \in Nat
        BY <1>5, <1>8
  <2> HIDE DEF u, v, x, y, k, l, p, q
  <2>3. (v + y) * k <= (u + x) * k /\ p * l <= q * l
    <3>1. v + y \in Int /\ u + x \in Int /\ p \in Int /\ q \in Int
          BY <2>2
    <3>2. (v + y) * k <= (u + x) * k
          BY <2>2, <3>1, Scaled
    <3>3. p * l <= q * l
          BY <2>2, <3>1, Scaled
    <3> QED BY <3>2, <3>3
  <2>4. (v + y) * k = v * k + y * k /\ (u + x) * k = u * k + x * k
        BY <2>2
  <2>5. /\ v * k \in Int /\ y * k \in Int /\ u * k \in Int /\ x * k \in Int
        /\ p * l \in Int /\ q * l \in Int /\ Outstanding * k \in Int
        BY <2>2
  <2>6. v * k + y * k <= q * l + Outstanding * k
        BY <2>1, <2>3, <2>4, <2>5
  <2> QED BY <2>6 DEF v, y, k, l, q
<1> QED BY <1>3, <1>7, <1>9, <1>10 DEF WalletInv

\* With every wallet back at zero only the traders in flight remain (reset_utilization).
LEMMA ResetKeeps == ASSUME WalletInv, ResetUtilization PROVE WalletInv'
<1>1. WalletTypeOK
      BY DEF WalletInv
<1>2. utilization' = Zeroed /\ UNCHANGED <<strategy, rrIndex, using, picks>>
      BY DEF ResetUtilization
<1>3. \A w \in Wallet : utilization'[w] = 0
      BY <1>2 DEF Zeroed
<1>4. WalletTypeOK'
      BY <1>1, <1>2 DEF WalletTypeOK, Zeroed
<1>5. \A w \in Wallet : OnTheWay(w)' = OnTheWay(w)
      BY <1>2 DEF OnTheWay
<1>6. \A w \in Wallet : MaxAmount * OnTheWay(w) \in Nat /\ MaxAmount * OnTheWay(w) <= Outstanding
  <2> SUFFICES ASSUME NEW b \in Wallet
               PROVE  MaxAmount * OnTheWay(b) \in Nat /\ MaxAmount * OnTheWay(b) <= Outstanding
      OBVIOUS
  <2> DEFINE f == OnTheWay(b)
             c == Cardinality(Traders)
  <2>1. f \in Nat /\ c \in Nat /\ f <= c /\ MaxAmount \in Nat
        BY <1>1, FlightsAre, WalletFacts
  <2> HIDE DEF f, c
  <2>2. f * MaxAmount <= c * MaxAmount /\ MaxAmount * f = f * MaxAmount /\ MaxAmount * f \in Nat
        BY <2>1
  <2> QED BY <2>2 DEF Outstanding, f, c
<1>7. \A a, b \in Wallet : utilization'[a] + MaxAmount * OnTheWay(a)' <= utilization'[b] + Outstanding
      BY <1>3, <1>5, <1>6, WalletFacts
<1>8. ASSUME NEW a \in Wallet, NEW b \in Wallet
      PROVE  utilization'[a] * Allocation[b] + (MaxAmount * OnTheWay(a)') * Allocation[b]
                <= utilization'[b] * Allocation[a] + Outstanding * Allocation[b]
  <2> DEFINE x == MaxAmount * OnTheWay(a)
             k == Allocation[b]
             l == Allocation[a]
  <2>1. x \in Nat /\ x <= Outstanding /\ Outstanding \in Nat /\ k \in Nat /\ l \in Nat
        BY <1>6, WalletFacts
  <2>2. utilization'[a] = 0 /\ utilization'[b] = 0 /\ MaxAmount * OnTheWay(a)' = x
        BY <1>3, <1>5
  <2> HIDE DEF x, k, l
  <2>3. x * k <= Outstanding * k
        BY <2>1, Scaled
  <2>4. 0 * k + x * k <= 0 * l + Outstanding * k
        BY <2>1, <2>3
  <2> QED BY <2>2, <2>4 DEF k, l
<1> QED BY <1>2, <1>4, <1>7, <1>8 DEF WalletInv

\* Picks, trades and the daily reset keep the load on the wallets in balance.
LEMMA WalletStep == WalletInv /\ [WalletNext]_walletVars => WalletInv'
<1> SUFFICES ASSUME WalletInv, [WalletNext]_walletVars PROVE WalletInv'
    OBVIOUS
<1>1. CASE UNCHANGED walletVars
      BY <1>1 DEF walletVars, WalletInv, WalletTypeOK, OnTheWay
<1> QED BY <1>1, GetKeeps, RecordKeeps, ResetKeeps DEF WalletNext

\* Although utilization lags behind the trades in flight, no wallet gets further ahead of
\* another than those trades (get_wallet, record_utilization, reset_utilization).
THEOREM LoadBalanced == WalletSpec => []LoadStaysBalanced
<1>1. WalletInv /\ [WalletNext]_walletVars => WalletInv'
      BY WalletStep
<1>2. WalletInv => LoadStaysBalanced
  <2> SUFFICES ASSUME WalletInv, NEW a \in Wallet, NEW b \in Wallet
               PROVE  /\ strategy = "min_utilization" => utilization[a] <= utilization[b] + Outstanding
                      /\ strategy = "weighted" =>
                           utilization[a] * Allocation[b]
                              <= utilization[b] * Allocation[a] + Outstanding * Allocation[b]
                      /\ strategy = "round_robin" => picks[a] <= picks[b] + 1
      BY DEF LoadStaysBalanced
  <2>1. /\ utilization \in [Wallet -> Nat] /\ MaxAmount \in Nat /\ Outstanding \in Nat
        /\ OnTheWay(a) \in Nat /\ Allocation[a] \in Nat /\ Allocation[b] \in Nat
        BY WalletFacts, FlightsAre DEF WalletInv, WalletTypeOK
  <2>2. MaxAmount * OnTheWay(a) \in Nat /\ (MaxAmount * OnTheWay(a)) * Allocation[b] \in Nat
    <3>1. MaxAmount * OnTheWay(a) \in Nat
          BY <2>1
    <3> QED BY <2>1, <3>1
  <2>3. ASSUME strategy = "min_utilization" PROVE utilization[a] <= utilization[b] + Outstanding
    <3>1. utilization[a] + MaxAmount * OnTheWay(a) <= utilization[b] + Outstanding
          BY <2>3 DEF WalletInv
    <3> QED BY <2>1, <2>2, <3>1
  <2>4. ASSUME strategy = "weighted"
        PROVE  utilization[a] * Allocation[b] <= utilization[b] * Allocation[a] + Outstanding * Allocation[b]
    <3>1. utilization[a] * Allocation[b] + (MaxAmount * OnTheWay(a)) * Allocation[b]
            <= utilization[b] * Allocation[a] + Outstanding * Allocation[b]
          BY <2>4 DEF WalletInv
    <3>2. /\ utilization[a] * Allocation[b] \in Int /\ utilization[b] * Allocation[a] \in Int
          /\ Outstanding * Allocation[b] \in Int
          BY <2>1
    <3> QED BY <2>2, <3>1, <3>2
  <2>5. ASSUME strategy = "round_robin" PROVE picks[a] <= picks[b] + 1
    <3>1. PICK n \in Nat : \A i \in DOMAIN Addresses :
            picks[Addresses[i]] \in {n, n + 1}
          BY <2>5 DEF WalletInv
    <3>2. picks[a] \in {n, n + 1} /\ picks[b] \in {n, n + 1}
          BY <3>1, WalletFacts
    <3> QED BY <3>2
  <2> QED BY <2>3, <2>4, <2>5
<1> QED BY <1>1, <1>2, WalletInitially, PTL DEF WalletSpec
-----------------------------------------------------------------------------
(* PaperEngine: what a walk of the book takes and what it costs.           *)

PaperInv == PaperTypeOK /\ PaperFillsAreSound

\* Prices are finitely many, and totals over them are those of the lemmas on sums.
LEMMA WalkTotals ==
    ASSUME NEW w \in [PaperPrices -> Int]
    PROVE  /\ IsFiniteSet(PaperPrices) /\ Summed(w, {}) = 0
           /\ \A S \in SUBSET PaperPrices :
                Summed(w, S) \in Int /\ \A p \in S : Summed(w, S) = w[p] + Summed(w, S \ {p})
<1>1. IsFiniteSet(PaperPrices)
  <2>1. 1 \in Int /\ 99 \in Int
        OBVIOUS
  <2>2. IsFiniteSet(1..99)
        BY <2>1, FS_Interval
  <2> QED BY <2>2, PaperAssumption, FS_Subset
<1>2. \A S : Summed(w, S) = Tally(w, S)
      BY DEF Summed, Tally
<1> QED BY <1>1, <1>2, Tallies

\* min and max of two amounts, as _try_fill takes them.
LEMMA MinMaxOfTwo ==
    ASSUME NEW a \in Int, NEW b \in Int
    PROVE  Min({a, b}) = (IF a <= b THEN a ELSE b) /\ Max({a, b}) = (IF a <= b THEN b ELSE a)
<1>1. \E x \in {a, b} : \A y \in {a, b} : x =< y
      OBVIOUS
<1>2. \E x \in {a, b} : \A y \in {a, b} : x >= y
      OBVIOUS
<1>3. Min({a, b}) \in {a, b} /\ \A y \in {a, b} : Min({a, b}) =< y
      BY <1>1 DEF Min
<1>4. Max({a, b}) \in {a, b} /\ \A y \in {a, b} : Max({a, b}) >= y
      BY <1>2 DEF Max
<1> QED BY <1>3, <1>4

\* A level gives what is left of the order when the walk reaches it, and no more than it has.
LEMMA TakenIs ==
    ASSUME NEW o \in PaperOrders, NEW side \in [PaperPrices -> Nat], NEW p \in PaperPrices
    PROVE  LET before == Summed(side, Before(o, side, p))
               left   == Wanted(o) - before
           IN  /\ before \in Int
               /\ Taken(o, side, p) = IF left <= 0 THEN 0 ELSE IF left <= side[p] THEN left ELSE side[p]
               /\ Taken(o, side, p) \in Nat
<1> DEFINE before == Summed(side, Before(o, side, p))
           left   == Wanted(o) - before
           least  == IF left <= side[p] THEN left ELSE side[p]
<1>1. side \in [PaperPrices -> Int] /\ side[p] \in Nat
      OBVIOUS
<1>2. Before(o, side, p) \in SUBSET PaperPrices
      BY DEF Before, InReach
<1>3. before \in Int
      BY <1>1, <1>2, WalkTotals
<1>4. Wanted(o) \in Int
  <2>1. o.size \in Nat /\ o.filled \in Nat
        BY PaperAssumption DEF PaperOrders
  <2> QED BY <2>1 DEF Wanted
<1> HIDE DEF before
<1>5. left \in Int
      BY <1>3, <1>4
<1>6. Min({left, side[p]}) = least
      BY <1>1, <1>5, MinMaxOfTwo
<1>7. Taken(o, side, p) = Max({0, least})
      BY <1>6 DEF Taken, before
<1> HIDE DEF left
<1>8. least \in Int /\ 0 \in Int
      BY <1>1, <1>5
<1>9. Max({0, least}) = IF 0 <= least THEN least ELSE 0
      BY <1>8, MinMaxOfTwo
<1>10. /\ Taken(o, side, p) = IF left <= 0 THEN 0 ELSE IF left <= side[p] THEN left ELSE side[p]
       /\ Taken(o, side, p) \in Nat
      BY <1>1, <1>5, <1>7, <1>9
<1> QED BY <1>3, <1>10 DEF left, before

\* The walk takes all it wants, or all there is in reach: level by level from the best price.
LEMMA WalkSizeIs ==
    ASSUME NEW o \in PaperOrders, o.filled <= o.size, NEW side \in [PaperPrices -> Nat]
    PROVE  WalkSize(o, side) \in 0..Wanted(o)
<1> DEFINE R == InReach(o, side)
           W == Wanted(o)
           take == [p \in PaperPrices |-> Taken(o, side, p)]
           rank(p) == IF o.side = "BUY" THEN p ELSE 100 - p
           D(n) == {p \in R : rank(p) < n}
           there(n) == Summed(side, D(n))
           took(n) == Summed(take, D(n))
           C == {n \in Nat : took(n) = (IF W <= there(n) THEN W ELSE there(n)) /\ there(n) >= 0}
<1>1. /\ R \in SUBSET PaperPrices /\ \A n : D(n) \in SUBSET PaperPrices
      /\ PaperPrices \in SUBSET (1..99)
      BY PaperAssumption DEF InReach
<1>2. W \in Nat /\ o.side \in {"BUY", "SELL"}
  <2>1. o.size \in Nat /\ o.filled \in Nat /\ o.side \in {"BUY", "SELL"}
        BY PaperAssumption DEF PaperOrders
  <2> QED BY <2>1 DEF Wanted
<1>3. side \in [PaperPrices -> Int] /\ take \in [PaperPrices -> Int]
      BY TakenIs
<1>3a. \A p \in R : p \in 1..99
  <2> HIDE DEF R
  <2>1. R \in SUBSET PaperPrices /\ PaperPrices \in SUBSET (1..99)
        BY <1>1
  <2> QED BY <2>1
<1>4. \A p \in R : rank(p) \in 1..99
  <2> SUFFICES ASSUME NEW p \in R PROVE rank(p) \in 1..99
      OBVIOUS
  <2>1. p \in 1..99
        BY <1>3a
  <2>2. 100 - p \in 1..99
        BY <2>1
  <2> QED BY <2>1, <2>2
<1>5. \A p, q \in R : rank(p) = rank(q) => p = q
  <2> SUFFICES ASSUME NEW p \in R, NEW q \in R, rank(p) = rank(q) PROVE p = q
      OBVIOUS
  <2>1. p \in Int /\ q \in Int
        BY <1>3a
  <2>2. 100 - p = 100 - q => p = q
        BY <2>1
  <2> QED BY <2>2
<1>6. \A p \in R : Before(o, side, p) = D(rank(p))
  <2> SUFFICES ASSUME NEW p \in R PROVE Before(o, side, p) = D(rank(p))
      OBVIOUS
  <2>1. Before(o, side, p) = {q \in R : IF o.side = "BUY" THEN q < p ELSE q > p}
        BY DEF Before
  <2>2. \A q \in R : (IF o.side = "BUY" THEN q < p ELSE q > p) <=> rank(q) < rank(p)
    <3>1. \A q \in R : q \in 1..99
          BY <1>1
    <3> HIDE DEF R
    <3> QED BY <3>1
  <2> HIDE DEF R
  <2> QED BY <2>1, <2>2
<1> HIDE DEF take
<1>7. \A n : there(n) \in Int /\ took(n) \in Int
      BY <1>1, <1>3, WalkTotals
<1>8. ASSUME NEW p \in R
      PROVE  LET left == W - there(rank(p)) IN
             take[p] = IF left <= 0 THEN 0 ELSE IF left <= side[p] THEN left ELSE side[p]
  <2>1. p \in PaperPrices
        BY <1>1
  <2>2. Before(o, side, p) = D(rank(p))
        BY <1>6
  <2> DEFINE left == W - Summed(side, Before(o, side, p))
  <2>3. Taken(o, side, p) = IF left <= 0 THEN 0 ELSE IF left <= side[p] THEN left ELSE side[p]
        BY <2>1, TakenIs
  <2>4. take[p] = Taken(o, side, p)
        BY <2>1 DEF take
  <2>5. left = W - there(rank(p))
        BY <2>2
  <2> HIDE DEF left, there
  <2> QED BY <2>3, <2>4, <2>5
<1> HIDE DEF R, W
<1>9. 0 \in C
  <2>1. D(0) = {}
        BY <1>4
  <2>2. there(0) = 0 /\ took(0) = 0
        BY <1>3, <2>1, WalkTotals
  <2> HIDE DEF there, took
  <2> QED BY <1>2, <2>2
<1>10. ASSUME NEW n \in Nat, n \in C PROVE n + 1 \in C
  <2>1. took(n) = (IF W <= there(n) THEN W ELSE there(n)) /\ there(n) >= 0
        BY <1>10
  <2>2. CASE \E p \in R : rank(p) = n
    <3>1. PICK p \in R : rank(p) = n
          BY <2>2
    <3>2. D(n + 1) \ {p} = D(n) /\ p \in D(n + 1)
      <4>1. \A q \in R : rank(q) \in Int /\ (rank(q) < n + 1 <=> rank(q) < n \/ rank(q) = n)
            BY <1>4
      <4>2. \A q \in R : rank(q) = n <=> q = p
            BY <1>5, <3>1
      <4> HIDE DEF rank
      <4> QED BY <3>1, <4>1, <4>2
    <3>3. there(n + 1) = side[p] + there(n) /\ took(n + 1) = take[p] + took(n)
          BY <1>1, <1>3, <3>2, WalkTotals
    <3>4. LET left == W - there(n) IN
          take[p] = IF left <= 0 THEN 0 ELSE IF left <= side[p] THEN left ELSE side[p]
          BY <1>8, <3>1
    <3>5. side[p] \in Nat /\ there(n) \in Int /\ there(n + 1) \in Int /\ took(n + 1) \in Int
          BY <1>1, <1>7
    <3> HIDE DEF there, took
    <3>6. /\ took(n + 1) = (IF W <= there(n + 1) THEN W ELSE there(n + 1))
          /\ there(n + 1) >= 0
          BY <1>2, <2>1, <3>3, <3>4, <3>5
    <3> QED BY <3>6
  <2>3. CASE ~ \E p \in R : rank(p) = n
    <3>1. D(n + 1) = D(n)
      <4>1. \A q \in R : rank(q) \in Int /\ rank(q) # n
            BY <1>4, <2>3
      <4>2. \A q \in R : rank(q) < n + 1 <=> rank(q) < n
            BY <4>1
      <4> HIDE DEF rank
      <4> QED BY <4>2
    <3>2. there(n + 1) = there(n) /\ took(n + 1) = took(n)
          BY <3>1
    <3> HIDE DEF there, took
    <3> QED BY <2>1, <3>2
  <2> QED BY <2>2, <2>3
<1>11. \A n \in Nat : n \in C
  <2> HIDE DEF C
  <2> QED BY <1>9, <1>10, CountingUp
<1>12. D(100) = R
  <2>1. \A p \in R : rank(p) < 100
        BY <1>4
  <2> HIDE DEF rank
  <2> QED BY <2>1
<1>13. WalkSize(o, side) = took(100)
      BY <1>12 DEF WalkSize, take, R
<1>14. took(100) = (IF W <= there(100) THEN W ELSE there(100)) /\ there(100) >= 0
      BY <1>11
<1> HIDE DEF took, there
<1>15. took(100) \in 0..W
      BY <1>2, <1>7, <1>14
<1> QED BY <1>13, <1>15 DEF W

\* No level of the walk is beyond the limit, so neither is what the walk costs (_try_fill).
LEMMA WalkCostIs ==
    ASSUME NEW o \in PaperOrders, NEW side \in [PaperPrices -> Nat]
    PROVE  /\ WalkCost(o, side) \in Nat
           /\ IF o.side = "BUY" THEN WalkCost(o, side) <= WalkSize(o, side) * o.price
                                    ELSE WalkCost(o, side) >= WalkSize(o, side) * o.price
<1> DEFINE R == InReach(o, side)
           take == [p \in PaperPrices |-> Taken(o, side, p)]
           cost == [p \in PaperPrices |-> p * Taken(o, side, p)]
           limit == o.price
           T == {s \in SUBSET R :
                   /\ Summed(cost, s) >= 0
                   /\ IF o.side = "BUY" THEN Summed(cost, s) <= Summed(take, s) * limit
                                            ELSE Summed(cost, s) >= Summed(take, s) * limit}
<1>1. R \in SUBSET PaperPrices /\ PaperPrices \in SUBSET (1..99) /\ limit \in 1..99
      BY PaperAssumption DEF InReach, PaperOrders
<1>2. \A p \in R : IF o.side = "BUY" THEN p <= limit ELSE p >= limit
      BY DEF InReach
<1>3. \A p \in PaperPrices : take[p] \in Nat /\ p \in Nat /\ cost[p] = p * take[p] /\ cost[p] \in Nat
  <2> SUFFICES ASSUME NEW p \in PaperPrices
               PROVE  take[p] \in Nat /\ p \in Nat /\ cost[p] = p * take[p] /\ cost[p] \in Nat
      OBVIOUS
  <2>1. Taken(o, side, p) \in Nat /\ p \in Nat
        BY <1>1, TakenIs
  <2>2. p * Taken(o, side, p) \in Nat
        BY <2>1
  <2> QED BY <2>1, <2>2
<1>4. take \in [PaperPrices -> Int] /\ cost \in [PaperPrices -> Int]
  <2>1. \A p \in PaperPrices : take[p] \in Int /\ cost[p] \in Int
        BY <1>3
  <2> QED BY <2>1
<1>5. WalkSize(o, side) = Summed(take, R) /\ WalkCost(o, side) = Summed(cost, R)
      BY DEF WalkSize, WalkCost
<1> HIDE DEF R, take, cost, limit
<1>6. ASSUME NEW s \in SUBSET R, \A p \in s : s \ {p} \in T PROVE s \in T
  <2>1. CASE s = {}
    <3>1. Summed(cost, s) = 0 /\ Summed(take, s) = 0
          BY <1>4, <2>1, WalkTotals
    <3>2. 0 * limit = 0
          BY <1>1
    <3> QED BY <3>1, <3>2
  <2>2. CASE s # {}
    <3>1. PICK p \in s : TRUE
          BY <2>2
    <3> DEFINE r == s \ {p}
               c == Summed(cost, r)
               t == Summed(take, r)
    <3>2. s \in SUBSET PaperPrices /\ r \in SUBSET PaperPrices /\ p \in PaperPrices /\ p \in R
          BY <1>1, <3>1
    <3>3. Summed(cost, s) = cost[p] + c /\ c \in Int /\ Summed(take, s) = take[p] + t /\ t \in Int
          BY <1>4, <3>1, <3>2, WalkTotals
    <3>4. c >= 0 /\ IF o.side = "BUY" THEN c <= t * limit ELSE c >= t * limit
          BY <1>6, <3>1
    <3> HIDE DEF r, c, t
    <3>5. /\ take[p] \in Nat /\ p \in Nat /\ cost[p] = p * take[p] /\ cost[p] \in Nat /\ limit \in Nat
          /\ (take[p] + t) * limit = take[p] * limit + t * limit
          /\ take[p] * limit \in Int /\ t * limit \in Int
          BY <1>1, <1>3, <3>2, <3>3
    <3>6. IF o.side = "BUY" THEN p * take[p] <= take[p] * limit ELSE p * take[p] >= take[p] * limit
      <4>1. CASE o.side = "BUY"
        <5>1. p <= limit
              BY <1>2, <3>2, <4>1
        <5>2. p * take[p] <= limit * take[p] /\ limit * take[p] = take[p] * limit
              BY <3>5, <5>1, Scaled
        <5> QED BY <4>1, <5>2
      <4>2. CASE o.side # "BUY"
        <5>1. limit <= p
              BY <1>2, <3>2, <3>5, <4>2
        <5>2. limit * take[p] <= p * take[p] /\ limit * take[p] = take[p] * limit
              BY <3>5, <5>1, Scaled
        <5>3. p * take[p] >= take[p] * limit
              BY <3>5, <5>2
        <5> QED BY <4>2, <5>3
      <4> QED BY <4>1, <4>2
    <3>7. /\ Summed(cost, s) >= 0
          /\ IF o.side = "BUY" THEN Summed(cost, s) <= Summed(take, s) * limit
                                   ELSE Summed(cost, s) >= Summed(take, s) * limit
          BY <3>3, <3>4, <3>5, <3>6
    <3> QED BY <3>7
  <2> QED BY <2>1, <2>2
<1>7. R \in T
  <2>1. IsFiniteSet(R)
        BY <1>1, <1>4, WalkTotals, FS_Subset
  <2> HIDE DEF T
  <2>2. \A s \in SUBSET R : (\A p \in s : s \ {p} \in T) => s \in T
        BY <1>6
  <2>3. \A s \in SUBSET R : s \in T
        BY <2>1, <2>2, SetBySet
  <2> QED BY <2>3
<1>8. Summed(cost, R) \in Int
      BY <1>1, <1>4, WalkTotals
<1> QED BY <1>5, <1>7, <1>8 DEF limit

\* An open order stays sound when a walk of a snapshot, cut or not, is added to it; the cost of
\* the whole walk then stays on an order that was cut (_try_fill, simulate_fills).
LEMMA FillKeeps ==
    ASSUME PaperInv, paper \in PaperOrders, paper.status = "open", shown' \in 0..MaxSnapshots,
           NEW side \in [PaperPrices -> Nat], paper' \in Filled(paper, side)
    PROVE  PaperInv'
<1> DEFINE size == WalkSize(paper, side)
           cost == WalkCost(paper, side)
           Fill(n, cut) == [paper EXCEPT !.filled = @ + n, !.cost = @ + cost, !.cut = @ \/ cut,
                                !.status = IF paper.filled + n >= paper.size THEN "filled" ELSE @]
<1>1. /\ paper.filled \in Nat /\ paper.size \in Nat /\ paper.cost \in Nat /\ paper.cut \in BOOLEAN
      /\ paper.price \in Nat /\ paper.filled < paper.size
      /\ ~paper.cut => IF paper.side = "BUY" THEN paper.cost <= paper.filled * paper.price
                                             ELSE paper.cost >= paper.filled * paper.price
  <2>1. /\ paper.filled \in Nat /\ paper.size \in Nat /\ paper.cost \in Nat /\ paper.cut \in BOOLEAN
        /\ paper.price \in PaperPrices
        BY PaperAssumption DEF PaperOrders
  <2>2. paper # NoPaper
        BY DEF NoPaper
  <2>3. \A p \in PaperPrices : p \in Nat
        BY PaperAssumption
  <2>4. paper.price \in Nat
        BY <2>1, <2>3
  <2> QED BY <2>1, <2>2, <2>4 DEF PaperInv, PaperFillsAreSound
<1>2. size \in 0..(paper.size - paper.filled)
      BY <1>1, WalkSizeIs DEF Wanted
<1>3. /\ cost \in Nat
      /\ IF paper.side = "BUY" THEN cost <= size * paper.price ELSE cost >= size * paper.price
      BY WalkCostIs
<1>4. \/ paper' = paper
      \/ paper' = Fill(size, FALSE)
      \/ \E share \in {30, 80} : size > 10 /\ paper' = Fill((size * share) \div 100, TRUE)
      BY DEF Filled
<1> HIDE DEF size, cost
<1>5. ASSUME NEW n \in 0..size, NEW cut \in BOOLEAN, cut \/ n = size, paper' = Fill(n, cut)
      PROVE  PaperInv'
  <2> DEFINE filled == paper.filled + n
             paid == paper.cost + cost
             wasCut == paper.cut \/ cut
             status == IF filled >= paper.size THEN "filled" ELSE "open"
  <2>1. filled \in Nat /\ filled <= paper.size /\ paid \in Nat /\ wasCut \in BOOLEAN
        BY <1>1, <1>2, <1>3
  <2>2. /\ status \in {"open", "filled"} /\ (status = "filled" <=> filled = paper.size)
        BY <1>1, <2>1
  <2>3. ~wasCut => IF paper.side = "BUY" THEN paid <= filled * paper.price ELSE paid >= filled * paper.price
    <3> SUFFICES ASSUME ~wasCut
                 PROVE  IF paper.side = "BUY" THEN paid <= filled * paper.price
                                              ELSE paid >= filled * paper.price
        OBVIOUS
    <3>1. n = size /\ ~paper.cut
          BY <1>5
    <3>2. /\ (paper.filled + size) * paper.price = paper.filled * paper.price + size * paper.price
          /\ paper.filled * paper.price \in Int /\ size * paper.price \in Int
          BY <1>1, <1>2
    <3> QED BY <1>1, <1>3, <3>1, <3>2
  <2>4. paper' = [paper EXCEPT !.filled = filled, !.cost = paid, !.cut = wasCut, !.status = status]
        BY <1>5
  <2> HIDE DEF filled, paid, wasCut, status
  <2>5. /\ paper' \in PaperOrders
        /\ paper'.filled = filled /\ paper'.cost = paid /\ paper'.cut = wasCut /\ paper'.status = status
        /\ paper'.size = paper.size /\ paper'.side = paper.side /\ paper'.price = paper.price
        BY <2>1, <2>2, <2>4 DEF PaperOrders
  <2>6. PaperFillsAreSound'
        BY <2>1, <2>2, <2>3, <2>5 DEF PaperFillsAreSound
  <2> QED BY <2>5, <2>6 DEF PaperInv, PaperTypeOK
<1>6. CASE paper' = paper
      BY <1>6 DEF PaperInv, PaperTypeOK, PaperFillsAreSound
<1>7. CASE paper' = Fill(size, FALSE)
  <2>1. size \in 0..size /\ FALSE \in BOOLEAN
        BY <1>1, <1>2
  <2> HIDE DEF Fill
  <2> QED BY <1>5, <1>7, <2>1
<1>8. ASSUME NEW share \in {30, 80}, paper' = Fill((size * share) \div 100, TRUE) PROVE PaperInv'
  <2>1. (size * share) \div 100 \in 0..size
    <3>1. size \in Nat
          BY <1>1, <1>2
    <3> QED BY <3>1
  <2> QED BY <1>5, <1>8, <2>1
<1> QED BY <1>4, <1>6, <1>7, <1>8

\* Submissions, cancellations and resets leave sound orders, and snapshots fill them soundly.
LEMMA PaperStep == PaperInv /\ [PaperNext]_paperVars => PaperInv'
<1> SUFFICES ASSUME PaperInv, [PaperNext]_paperVars PROVE PaperInv'
    OBVIOUS
<1>1. ASSUME NEW side \in {"BUY", "SELL"}, NEW price \in PaperPrices, NEW size \in PaperSizes,
             SubmitPaper(side, price, size)
      PROVE  PaperInv'
  <2>1. /\ paper' \in PaperOrders /\ paper'.filled = 0 /\ paper'.cost = 0 /\ paper'.status = "open"
        /\ paper'.size \in Nat \ {0} /\ paper'.price \in Nat /\ shown' = shown
        BY <1>1, PaperAssumption DEF SubmitPaper, PaperOrders
  <2>2. 0 * paper'.price = 0
        BY <2>1
  <2> QED BY <2>1, <2>2 DEF PaperInv, PaperTypeOK, PaperFillsAreSound
<1>2. CASE CancelPaper
  <2>1. /\ paper \in PaperOrders /\ paper # NoPaper /\ shown' = shown
        /\ paper' = [paper EXCEPT !.status = "cancelled"]
        BY <1>2 DEF CancelPaper, PaperInv, PaperTypeOK, NoPaper
  <2>2. /\ paper' \in PaperOrders /\ paper'.status = "cancelled" /\ paper'.filled = paper.filled
        /\ paper'.size = paper.size /\ paper'.side = paper.side /\ paper'.price = paper.price
        /\ paper'.cost = paper.cost /\ paper'.cut = paper.cut
        BY <2>1 DEF PaperOrders
  <2> QED BY <2>1, <2>2 DEF PaperInv, PaperTypeOK, PaperFillsAreSound
<1>3. ASSUME NEW bids \in [PaperPrices -> Depths], NEW asks \in [PaperPrices -> Depths],
             SimulateFills(bids, asks)
      PROVE  PaperInv'
  <2> DEFINE side == IF paper.side = "BUY" THEN asks ELSE bids
  <2>1. side \in [PaperPrices -> Nat]
        BY PaperAssumption
  <2>2. paper \in PaperOrders /\ paper.status = "open" /\ paper' \in Filled(paper, side)
        BY <1>3 DEF SimulateFills, PaperInv, PaperTypeOK, NoPaper
  <2>3. shown' \in 0..MaxSnapshots
        BY <1>3, PaperAssumption DEF SimulateFills, PaperInv, PaperTypeOK
  <2> HIDE DEF side
  <2> QED BY <2>1, <2>2, <2>3, FillKeeps
<1>4. CASE ResetPaper
      BY <1>4 DEF ResetPaper, PaperInv, PaperTypeOK, PaperFillsAreSound
<1>5. CASE UNCHANGED paperVars
      BY <1>5 DEF paperVars, PaperInv, PaperTypeOK, PaperFillsAreSound
<1> QED BY <1>1, <1>2, <1>3, <1>4, <1>5 DEF PaperNext

\* No order was simulated yet (PaperTradingEngine.__init__).
LEMMA PaperInitially == PaperInit => PaperInv
BY PaperAssumption DEF PaperInit, PaperInv, PaperTypeOK, PaperFillsAreSound

\* A paper order never gets more than it asked for, is closed exactly when it has it all, and
\* pays within its limit unless a partial-fill draw cut it (simulate_fills).
THEOREM PaperFillsSound == PaperSpec => []PaperFillsAreSound
<1>1. PaperInv => PaperFillsAreSound
      BY DEF PaperInv
<1> QED BY <1>1, PaperInitially, PaperStep, PTL DEF PaperSpec

-----------------------------------------------------------------------------
(* Slippage: the walk takes the best the side offers.                      *)

\* The levels of a side the book may hold.
Booked(levels) ==
    /\ IsFiniteSet(DOMAIN levels)
    /\ \A i \in DOMAIN levels : /\ i \in Int /\ levels[i].price \in Nat
                                /\ levels[i].size \in Nat /\ levels[i].size > 0

\* A price as the walk ranks it, lowest first.
Ranked(price, side) == IF side = "BUY" THEN price ELSE -price
Rank(levels, side, i) == Ranked(levels[i].price, side)

Walks == [cost : Nat, filled : Nat, levels : Nat, sufficient : BOOLEAN]

\* g is what the walk for a size takes from each of the levels S: at most what rests there, all
\* of them if that is not enough, and nothing from a level that ranks after one it leaves some of.
Greedy(g, S, levels, size, side, end) ==
    /\ g \in [DOMAIN levels -> Nat] /\ end \in Walks
    /\ \A i \in S : g[i] <= levels[i].size
    /\ end.filled = Tally(g, S) /\ end.filled <= size
    /\ end.cost = Tally([i \in DOMAIN levels |-> g[i] * levels[i].price], S)
    /\ end.filled < size => \A i \in S : g[i] = levels[i].size
    /\ S # {} => \E k \in S : \A i \in S :
         /\ g[i] > 0 => Rank(levels, side, i) <= Rank(levels, side, k)
         /\ g[i] < levels[i].size => Rank(levels, side, k) <= Rank(levels, side, i)

\* The sides of the model are such sides (bids, asks: lists of price and size).
LEMMA SidesAreBooked == \A levels \in Sides \cup {<<>>} : Booked(levels)
<1> SUFFICES ASSUME NEW levels \in Sides \cup {<<>>} PROVE Booked(levels)
  OBVIOUS
<1>1. CASE levels \in Sides
  <2>1. PICK n \in 1..MaxLevels : levels \in [1..n -> [price : LevelPrices, size : LevelSizes]]
    BY <1>1 DEF Sides
  <2>2. n \in Int /\ DOMAIN levels = 1..n
    BY <2>1, SlippageAssumption
  <2>3. IsFiniteSet(DOMAIN levels)
    BY <2>2, FS_Interval
  <2>4. ASSUME NEW i \in DOMAIN levels
        PROVE  i \in Int /\ levels[i].price \in Nat /\ levels[i].size \in Nat /\ levels[i].size > 0
    <3>1. levels[i].price \in LevelPrices /\ levels[i].size \in LevelSizes /\ i \in Int
      BY <2>1, <2>2
    <3>2. \A x \in LevelPrices : x \in Nat
      BY SlippageAssumption
    <3>3. \A x \in LevelSizes : x \in Nat /\ x > 0
      BY SlippageAssumption
    <3> QED
      BY <3>1, <3>2, <3>3
  <2> QED
    BY <2>3, <2>4 DEF Booked
<1>2. CASE levels = <<>>
  <2>1. DOMAIN levels = {}
    BY <1>2
  <2> QED
    BY <2>1, FS_EmptySet DEF Booked
<1> QED
  BY <1>1, <1>2

\* Some level is the last of any, and none of the others ranks after it.
LEMMA LastIs ==
  ASSUME NEW levels, Booked(levels), NEW side, NEW S \in SUBSET DOMAIN levels, S # {}
  PROVE  /\ LastOf(S, levels, side) \in S
         /\ \A j \in S : Rank(levels, side, j) <= Rank(levels, side, LastOf(S, levels, side))
<1> DEFINE D == DOMAIN levels
           Is(i, s) == i \in s /\ \A j \in s \ {i} : After(levels, side, i, j)
           T == {s \in SUBSET D : s # {} => \E i \in s : Is(i, s)}
<1>1. \A i \in D : i \in Int /\ levels[i].price \in Int
  BY DEF Booked
<1>2. \A i, j, k \in D : After(levels, side, i, j) /\ After(levels, side, j, k) => After(levels, side, i, k)
  BY <1>1 DEF After
<1>3. \A i, j \in D : i # j => After(levels, side, i, j) \/ After(levels, side, j, i)
  BY <1>1 DEF After
<1>4. \A i, j \in D : After(levels, side, i, j) => Rank(levels, side, j) <= Rank(levels, side, i)
  BY <1>1 DEF After, Rank, Ranked
<1>5. ASSUME NEW s \in SUBSET D, \A x \in s : s \ {x} \in T PROVE s \in T
  <2> SUFFICES ASSUME s # {} PROVE \E i \in s : Is(i, s)
    OBVIOUS
  <2>1. PICK x \in s : TRUE
    OBVIOUS
  <2>2. CASE s \ {x} = {}
    BY <2>1, <2>2
  <2>3. CASE s \ {x} # {}
    <3>1. PICK m \in s \ {x} : Is(m, s \ {x})
      BY <1>5, <2>1, <2>3
    <3>2. CASE After(levels, side, m, x)
      <4>1. Is(m, s)
        BY <3>1, <3>2
      <4> QED
        BY <3>1, <4>1
    <3>3. CASE After(levels, side, x, m)
      <4>1. \A j \in s \ {x} : After(levels, side, x, j)
        BY <1>2, <2>1, <3>1, <3>3
      <4> QED
        BY <2>1, <4>1
    <3> QED
      BY <1>3, <2>1, <3>1, <3>2, <3>3
  <2> QED
    BY <2>2, <2>3
<1>6. S \in T
  <2>1. IsFiniteSet(D) /\ S \in SUBSET D
    BY DEF Booked
  <2>2. \A s \in SUBSET D : (\A x \in s : s \ {x} \in T) => s \in T
    BY <1>5
  <2> HIDE DEF D, T
  <2>3. \A s \in SUBSET D : s \in T
    BY ONLY <2>1, <2>2, SetBySet
  <2> QED
    BY ONLY <2>1, <2>3
<1>7. Is(LastOf(S, levels, side), S)
  BY <1>6 DEF LastOf
<1>8. ASSUME NEW j \in S PROVE Rank(levels, side, j) <= Rank(levels, side, LastOf(S, levels, side))
  <2>1. CASE j = LastOf(S, levels, side)
    BY <1>1, <2>1 DEF Rank, Ranked
  <2>2. CASE j # LastOf(S, levels, side)
    BY <1>4, <1>7, <2>2
  <2> QED
    BY <2>1, <2>2
<1> QED
  BY <1>7, <1>8

\* One turn of the loop gives a level the smaller of what it holds and what remains.
LEMMA TakingIs ==
  ASSUME NEW size \in Nat, NEW acc \in Walks, acc.filled < size,
         NEW level, level.price \in Nat, level.size \in Nat
  PROVE  \E fill \in Nat :
           /\ fill = IF size - acc.filled <= level.size THEN size - acc.filled ELSE level.size
           /\ Taking(acc, level, size) \in Walks
           /\ Taking(acc, level, size).filled = acc.filled + fill
           /\ Taking(acc, level, size).cost = acc.cost + fill * level.price
<1> DEFINE rest == size - acc.filled
           fill == Min({rest, level.size})
<1>1. acc.cost \in Nat /\ acc.filled \in Nat /\ acc.levels \in Nat /\ rest \in Nat
  BY DEF Walks
<1>2. fill \in Nat /\ fill = IF rest <= level.size THEN rest ELSE level.size
  <2> HIDE DEF rest
  <2>1. PICK m \in {rest, level.size} : \A y \in {rest, level.size} : m <= y
    BY <1>1
  <2>2. fill \in {rest, level.size} /\ \A y \in {rest, level.size} : fill <= y
    BY <2>1 DEF Min
  <2> HIDE DEF fill
  <2> QED
    BY <1>1, <2>2
<1>3. Taking(acc, level, size)
        = [acc EXCEPT !.cost = @ + fill * level.price, !.filled = @ + fill, !.levels = @ + 1]
  BY <1>1 DEF Taking
<1> HIDE DEF fill
<1> DEFINE cost == fill * level.price
<1>4. cost \in Nat
  <2> DEFINE x == level.price
  <2>1. x \in Nat
    OBVIOUS
  <2> HIDE DEF x
  <2>2. fill * x \in Nat
    BY <1>2, <2>1
  <2> QED
    BY <2>2 DEF x
<1> HIDE DEF cost
<1>5. Taking(acc, level, size)
        = [acc EXCEPT !.cost = @ + cost, !.filled = @ + fill, !.levels = @ + 1]
  BY <1>3 DEF cost
<1>6. /\ Taking(acc, level, size) \in Walks
      /\ Taking(acc, level, size).filled = acc.filled + fill
      /\ Taking(acc, level, size).cost = acc.cost + cost
  <2>1. Taking(acc, level, size) = [cost |-> acc.cost + cost, filled |-> acc.filled + fill,
                                    levels |-> acc.levels + 1, sufficient |-> acc.sufficient]
    BY <1>5 DEF Walks
  <2>2. acc.cost + cost \in Nat /\ acc.filled + fill \in Nat /\ acc.levels + 1 \in Nat
        /\ acc.sufficient \in BOOLEAN
    <3>1. acc.sufficient \in BOOLEAN
      BY DEF Walks
    <3> QED
      BY <1>1, <1>2, <1>4, <3>1
  <2> QED
    BY <2>1, <2>2 DEF Walks
<1> QED
  BY <1>2, <1>6 DEF cost

\* What the walk over the levels s is, given what it is over fewer.
Turn(f, s, levels, size, side) ==
    IF s = {} THEN NoLiquidity
    ELSE Taking(f[s \ {LastOf(s, levels, side)}], levels[LastOf(s, levels, side)], size)

\* The walk is what its recursion says: it is built by the number of levels.
LEMMA WalkedTurns ==
  ASSUME NEW levels, Booked(levels), NEW size, NEW side
  PROVE  \A s \in SUBSET DOMAIN levels :
           Walked(levels, size, side)[s] = Turn(Walked(levels, size, side), s, levels, size, side)
<1> DEFINE A == DOMAIN levels
           last(s) == LastOf(s, levels, side)
           step(f, s) == IF s = {} THEN NoLiquidity ELSE Taking(f[s \ {last(s)}], levels[last(s)], size)
           D(n) == {s \in SUBSET A : Cardinality(s) <= n}
           On(f, S) == f = [s \in S |-> step(f, s)]
           C == {n \in Nat : \E f : On(f, D(n))}
<1>1. \A s \in SUBSET A : IsFiniteSet(s) /\ Cardinality(s) \in Nat
  BY FS_Subset, FS_CardinalityType DEF Booked
<1>2. \A s \in SUBSET A : s # {} => /\ last(s) \in s /\ s \ {last(s)} \in SUBSET A
                                    /\ Cardinality(s \ {last(s)}) = Cardinality(s) - 1
  <2> SUFFICES ASSUME NEW s \in SUBSET A, s # {}
               PROVE  /\ last(s) \in s /\ s \ {last(s)} \in SUBSET A
                      /\ Cardinality(s \ {last(s)}) = Cardinality(s) - 1
    OBVIOUS
  <2>1. last(s) \in s
    BY LastIs
  <2> HIDE DEF last
  <2> QED
    BY <1>1, <2>1, FS_RemoveElement
<1>3. 0 \in C
  <2> DEFINE f == [s \in D(0) |-> NoLiquidity]
  <2>1. \A s \in D(0) : s = {}
    BY <1>1, FS_EmptySet
  <2>2. \A s \in D(0) : step(f, s) = NoLiquidity
    BY <2>1
  <2>3. On(f, D(0))
    BY <2>2
  <2> HIDE DEF f, On
  <2> QED
    BY <2>3
<1>4. ASSUME NEW n \in Nat, n \in C PROVE n + 1 \in C
  <2>1. PICK f : On(f, D(n))
    BY <1>4
  <2> DEFINE h == [s \in D(n + 1) |-> step(f, s)]
  <2>2. \A s \in D(n) : s \in D(n + 1) /\ h[s] = f[s]
    <3>1. \A s \in D(n) : s \in D(n + 1)
      BY <1>1
    <3>2. \A s \in D(n) : f[s] = step(f, s)
      BY <2>1
    <3> HIDE DEF D, step
    <3> QED
      BY <3>1, <3>2
  <2>3. \A s \in D(n + 1) : s # {} => s \ {last(s)} \in D(n)
    BY <1>1, <1>2
  <2>4. \A s \in D(n + 1) : h[s] = step(h, s)
    <3> HIDE DEF D, last
    <3> QED
      BY <2>2, <2>3
  <2>5. h = [s \in D(n + 1) |-> h[s]]
    OBVIOUS
  <2> HIDE DEF D, h, step
  <2>6. On(h, D(n + 1))
    BY <2>4, <2>5
  <2> HIDE DEF On
  <2> QED
    BY <2>6
<1>5. Cardinality(A) \in C
  <2> HIDE DEF C
  <2> QED
    BY <1>1, <1>3, <1>4, CountingUp
<1>6. D(Cardinality(A)) = SUBSET A
  BY <1>1, FS_Subset DEF Booked
<1> HIDE DEF D
<1>7. \E f : On(f, SUBSET A)
  BY <1>5, <1>6
<1>8. Walked(levels, size, side) = CHOOSE f : On(f, SUBSET A)
  BY DEF Walked
<1> DEFINE walk == Walked(levels, size, side)
<1>9. On(walk, SUBSET A)
  <2> HIDE DEF On
  <2> QED
    BY <1>7, <1>8
<1>10. \A s \in SUBSET A : walk[s] = step(walk, s)
  <2> HIDE DEF walk, step
  <2> QED
    BY <1>9
<1>11. \A s \in SUBSET A : step(walk, s) = Turn(walk, s, levels, size, side)
  BY DEF Turn
<1> QED
  BY <1>10, <1>11

\* One more level, the last in rank, keeps what the walk took greedy.
LEMMA GreedyExtends ==
  ASSUME NEW levels, Booked(levels), NEW size \in Nat, size > 0, NEW side,
         NEW S \in SUBSET DOMAIN levels, NEW k \in S,
         \A j \in S : Rank(levels, side, j) <= Rank(levels, side, k),
         NEW g, NEW end, Greedy(g, S \ {k}, levels, size, side, end), end.filled < size
  PROVE  \E h : Greedy(h, S, levels, size, side, Taking(end, levels[k], size))
<1> DEFINE D == DOMAIN levels
           R == S \ {k}
           next == Taking(end, levels[k], size)
<1>1. /\ g \in [D -> Nat] /\ end \in Walks
      /\ \A i \in R : g[i] = levels[i].size
      /\ end.filled = Tally(g, R)
      /\ end.cost = Tally([i \in D |-> g[i] * levels[i].price], R)
  BY DEF Greedy
<1>2. IsFiniteSet(D) /\ \A i \in D : levels[i].price \in Nat /\ levels[i].size \in Nat /\ levels[i].size > 0
  BY DEF Booked
<1>3. PICK fill \in Nat :
           /\ fill = IF size - end.filled <= levels[k].size THEN size - end.filled ELSE levels[k].size
           /\ next \in Walks /\ next.filled = end.filled + fill
           /\ next.cost = end.cost + fill * levels[k].price
  BY <1>1, <1>2, TakingIs
<1>4. end.filled \in Nat
  BY <1>1 DEF Walks
<1> DEFINE h == [g EXCEPT ![k] = fill]
           gp == [i \in D |-> g[i] * levels[i].price]
           hp == [i \in D |-> h[i] * levels[i].price]
<1>5. h \in [D -> Nat] /\ h[k] = fill /\ \A i \in R : h[i] = g[i]
  BY <1>1
<1>6. gp \in [D -> Int] /\ hp \in [D -> Int] /\ \A i \in R : hp[i] = gp[i]
  <2>1. \A m, n \in Nat : m * n \in Int
    OBVIOUS
  <2> HIDE DEF h
  <2> QED
    BY <1>1, <1>2, <1>5, <2>1
<1>7. hp[k] = fill * levels[k].price
  BY <1>5
<1> HIDE DEF h, gp, hp, next
<1>8. Tally(h, S) = fill + Tally(h, R) /\ Tally(hp, S) = hp[k] + Tally(hp, R)
  <2>1. h \in [D -> Int]
    BY <1>5
  <2> QED
    BY <1>2, <1>5, <1>6, <2>1, Tallies
<1>9. Tally(h, R) = Tally(g, R) /\ Tally(hp, R) = Tally(gp, R)
  <2>1. h \in [D -> Int] /\ g \in [D -> Int] /\ R \in SUBSET D
    BY <1>1, <1>5
  <2> QED
    BY <1>2, <1>5, <1>6, <2>1, SameTally
<1>10. next.filled = Tally(h, S) /\ next.cost = Tally(hp, S)
  <2>1. end.cost = Tally(gp, R) /\ end.cost \in Nat
    BY <1>1 DEF gp, Walks
  <2>2. hp[k] \in Int
    BY <1>6
  <2> QED
    BY <1>1, <1>3, <1>4, <1>7, <1>8, <1>9, <2>1, <2>2
<1>11. fill > 0 /\ fill <= levels[k].size /\ next.filled <= size
       /\ (next.filled < size => fill = levels[k].size)
  BY <1>2, <1>3, <1>4
<1>12. \A i \in S : h[i] <= levels[i].size /\ (next.filled < size => h[i] = levels[i].size)
  BY <1>1, <1>2, <1>5, <1>11
<1>13. \A i \in S : /\ h[i] > 0 => Rank(levels, side, i) <= Rank(levels, side, k)
                    /\ h[i] < levels[i].size => Rank(levels, side, k) <= Rank(levels, side, i)
  <2> SUFFICES ASSUME NEW i \in S, h[i] < levels[i].size
               PROVE  Rank(levels, side, k) <= Rank(levels, side, i)
    OBVIOUS
  <2>1. i = k
    BY <1>1, <1>2, <1>5
  <2> QED
    BY <2>1
<1>14. hp = [i \in D |-> h[i] * levels[i].price]
  BY DEF hp
<1>15. Greedy(h, S, levels, size, side, next)
  BY <1>3, <1>5, <1>10, <1>11, <1>12, <1>13, <1>14 DEF Greedy
<1> QED
  BY <1>15 DEF next

\* Once nothing remains, a level that ranks last gets nothing.
LEMMA GreedyRests ==
  ASSUME NEW levels, Booked(levels), NEW size \in Nat, size > 0, NEW side,
         NEW S \in SUBSET DOMAIN levels, NEW k \in S,
         \A j \in S : Rank(levels, side, j) <= Rank(levels, side, k),
         NEW g, NEW end, Greedy(g, S \ {k}, levels, size, side, end), ~ (end.filled < size)
  PROVE  \E h : Greedy(h, S, levels, size, side, end)
<1> DEFINE D == DOMAIN levels
           R == S \ {k}
           h == [g EXCEPT ![k] = 0]
           gp == [i \in D |-> g[i] * levels[i].price]
           hp == [i \in D |-> h[i] * levels[i].price]
<1>1. /\ g \in [D -> Nat] /\ end \in Walks
      /\ \A i \in R : g[i] <= levels[i].size
      /\ end.filled = Tally(g, R) /\ end.filled <= size
      /\ end.cost = Tally(gp, R)
      /\ R # {} => \E m \in R : \A i \in R :
           /\ g[i] > 0 => Rank(levels, side, i) <= Rank(levels, side, m)
           /\ g[i] < levels[i].size => Rank(levels, side, m) <= Rank(levels, side, i)
  BY DEF Greedy
<1>2. IsFiniteSet(D) /\ \A i \in D : levels[i].price \in Nat /\ levels[i].size \in Nat /\ levels[i].size > 0
  BY DEF Booked
<1>3. end.filled \in Nat /\ end.cost \in Nat
  BY <1>1 DEF Walks
<1>4. h \in [D -> Nat] /\ h[k] = 0 /\ \A i \in R : h[i] = g[i]
  BY <1>1
<1>5. gp \in [D -> Int] /\ hp \in [D -> Int] /\ \A i \in R : hp[i] = gp[i]
  <2>1. \A m, n \in Nat : m * n \in Int
    OBVIOUS
  <2> HIDE DEF h
  <2> QED
    BY <1>1, <1>2, <1>4, <2>1
<1>6. hp[k] = 0
  <2>1. hp[k] = 0 * levels[k].price /\ levels[k].price \in Nat
    BY <1>2, <1>4
  <2> DEFINE x == levels[k].price
  <2>2. x \in Nat
    BY <2>1
  <2> HIDE DEF x
  <2>3. 0 * x = 0
    BY <2>2
  <2> QED
    BY <2>1, <2>3 DEF x
<1>7. h \in [D -> Int] /\ g \in [D -> Int] /\ R \in SUBSET D
  BY <1>1, <1>4
<1>8. hp = [i \in D |-> h[i] * levels[i].price]
  OBVIOUS
<1> HIDE DEF h, gp, hp
<1>9. Tally(h, S) = 0 + Tally(h, R) /\ Tally(hp, S) = 0 + Tally(hp, R)
  BY <1>2, <1>4, <1>5, <1>6, <1>7, Tallies
<1>10. Tally(h, R) = Tally(g, R) /\ Tally(hp, R) = Tally(gp, R)
  BY <1>2, <1>4, <1>5, <1>7, SameTally
<1>11. end.filled = Tally(h, S) /\ end.cost = Tally(hp, S)
  BY <1>1, <1>3, <1>9, <1>10
<1>12. R # {}
  <2> SUFFICES ASSUME R = {} PROVE FALSE
    OBVIOUS
  <2>1. end.filled = 0
    BY <1>1, <1>2, <1>7, Tallies
  <2> QED
    BY <2>1
<1>13. PICK m \in R : \A i \in R :
         /\ g[i] > 0 => Rank(levels, side, i) <= Rank(levels, side, m)
         /\ g[i] < levels[i].size => Rank(levels, side, m) <= Rank(levels, side, i)
  BY <1>1, <1>12
<1>14. \A i \in S : /\ h[i] > 0 => Rank(levels, side, i) <= Rank(levels, side, m)
                    /\ h[i] < levels[i].size => Rank(levels, side, m) <= Rank(levels, side, i)
  BY <1>4, <1>13
<1>15. \A i \in S : h[i] <= levels[i].size
  BY <1>1, <1>2, <1>4
<1>16. Greedy(h, S, levels, size, side, end)
  BY <1>1, <1>4, <1>8, <1>11, <1>13, <1>14, <1>15 DEF Greedy
<1> QED
  BY <1>16

\* The walk takes greedily, whatever the order the levels were presented in.
LEMMA WalkIsGreedy ==
  ASSUME NEW levels, Booked(levels), NEW size \in Nat, size > 0, NEW side
  PROVE  \E g : Greedy(g, DOMAIN levels, levels, size, side,
                       Walked(levels, size, side)[DOMAIN levels])
<1> DEFINE D == DOMAIN levels
           walk == Walked(levels, size, side)
           T == {s \in SUBSET D : \E g : Greedy(g, s, levels, size, side, walk[s])}
<1>1. IsFiniteSet(D)
  BY DEF Booked
<1>2. \A s \in SUBSET D : walk[s] = Turn(walk, s, levels, size, side)
  BY WalkedTurns
<1> HIDE DEF walk
<1>3. ASSUME NEW s \in SUBSET D, \A x \in s : s \ {x} \in T PROVE s \in T
  <2>1. CASE s = {}
    <3> DEFINE g == [i \in D |-> 0]
               gp == [i \in D |-> g[i] * levels[i].price]
    <3>1. walk[s] = NoLiquidity
      BY <1>2, <2>1 DEF Turn
    <3>2. g \in [D -> Nat] /\ g \in [D -> Int] /\ gp \in [D -> Int]
      <4>1. \A i \in D : levels[i].price \in Nat
        BY DEF Booked
      <4>2. \A n \in Nat : 0 * n \in Int
        OBVIOUS
      <4> QED
        BY <4>1, <4>2
    <3> HIDE DEF g
    <3>3. gp = [i \in D |-> g[i] * levels[i].price]
      OBVIOUS
    <3> HIDE DEF gp
    <3>4. Tally(g, s) = 0 /\ Tally(gp, s) = 0
      BY <1>1, <2>1, <3>2, Tallies
    <3>5. Greedy(g, s, levels, size, side, walk[s])
      BY <2>1, <3>1, <3>2, <3>3, <3>4 DEF Greedy, NoLiquidity, Walks
    <3> QED
      BY <3>5
  <2>2. CASE s # {}
    <3> DEFINE k == LastOf(s, levels, side)
               r == s \ {k}
    <3>1. k \in s /\ \A j \in s : Rank(levels, side, j) <= Rank(levels, side, k)
      BY <2>2, LastIs
    <3>2. walk[s] = Taking(walk[r], levels[k], size)
      BY <1>2, <2>2 DEF Turn
    <3> HIDE DEF k
    <3>3. PICK g : Greedy(g, r, levels, size, side, walk[r])
      BY <1>3, <3>1
    <3>4. walk[r].filled \in Nat
      BY <3>3 DEF Greedy, Walks
    <3>5. CASE walk[r].filled < size
      BY <3>1, <3>2, <3>3, <3>5, GreedyExtends
    <3>6. CASE ~ (walk[r].filled < size)
      <4>1. walk[s] = walk[r]
        BY <3>2, <3>4, <3>6 DEF Taking
      <4>2. \E h : Greedy(h, s, levels, size, side, walk[r])
        BY <3>1, <3>3, <3>6, GreedyRests
      <4> QED
        BY <4>1, <4>2
    <3> QED
      BY <3>5, <3>6
  <2> QED
    BY <2>1, <2>2
<1>4. D \in T
  <2> HIDE DEF T
  <2>1. \A s \in SUBSET D : s \in T
    <3> HIDE DEF D
    <3> QED
      BY <1>1, <1>3, SetBySet
  <2> QED
    BY <2>1
<1> QED
  BY <1>4 DEF walk

\* Moving what is taken from one level to a worse one raises the cost.
LEMMA Swapped ==
  ASSUME NEW g \in Int, NEW h \in Int, NEW v \in Int, NEW q \in Int,
         (g <= h /\ q <= v) \/ (h <= g /\ v <= q)
  PROVE  q * (h - g) <= h * v - g * v
<1>1. CASE g <= h /\ q <= v
  <2>1. PICK a \in Nat, b \in Nat : h = g + a /\ v = q + b
    <3>1. h - g \in Nat /\ v - q \in Nat /\ h = g + (h - g) /\ v = q + (v - q)
      BY <1>1
    <3> QED
      BY <3>1
  <2>2. h * v - g * v = q * a + a * b /\ q * (h - g) = q * a /\ a * b >= 0
    BY <2>1
  <2>3. q * a \in Int /\ a * b \in Int
    OBVIOUS
  <2> QED
    BY <2>2, <2>3
<1>2. CASE h <= g /\ v <= q
  <2>1. PICK a \in Nat, b \in Nat : g = h + a /\ q = v + b
    <3>1. g - h \in Nat /\ q - v \in Nat /\ g = h + (g - h) /\ q = v + (q - v)
      BY <1>2
    <3> QED
      BY <3>1
  <2>2. h * v - g * v = -(v * a) /\ q * (h - g) = -(v * a) - a * b /\ a * b >= 0
    BY <2>1
  <2>3. v * a \in Int /\ a * b \in Int
    OBVIOUS
  <2> QED
    BY <2>2, <2>3
<1> QED
  BY <1>1, <1>2

\* What is taken at a price of at most q costs at most q a unit.
LEMMA UnitsAtMost ==
  ASSUME NEW m \in Nat, NEW n \in Int, NEW q \in Int, m > 0 => n <= q
  PROVE  m * n <= q * m
<1>1. CASE m = 0
  <2>1. m * n = 0 /\ q * m = 0
    BY <1>1
  <2> QED
    BY <2>1
<1>2. CASE m > 0
  <2>1. PICK b \in Nat : q = n + b
    <3>1. q - n \in Nat /\ q = n + (q - n)
      BY <1>2
    <3> QED
      BY <3>1
  <2>2. q * m = m * n + m * b /\ m * b >= 0 /\ m * n \in Int /\ m * b \in Int
    BY <2>1
  <2> QED
    BY <2>2
<1> QED
  BY <1>1, <1>2

\* Two lots that each cost q more for a unit more do so together.
LEMMA Together ==
  ASSUME NEW q \in Int, NEW a \in Int, NEW b \in Int, NEW c \in Int, NEW d \in Int,
         NEW m \in Int, NEW n \in Int, NEW y \in Int, NEW z \in Int,
         q * (b - a) <= d - c, q * (n - m) <= z - y
  PROVE  q * ((n + b) - (m + a)) <= (z + d) - (y + c)
<1> DEFINE e == b - a
           f == n - m
<1>1. e \in Int /\ f \in Int /\ (n + b) - (m + a) = f + e
  OBVIOUS
<1>2. q * e <= d - c /\ q * f <= z - y
  OBVIOUS
<1>3. (z + d) - (y + c) = (z - y) + (d - c)
  OBVIOUS
<1> HIDE DEF e, f
<1>4. q * (f + e) = q * f + q * e /\ q * f \in Int /\ q * e \in Int
  BY <1>1
<1>5. q * f + q * e <= (z - y) + (d - c)
  BY <1>2, <1>4
<1> QED
  BY <1>1, <1>3, <1>4, <1>5

\* Against a greedy taking g with the last rank q, any other h costs q more for each unit it
\* takes more; and what g takes costs at most q a unit.
LEMMA GreedyIsBest ==
  ASSUME NEW D, IsFiniteSet(D), NEW v \in [D -> Int], NEW room \in [D -> Nat], NEW q \in Int,
         NEW g \in [D -> Nat], \A i \in D : g[i] <= room[i],
         \A i \in D : (g[i] > 0 => v[i] <= q) /\ (g[i] < room[i] => q <= v[i]),
         NEW h \in [D -> Nat], \A i \in D : h[i] <= room[i]
  PROVE  /\ q * (Tally(h, D) - Tally(g, D))
              <= Tally([i \in D |-> h[i] * v[i]], D) - Tally([i \in D |-> g[i] * v[i]], D)
         /\ Tally([i \in D |-> g[i] * v[i]], D) <= q * Tally(g, D)
<1> DEFINE gv == [i \in D |-> g[i] * v[i]]
           hv == [i \in D |-> h[i] * v[i]]
           T == {s \in SUBSET D : q * (Tally(h, s) - Tally(g, s)) <= Tally(hv, s) - Tally(gv, s)}
           U == {s \in SUBSET D : Tally(gv, s) <= q * Tally(g, s)}
<1>1. gv \in [D -> Int] /\ hv \in [D -> Int] /\ g \in [D -> Int] /\ h \in [D -> Int]
  <2>1. \A m, n \in Int : m * n \in Int
    OBVIOUS
  <2>2. \A i \in D : g[i] \in Int /\ h[i] \in Int /\ v[i] \in Int
    OBVIOUS
  <2> QED
    BY <2>1, <2>2
<1>2. \A i \in D : /\ g[i] \in Nat /\ h[i] \in Nat /\ v[i] \in Int /\ room[i] \in Nat
                   /\ gv[i] = g[i] * v[i] /\ hv[i] = h[i] * v[i]
  OBVIOUS
<1> HIDE DEF gv, hv
<1>3. \A f \in [D -> Int] : \A s \in SUBSET D :
        /\ s = {} => Tally(f, s) = 0
        /\ \A x \in s : f[x] \in Int /\ Tally(f, s \ {x}) \in Int
                        /\ Tally(f, s) = f[x] + Tally(f, s \ {x})
  <2> SUFFICES ASSUME NEW f \in [D -> Int], NEW s \in SUBSET D
               PROVE  /\ s = {} => Tally(f, s) = 0
                      /\ \A x \in s : f[x] \in Int /\ Tally(f, s \ {x}) \in Int
                                      /\ Tally(f, s) = f[x] + Tally(f, s \ {x})
    OBVIOUS
  <2>1. \A x \in s : s \ {x} \in SUBSET D /\ f[x] \in Int
    OBVIOUS
  <2>2. /\ Tally(f, {}) = 0
        /\ \A S \in SUBSET D :
             Tally(f, S) \in Int /\ \A x \in S : Tally(f, S) = f[x] + Tally(f, S \ {x})
    BY Tallies
  <2> HIDE DEF T, U
  <2>3. ASSUME NEW x \in s
        PROVE  f[x] \in Int /\ Tally(f, s \ {x}) \in Int /\ Tally(f, s) = f[x] + Tally(f, s \ {x})
    BY ONLY <2>1, <2>2
  <2>4. s = {} => Tally(f, s) = 0
    BY ONLY <2>2
  <2> QED
    BY <2>3, <2>4
<1> DEFINE F == [D -> Int]
           Parts == SUBSET D
           Splits(f, s) == \A x \in s : /\ f[x] \in Int /\ Tally(f, s \ {x}) \in Int
                                        /\ Tally(f, s) = f[x] + Tally(f, s \ {x})
<1>3a. gv \in F /\ hv \in F /\ g \in F /\ h \in F /\ \A s \in SUBSET D : s \in Parts
  BY <1>1
<1>3b. \A f \in F : \A s \in Parts : Splits(f, s)
  BY <1>3
<1> HIDE DEF F, Parts, Splits
<1>3c. ASSUME NEW s \in SUBSET D
       PROVE  Splits(g, s) /\ Splits(h, s) /\ Splits(gv, s) /\ Splits(hv, s)
  BY <1>3a, <1>3b
<1>4. \A i \in D : q * (h[i] - g[i]) <= hv[i] - gv[i] /\ gv[i] <= q * g[i]
  <2> SUFFICES ASSUME NEW i \in D PROVE q * (h[i] - g[i]) <= hv[i] - gv[i] /\ gv[i] <= q * g[i]
    OBVIOUS
  <2> DEFINE m == g[i]
             n == h[i]
             w == v[i]
  <2>1. (m <= n /\ q <= w) \/ (n <= m /\ w <= q)
    BY <1>2
  <2>2. m \in Nat /\ n \in Nat /\ w \in Int /\ (m > 0 => w <= q) /\ gv[i] = m * w /\ hv[i] = n * w
    BY <1>2
  <2> HIDE DEF m, n, w
  <2>3. q * (n - m) <= n * w - m * w
    BY <2>1, <2>2, Swapped
  <2>4. m * w <= q * m
    BY <2>2, UnitsAtMost
  <2> QED
    BY <2>2, <2>3, <2>4 DEF m, n
<1>5. ASSUME NEW s \in SUBSET D, \A x \in s : s \ {x} \in T PROVE s \in T
  <2>1. CASE s = {}
    <3>1. Tally(g, s) = 0 /\ Tally(h, s) = 0 /\ Tally(gv, s) = 0 /\ Tally(hv, s) = 0
      BY <1>1, <1>3, <2>1
    <3>2. q * (0 - 0) = 0
      OBVIOUS
    <3> QED
      BY <3>1, <3>2
  <2>2. CASE s # {}
    <3>1. PICK x \in s : s \ {x} \in T
      BY <1>5, <2>2
    <3>2. /\ g[x] \in Int /\ Tally(g, s \ {x}) \in Int /\ Tally(g, s) = g[x] + Tally(g, s \ {x})
          /\ h[x] \in Int /\ Tally(h, s \ {x}) \in Int /\ Tally(h, s) = h[x] + Tally(h, s \ {x})
      <4>0. Splits(g, s) /\ Splits(h, s) /\ x \in s
        BY <1>3c, <3>1
      <4>1. g[x] \in Int /\ Tally(g, s \ {x}) \in Int /\ Tally(g, s) = g[x] + Tally(g, s \ {x})
        BY ONLY <4>0 DEF Splits
      <4>2. h[x] \in Int /\ Tally(h, s \ {x}) \in Int /\ Tally(h, s) = h[x] + Tally(h, s \ {x})
        BY ONLY <4>0 DEF Splits
      <4> QED
        BY ONLY <4>1, <4>2
    <3>3. /\ gv[x] \in Int /\ Tally(gv, s \ {x}) \in Int /\ Tally(gv, s) = gv[x] + Tally(gv, s \ {x})
          /\ hv[x] \in Int /\ Tally(hv, s \ {x}) \in Int /\ Tally(hv, s) = hv[x] + Tally(hv, s \ {x})
      <4>0. Splits(gv, s) /\ Splits(hv, s) /\ x \in s
        BY <1>3c, <3>1
      <4>1. gv[x] \in Int /\ Tally(gv, s \ {x}) \in Int /\ Tally(gv, s) = gv[x] + Tally(gv, s \ {x})
        BY ONLY <4>0 DEF Splits
      <4>2. hv[x] \in Int /\ Tally(hv, s \ {x}) \in Int /\ Tally(hv, s) = hv[x] + Tally(hv, s \ {x})
        BY ONLY <4>0 DEF Splits
      <4> QED
        BY ONLY <4>1, <4>2
    <3>4. q * (Tally(h, s \ {x}) - Tally(g, s \ {x})) <= Tally(hv, s \ {x}) - Tally(gv, s \ {x})
      BY <3>1
    <3>5. q * (h[x] - g[x]) <= hv[x] - gv[x]
      BY <1>4, <3>1
    <3> DEFINE P(n, b, m, a, z, d, y, c) == q * ((n + b) - (m + a)) <= (z + d) - (y + c)
    <3>6. P(h[x], Tally(h, s \ {x}), g[x], Tally(g, s \ {x}),
            hv[x], Tally(hv, s \ {x}), gv[x], Tally(gv, s \ {x}))
      BY <3>2, <3>3, <3>4, <3>5, Together
    <3>7. q * (Tally(h, s) - Tally(g, s)) <= Tally(hv, s) - Tally(gv, s)
      BY ONLY <3>2, <3>3, <3>6
    <3> QED
      BY <3>7
  <2> QED
    BY <2>1, <2>2
<1>6. ASSUME NEW s \in SUBSET D, \A x \in s : s \ {x} \in U PROVE s \in U
  <2>1. CASE s = {}
    <3>1. Tally(g, s) = 0 /\ Tally(gv, s) = 0
      BY <1>1, <1>3, <2>1
    <3>2. q * 0 = 0
      OBVIOUS
    <3> QED
      BY <3>1, <3>2
  <2>2. CASE s # {}
    <3>1. PICK x \in s : s \ {x} \in U
      BY <1>6, <2>2
    <3> DEFINE a == Tally(g, s \ {x})
               c == Tally(gv, s \ {x})
               j == g[x]
               z == gv[x]
    <3>2. /\ j \in Int /\ a \in Int /\ Tally(g, s) = j + a
          /\ z \in Int /\ c \in Int /\ Tally(gv, s) = z + c
      <4>0. Splits(g, s) /\ Splits(gv, s) /\ x \in s
        BY <1>3c, <3>1
      <4>1. j \in Int /\ a \in Int /\ Tally(g, s) = j + a
        BY ONLY <4>0 DEF Splits
      <4>2. z \in Int /\ c \in Int /\ Tally(gv, s) = z + c
        BY ONLY <4>0 DEF Splits
      <4> QED
        BY ONLY <4>1, <4>2
    <3>3. c <= q * a
      BY <3>1
    <3>4. z <= q * j
      BY <1>4, <3>1
    <3> HIDE DEF a, c, j, z
    <3>5. q * (j + a) = q * j + q * a /\ q * j \in Int /\ q * a \in Int
      BY <3>2
    <3>6. z + c <= q * (j + a)
      BY <3>2, <3>3, <3>4, <3>5
    <3> QED
      BY <3>2, <3>6
  <2> QED
    BY <2>1, <2>2
<1> HIDE DEF T, U
<1>7. \A s \in SUBSET D : s \in T /\ s \in U
  <2>1. \A s \in SUBSET D : s \in T
    BY <1>5, SetBySet
  <2>2. \A s \in SUBSET D : s \in U
    BY <1>6, SetBySet
  <2> QED
    BY <2>1, <2>2
<1> QED
  BY <1>7 DEF T, U, gv, hv

\* What a taking costs, as the walk ranks it: takings are compared by it on either side.
LEMMA RankedCost ==
  ASSUME NEW levels, Booked(levels), NEW side, NEW g \in [DOMAIN levels -> Nat]
  PROVE  /\ Tally([i \in DOMAIN levels |-> g[i] * Rank(levels, side, i)], DOMAIN levels)
              = Ranked(Tally([i \in DOMAIN levels |-> g[i] * levels[i].price], DOMAIN levels), side)
         /\ Tally([i \in DOMAIN levels |-> g[i] * levels[i].price], DOMAIN levels) \in Int
<1> DEFINE D == DOMAIN levels
           gv == [i \in D |-> g[i] * Rank(levels, side, i)]
           gp == [i \in D |-> g[i] * levels[i].price]
<1>1. IsFiniteSet(D) /\ \A i \in D : levels[i].price \in Nat /\ g[i] \in Nat
  BY DEF Booked
<1>2. \A m, n \in Nat : m * n \in Int /\ m * (-n) = -(m * n)
  OBVIOUS
<1>3. gp \in [D -> Int]
  BY <1>1, <1>2
<1>4. Tally(gp, D) \in Int
  <2> HIDE DEF gp
  <2> QED
    BY <1>1, <1>3, Tallies
<1>5. CASE side = "BUY"
  <2>1. gv = gp
    BY <1>5 DEF Rank, Ranked
  <2> QED
    BY <1>4, <1>5, <2>1 DEF Ranked
<1>6. CASE side # "BUY"
  <2>1. \A i \in D : gv[i] = -gp[i] /\ gp[i] \in Int
    <3>1. \A i \in D : gv[i] = g[i] * (-levels[i].price)
      BY <1>6 DEF Rank, Ranked
    <3>2. \A i \in D : gp[i] = g[i] * levels[i].price
      OBVIOUS
    <3> HIDE DEF gv, gp
    <3> QED
      BY <1>1, <1>2, <3>1, <3>2
  <2>2. gv \in [D -> Int]
    <3>1. \A i \in D : gv[i] \in Int
      <4> HIDE DEF gv, gp
      <4> QED
        BY <2>1
    <3> QED
      BY <3>1
  <2> HIDE DEF gv, gp
  <2>3. Tally(gv, D) = -Tally(gp, D)
    BY <1>1, <1>3, <2>1, <2>2, TallyNegated
  <2> QED
    BY <1>4, <1>6, <2>3 DEF Ranked, gv, gp
<1> QED
  BY <1>5, <1>6

\* What a walk comes to: some rank q is the most a unit of it costs, and the least a unit more
\* would; and a walk that leaves some of the size unfilled took all there is.
Best(end, levels, size, side, q, g) ==
    /\ end \in Walks /\ end.filled <= size /\ q \in Int /\ g \in [DOMAIN levels -> Nat]
    /\ \A i \in DOMAIN levels : g[i] <= levels[i].size
    /\ Tally(g, DOMAIN levels) = end.filled
    /\ Tally([i \in DOMAIN levels |-> g[i] * levels[i].price], DOMAIN levels) = end.cost
    /\ Ranked(end.cost, side) <= q * end.filled
    /\ \A h \in [DOMAIN levels -> Nat] : (\A i \in DOMAIN levels : h[i] <= levels[i].size) =>
         /\ q * (Tally(h, DOMAIN levels) - end.filled)
              <= Ranked(Tally([i \in DOMAIN levels |-> h[i] * levels[i].price], DOMAIN levels), side)
                   - Ranked(end.cost, side)
         /\ end.filled < size => Tally(h, DOMAIN levels) <= end.filled

\* The walk over a side is the best the side offers.
LEMMA WalkIsBest ==
  ASSUME NEW levels, Booked(levels), DOMAIN levels # {}, NEW size \in Nat, size > 0, NEW side
  PROVE  \E q, g : Best(Walked(levels, size, side)[DOMAIN levels], levels, size, side, q, g)
<1> DEFINE D == DOMAIN levels
           end == Walked(levels, size, side)[D]
           room == [i \in D |-> levels[i].size]
           v == [i \in D |-> Rank(levels, side, i)]
<1>1. PICK g : Greedy(g, D, levels, size, side, end)
  BY WalkIsGreedy
<1> HIDE DEF end
<1>2. PICK k \in D : \A i \in D :
         /\ g[i] > 0 => Rank(levels, side, i) <= Rank(levels, side, k)
         /\ g[i] < levels[i].size => Rank(levels, side, k) <= Rank(levels, side, i)
  BY <1>1 DEF Greedy
<1> DEFINE q == Rank(levels, side, k)
<1>3. IsFiniteSet(D) /\ \A i \in D : levels[i].price \in Nat /\ levels[i].size \in Nat
  BY DEF Booked
<1>4. q \in Int /\ v \in [D -> Int] /\ room \in [D -> Nat]
  BY <1>3 DEF Rank, Ranked
<1>5. /\ g \in [D -> Nat] /\ end \in Walks /\ \A i \in D : g[i] <= levels[i].size
      /\ end.filled = Tally(g, D) /\ end.filled <= size
      /\ end.cost = Tally([i \in D |-> g[i] * levels[i].price], D)
      /\ end.filled < size => \A i \in D : g[i] = levels[i].size
  BY <1>1 DEF Greedy
<1>6. \A i \in D : v[i] = Rank(levels, side, i) /\ room[i] = levels[i].size
  OBVIOUS
<1> HIDE DEF q, v, room
<1>7. \A i \in D : g[i] <= room[i] /\ (g[i] > 0 => v[i] <= q) /\ (g[i] < room[i] => q <= v[i])
  BY <1>2, <1>5, <1>6 DEF q
<1>8. \A f \in [D -> Nat] : Tally([i \in D |-> f[i] * v[i]], D)
        = Ranked(Tally([i \in D |-> f[i] * levels[i].price], D), side)
  <2> SUFFICES ASSUME NEW f \in [D -> Nat]
               PROVE  Tally([i \in D |-> f[i] * v[i]], D)
                        = Ranked(Tally([i \in D |-> f[i] * levels[i].price], D), side)
    OBVIOUS
  <2>1. [i \in D |-> f[i] * v[i]] = [i \in D |-> f[i] * Rank(levels, side, i)]
    BY <1>6
  <2> QED
    BY <2>1, RankedCost
<1>9. ASSUME NEW h \in [D -> Nat], \A i \in D : h[i] <= levels[i].size
      PROVE  /\ q * (Tally(h, D) - end.filled)
                   <= Ranked(Tally([i \in D |-> h[i] * levels[i].price], D), side)
                        - Ranked(end.cost, side)
             /\ end.filled < size => Tally(h, D) <= end.filled
             /\ Ranked(end.cost, side) <= q * end.filled
  <2>1. \A i \in D : h[i] <= room[i]
    BY <1>6, <1>9
  <2>2. /\ q * (Tally(h, D) - Tally(g, D))
              <= Tally([i \in D |-> h[i] * v[i]], D) - Tally([i \in D |-> g[i] * v[i]], D)
        /\ Tally([i \in D |-> g[i] * v[i]], D) <= q * Tally(g, D)
    BY <1>3, <1>4, <1>5, <1>7, <2>1, GreedyIsBest
  <2>3. ASSUME end.filled < size PROVE Tally(h, D) <= end.filled
    <3>1. \A i \in D : h[i] <= g[i]
      BY <1>5, <1>9, <2>3
    <3>2. h \in [D -> Int] /\ g \in [D -> Int]
      BY <1>5
    <3>3. Tally(h, D) <= Tally(g, D)
      BY <1>3, <3>1, <3>2, TallyGrows
    <3> QED
      BY <1>5, <3>3
  <2> QED
    BY <1>5, <1>8, <2>2, <2>3
<1>10. Best(end, levels, size, side, q, g)
  <2>1. Ranked(end.cost, side) <= q * end.filled
    BY <1>5, <1>9
  <2> QED
    BY <1>4, <1>5, <1>9, <2>1 DEF Best
<1> QED
  BY <1>10 DEF end

\* Nothing is asked of the walk for nothing.
LEMMA WalkOfNothing ==
  ASSUME NEW levels, Booked(levels), NEW side
  PROVE  Walked(levels, 0, side)[DOMAIN levels] = NoLiquidity
<1> DEFINE D == DOMAIN levels
           walk == Walked(levels, 0, side)
           T == {s \in SUBSET D : walk[s] = NoLiquidity}
<1>1. IsFiniteSet(D)
  BY DEF Booked
<1>2. \A s \in SUBSET D : walk[s] = Turn(walk, s, levels, 0, side)
  BY WalkedTurns
<1> HIDE DEF walk
<1>3. ASSUME NEW s \in SUBSET D, \A x \in s : s \ {x} \in T PROVE s \in T
  <2>1. CASE s = {}
    BY <1>2, <2>1 DEF Turn
  <2>2. CASE s # {}
    <3>1. LastOf(s, levels, side) \in s
      BY <2>2, LastIs
    <3>2. walk[s \ {LastOf(s, levels, side)}] = NoLiquidity
      BY <1>3, <3>1
    <3>3. walk[s] = Taking(NoLiquidity, levels[LastOf(s, levels, side)], 0)
      BY <1>2, <2>2, <3>2 DEF Turn
    <3>4. walk[s] = NoLiquidity
      BY <3>3 DEF Taking, NoLiquidity
    <3> QED
      BY <3>4
  <2> QED
    BY <2>1, <2>2
<1> HIDE DEF T
<1>4. \A s \in SUBSET D : s \in T
  <2> HIDE DEF D
  <2> QED
    BY <1>1, <1>3, SetBySet
<1> QED
  BY <1>4 DEF T, walk

\* What is at most as much a number of times over is at most as much.
LEMMA Times ==
  ASSUME NEW m \in Int, NEW n \in Int, NEW f \in Int, f > 0, f * m <= f * n
  PROVE  m <= n
<1> SUFFICES ASSUME m > n PROVE FALSE
  OBVIOUS
<1>1. PICK a \in Nat : m = n + a /\ a > 0
  <2>1. m - n \in Nat /\ m = n + (m - n) /\ m - n > 0
    OBVIOUS
  <2> QED
    BY <2>1
<1>2. f * m = f * n + f * a /\ f * n \in Int /\ f * a \in Int /\ f * a > 0
  BY <1>1
<1> QED
  BY <1>2

\* A taking of f for c whose units cost at most q, of one for d that takes more, at q or more for
\* each unit more: it costs at most as much a unit.
LEMMA CheaperUnits ==
  ASSUME NEW c \in Int, NEW d \in Int, NEW q \in Int, NEW f \in Nat, NEW g \in Nat, f <= g,
         c <= q * f, q * (g - f) <= d - c
  PROVE  c * g <= d * f
<1>1. PICK a \in Nat : g = f + a
  <2>1. g - f \in Nat /\ g = f + (g - f)
    OBVIOUS
  <2> QED
    BY <2>1
<1>2. PICK b \in Nat : q * f = c + b
  <2>1. q * f - c \in Nat /\ q * f = c + (q * f - c)
    OBVIOUS
  <2> QED
    BY <2>1
<1>3. PICK e \in Nat : d = (c + q * a) + e
  <2>1. q * a <= d - c /\ q * a \in Int
    BY <1>1
  <2> DEFINE z == q * a
  <2>2. z \in Int /\ z <= d - c
    BY <2>1
  <2> HIDE DEF z
  <2>3. d - (c + z) \in Nat /\ d = (c + z) + (d - (c + z))
    BY <2>2
  <2> QED
    BY <2>3 DEF z
<1>4. c * g = c * f + c * a /\ c * f \in Int /\ c * a \in Int
  BY <1>1
<1>5. d * f = c * f + (q * a) * f + e * f /\ e * f >= 0 /\ e * f \in Int /\ (q * a) * f \in Int
  BY <1>3
<1>6. (q * a) * f = (q * f) * a /\ (c + b) * a = c * a + b * a /\ b * a >= 0 /\ b * a \in Int
  OBVIOUS
<1>7. (q * a) * f = c * a + b * a
  BY <1>2, <1>6
<1> QED
  BY <1>4, <1>5, <1>6, <1>7

\* The smaller taking is no further from the midpoint: k is twice the midpoint as the side
\* ranks it, t twice the midpoint, l the bound.
LEMMA SmallerPasses ==
  ASSUME NEW c \in Int, NEW d \in Int, NEW f \in Nat, NEW g \in Nat, f > 0, g > 0,
         c * g <= d * f, NEW k \in Int, NEW t \in Int, NEW l \in Int,
         (2 * d - g * k) * 10000 <= l * g * t
  PROVE  (2 * c - f * k) * 10000 <= l * f * t
<1> DEFINE x == (2 * c - f * k) * 10000
           y == l * f * t
           xg == (2 * d - g * k) * 10000
           yg == l * g * t
<1>1. x \in Int /\ y \in Int /\ xg \in Int /\ yg \in Int
  OBVIOUS
<1>2. g * x = 20000 * (c * g) - 10000 * ((f * g) * k)
  OBVIOUS
<1>3. f * xg = 20000 * (d * f) - 10000 * ((f * g) * k)
  OBVIOUS
<1>4. c * g \in Int /\ d * f \in Int /\ (f * g) * k \in Int
  OBVIOUS
<1>5. g * x <= f * xg
  <2> DEFINE m == c * g
             n == d * f
             o == (f * g) * k
  <2>1. m \in Int /\ n \in Int /\ o \in Int /\ m <= n
    OBVIOUS
  <2>2. g * x = 20000 * m - 10000 * o /\ f * xg = 20000 * n - 10000 * o
    BY <1>2, <1>3
  <2> HIDE DEF m, n, o, x, xg
  <2> QED
    BY <2>1, <2>2
<1>6. f * yg = g * y
  OBVIOUS
<1>7. xg <= yg
  OBVIOUS
<1> HIDE DEF x, y, xg, yg
<1>8. f * xg <= f * yg
  <2>1. PICK a \in Nat : yg = xg + a
    <3>1. yg - xg \in Nat /\ yg = xg + (yg - xg)
      BY <1>1, <1>7
    <3> QED
      BY <3>1
  <2>2. f * yg = f * xg + f * a /\ f * a >= 0 /\ f * a \in Int /\ f * xg \in Int
    BY <1>1, <2>1
  <2> QED
    BY <2>2
<1>9. g * x <= g * y
  <2>1. g * x \in Int /\ g * y \in Int /\ f * xg \in Int
    BY <1>1
  <2> QED
    BY <1>5, <1>6, <1>8, <2>1
<1>10. x <= y
  BY <1>1, <1>9, Times
<1> QED
  BY <1>10 DEF x, y

\* The side consumed is one the book may hold.
BookOK == book \in [bids : Sides \cup {<<>>}, asks : Sides]

\* A side with levels on it has prices, and a first one.
LEMMA SideHasLevels ==
  ASSUME NEW levels \in Sides
  PROVE  DOMAIN levels # {} /\ Head(levels).price \in Nat
<1>1. PICK n \in 1..MaxLevels : levels \in [1..n -> [price : LevelPrices, size : LevelSizes]]
  BY DEF Sides
<1>2. n \in Nat /\ n >= 1 /\ DOMAIN levels = 1..n
  BY <1>1, SlippageAssumption
<1>3. 1 \in 1..n
  BY <1>2
<1>4. levels[1] \in [price : LevelPrices, size : LevelSizes]
  BY <1>1, <1>3
<1>5. levels[1].price \in Nat
  <2>1. \A x \in LevelPrices : x \in Nat
    BY SlippageAssumption
  <2>2. levels[1].price \in LevelPrices
    BY <1>4
  <2> QED
    BY <2>1, <2>2
<1>6. levels \in Seq([price : LevelPrices, size : LevelSizes]) /\ levels # <<>>
  <2> DEFINE L == [price : LevelPrices, size : LevelSizes]
  <2>1. levels \in [1..n -> L] /\ n \in Nat
    BY <1>1, <1>2
  <2> HIDE DEF L
  <2>2. levels \in Seq(L)
    BY <2>1
  <2> QED
    BY <1>2, <1>3, <2>2 DEF L
<1>7. Head(levels) = levels[1]
  BY <1>6
<1> QED
  BY <1>2, <1>3, <1>5, <1>7

\* estimate_slippage, when it finds liquidity: the walk over the side, best the side offers.
LEMMA EstimateIs ==
  ASSUME BookOK, NEW size \in Nat, NEW side \in {"BUY", "SELL"}
  PROVE  /\ EstimateSlippage(size, side) \in Walks
         /\ size > 0 /\ book.bids # <<>> =>
              \E q, g, end :
                /\ Best(end, Consumed(side), size, side, q, g)
                /\ EstimateSlippage(size, side)
                     = IF end.filled <= 0 THEN NoLiquidity ELSE [end EXCEPT !.sufficient = end.filled >= size]
         /\ EstimateSlippage(size, side) # NoLiquidity => size > 0 /\ book.bids # <<>>
<1> DEFINE levels == Consumed(side)
           end == Walked(levels, size, side)[DOMAIN levels]
<1>1. levels \in Sides \cup {<<>>} /\ book.asks \in Sides /\ book.bids \in Sides \cup {<<>>}
  BY DEF BookOK, Consumed
<1>2. Booked(levels)
  BY <1>1, SidesAreBooked
<1>3. book.asks # <<>>
  <2>1. DOMAIN book.asks # {}
    BY <1>1, SideHasLevels
  <2> QED
    BY <2>1
<1>4. NoLiquidity \in Walks
  BY DEF NoLiquidity, Walks
<1>5. EstimateSlippage(size, side)
        = IF book.bids = <<>> \/ end.filled <= 0 THEN NoLiquidity
          ELSE [end EXCEPT !.sufficient = end.filled >= size]
  BY <1>3 DEF EstimateSlippage
<1>6. CASE book.bids = <<>>
  BY <1>4, <1>5, <1>6
<1>7. CASE book.bids # <<>> /\ size = 0
  <2>1. end = NoLiquidity
    BY <1>2, <1>7, WalkOfNothing
  <2> HIDE DEF end
  <2>2. EstimateSlippage(size, side) = NoLiquidity
    BY <1>5, <2>1 DEF NoLiquidity
  <2> QED
    BY <1>4, <1>7, <2>2
<1>8. CASE book.bids # <<>> /\ size > 0
  <2>1. levels \in Sides
    BY <1>1, <1>8 DEF Consumed
  <2>2. DOMAIN levels # {}
    BY <2>1, SideHasLevels
  <2>3. PICK q, g : Best(end, levels, size, side, q, g)
    BY <1>2, <1>8, <2>2, WalkIsBest
  <2> HIDE DEF end, levels
  <2>4. end \in Walks
    BY <2>3 DEF Best
  <2>5. [end EXCEPT !.sufficient = end.filled >= size] \in Walks
    <3>1. end.filled \in Int /\ (end.filled >= size) \in BOOLEAN
      BY <2>4 DEF Walks
    <3> QED
      BY <2>4, <3>1 DEF Walks
  <2>6. EstimateSlippage(size, side) \in Walks
    BY <1>4, <1>5, <2>5
  <2>7. EstimateSlippage(size, side)
          = IF end.filled <= 0 THEN NoLiquidity ELSE [end EXCEPT !.sufficient = end.filled >= size]
    BY <1>5, <1>8
  <2> QED
    BY <1>8, <2>3, <2>6, <2>7 DEF levels
<1> QED
  BY <1>6, <1>7, <1>8

\* The least, and the greatest, of a set of numbers.
LEMMA LeastIs ==
  ASSUME NEW S, \A x \in S : x \in Int, NEW m \in S
  PROVE  /\ (\A x \in S : m <= x) => m = Min(S)
         /\ (\A x \in S : x <= m) => m = Max(S)
<1>1. ASSUME \A x \in S : m <= x PROVE m = Min(S)
  <2>1. Min(S) \in S /\ \A x \in S : Min(S) <= x
    BY <1>1 DEF Min
  <2> QED
    BY <1>1, <2>1
<1>2. ASSUME \A x \in S : x <= m PROVE m = Max(S)
  <2>1. Max(S) \in S /\ \A x \in S : Max(S) >= x
    BY <1>2 DEF Max
  <2> QED
    BY <1>2, <2>1
<1> QED
  BY <1>1, <1>2

\* What the walk comes to costs the least, or brings in the most, of the ways to fill as much.
LEMMA BestCosts ==
  ASSUME NEW levels, Booked(levels), NEW size \in Nat, NEW side \in {"BUY", "SELL"},
         NEW end, NEW q, NEW g, Best(end, levels, size, side, q, g)
  PROVE  end.cost = IF side = "BUY" THEN Min(CostsOf(levels, end.filled))
                    ELSE Max(CostsOf(levels, end.filled))
<1> DEFINE D == DOMAIN levels
           F == end.filled
           cost(h) == Tally([i \in D |-> h[i] * levels[i].price], D)
<1>1. /\ g \in [D -> Nat] /\ \A i \in D : g[i] <= levels[i].size
      /\ Tally(g, D) = F /\ cost(g) = end.cost /\ F \in Nat /\ end.cost \in Nat /\ q \in Int
  BY DEF Best, Walks
<1>2. IsFiniteSet(D)
  BY DEF Booked
<1>3. \A h \in [D -> Nat] : cost(h) \in Int
  BY RankedCost
<1>4. \A h \in Takes(levels, F) : /\ h \in [D -> Nat] /\ \A i \in D : h[i] <= levels[i].size
                                  /\ Tally(h, D) = F
  <2> SUFFICES ASSUME NEW h \in Takes(levels, F)
               PROVE  /\ h \in [D -> Nat] /\ \A i \in D : h[i] <= levels[i].size
                      /\ Tally(h, D) = F
    OBVIOUS
  <2>1. h \in [D -> 0..F] /\ (\A i \in D : h[i] <= levels[i].size) /\ Across(h) = F
    BY DEF Takes
  <2>2. Across(h) = Tally(h, D)
    BY <2>1 DEF Across, Tally
  <2>3. h \in [D -> Nat]
    BY <1>1, <2>1
  <2> QED
    BY <2>1, <2>2, <2>3
<1>5. g \in Takes(levels, F)
  <2>1. \A i \in D : g[i] <= F
    BY <1>1, <1>2, MemberTally
  <2>2. g \in [D -> 0..F]
    <3> HIDE DEF D, F
    <3> QED
      BY <1>1, <2>1
  <2>3. Across(g) = Tally(g, D)
    BY <2>2 DEF Across, Tally
  <2> QED
    BY <1>1, <2>2, <2>3 DEF Takes
<1>6. \A h : CostOf(h, levels) = cost(h)
  BY DEF CostOf, Across, Tally
<1> DEFINE costs == CostsOf(levels, F)
<1>7. end.cost \in costs
  <2> HIDE DEF cost, F
  <2> QED
    BY <1>1, <1>5, <1>6 DEF CostsOf
<1>8. ASSUME NEW c \in costs PROVE c \in Int /\ Ranked(end.cost, side) <= Ranked(c, side)
  <2>1. PICK h \in Takes(levels, F) : c = CostOf(h, levels)
    BY <1>8 DEF CostsOf
  <2>2. /\ h \in [D -> Nat] /\ \A i \in D : h[i] <= levels[i].size
        /\ Tally(h, D) = F /\ c = cost(h) /\ c \in Int
    BY <1>3, <1>4, <1>6, <2>1
  <2>3. q * (Tally(h, D) - F) <= Ranked(c, side) - Ranked(end.cost, side)
    BY <2>2 DEF Best
  <2>4. Tally(h, D) - F = 0
    BY <1>1, <2>2
  <2>5. q * 0 = 0
    BY <1>1
  <2>6. 0 <= Ranked(c, side) - Ranked(end.cost, side)
    BY <2>3, <2>4, <2>5
  <2>7. Ranked(c, side) \in Int /\ Ranked(end.cost, side) \in Int
    BY <1>1, <2>2 DEF Ranked
  <2> QED
    BY <2>2, <2>6, <2>7
<1> HIDE DEF costs
<1>9. \A c \in costs : /\ c \in Int
                       /\ side = "BUY" => end.cost <= c
                       /\ side # "BUY" => c <= end.cost
  BY <1>1, <1>8 DEF Ranked
<1> QED
  BY <1>7, <1>9, LeastIs DEF costs

\* check_slippage_ok in terms of the ranked cost, the same for either side.
LEMMA CheckIs ==
  ASSUME BookOK, book.bids # <<>>, NEW size \in Nat, NEW side \in {"BUY", "SELL"}
  PROVE  LET e == EstimateSlippage(size, side)
             t == Head(book.bids).price + Head(book.asks).price
         IN  /\ t \in Int
             /\ CheckSlippageOk(size, side) <=>
                  e.sufficient /\ (2 * Ranked(e.cost, side) - e.filled * Ranked(t, side)) * 10000
                                     <= MaxSlippage * e.filled * t
<1> DEFINE e == EstimateSlippage(size, side)
           t == Head(book.bids).price + Head(book.asks).price
           c == e.cost
           f == e.filled
<1>1. book.bids \in Sides /\ book.asks \in Sides
  BY DEF BookOK
<1>2. t \in Int
  <2>1. Head(book.bids).price \in Nat /\ Head(book.asks).price \in Nat
    BY <1>1, SideHasLevels
  <2> QED
    BY <2>1
<1>3. c \in Int /\ f \in Int
  <2>1. e \in Walks
    BY EstimateIs
  <2> QED
    BY <2>1 DEF Walks
<1>4. CheckSlippageOk(size, side) <=>
        e.sufficient /\ (IF side = "BUY" THEN 2 * c - f * t ELSE f * t - 2 * c) * 10000
                           <= MaxSlippage * f * t
  BY DEF CheckSlippageOk
<1> HIDE DEF e, t, c, f
<1>5. (IF side = "BUY" THEN 2 * c - f * t ELSE f * t - 2 * c)
         = 2 * Ranked(c, side) - f * Ranked(t, side)
  <2>1. CASE side = "BUY"
    BY <2>1 DEF Ranked
  <2>2. CASE side # "BUY"
    <3>1. f * (-t) = -(f * t) /\ f * t \in Int
      BY <1>2, <1>3
    <3> QED
      BY <1>3, <2>2, <3>1 DEF Ranked
  <2> QED
    BY <2>1, <2>2
<1>6. CheckSlippageOk(size, side) <=>
        e.sufficient /\ (2 * Ranked(c, side) - f * Ranked(t, side)) * 10000 <= MaxSlippage * f * t
  BY <1>4, <1>5
<1> QED
  BY <1>2, <1>6 DEF e, t, c, f

\* An order that passes the check passes it when it is made smaller.
LEMMA SmallerOrderPasses ==
  ASSUME BookOK, NEW size \in Nat, NEW side \in {"BUY", "SELL"}, CheckSlippageOk(size, side),
         NEW less \in 1..size
  PROVE  CheckSlippageOk(less, side)
<1> DEFINE levels == Consumed(side)
           D == DOMAIN levels
           E(n) == EstimateSlippage(n, side)
           t == Head(book.bids).price + Head(book.asks).price
<1>1. less \in Nat /\ less > 0 /\ less <= size /\ size > 0
  OBVIOUS
<1>2. E(size).sufficient
  BY DEF CheckSlippageOk
<1>3. E(size) # NoLiquidity /\ book.bids # <<>>
  <2>1. E(size) # NoLiquidity
    BY <1>2 DEF NoLiquidity
  <2> QED
    BY <2>1, EstimateIs
<1>4. PICK q2, g2, end2 :
        /\ Best(end2, levels, size, side, q2, g2)
        /\ E(size) = IF end2.filled <= 0 THEN NoLiquidity ELSE [end2 EXCEPT !.sufficient = end2.filled >= size]
  BY <1>1, <1>3, EstimateIs
<1>5. PICK q1, g1, end1 :
        /\ Best(end1, levels, less, side, q1, g1)
        /\ E(less) = IF end1.filled <= 0 THEN NoLiquidity ELSE [end1 EXCEPT !.sufficient = end1.filled >= less]
  BY <1>1, <1>3, EstimateIs
<1>6. \A n \in Nat : LET e == E(n) IN
        /\ t \in Int
        /\ CheckSlippageOk(n, side) <=>
             e.sufficient /\ (2 * Ranked(e.cost, side) - e.filled * Ranked(t, side)) * 10000
                                <= MaxSlippage * e.filled * t
  BY <1>3, CheckIs
<1> HIDE DEF E, t, levels
<1>7. /\ end2 \in Walks /\ end2.filled \in Nat /\ end2.cost \in Nat /\ end2.filled <= size
      /\ end1 \in Walks /\ end1.filled \in Nat /\ end1.cost \in Nat /\ end1.filled <= less
      /\ q1 \in Int
  BY <1>4, <1>5 DEF Best, Walks
<1>8. E(size) = [end2 EXCEPT !.sufficient = end2.filled >= size]
  BY <1>3, <1>4
<1>9. E(size).cost = end2.cost /\ E(size).filled = end2.filled /\ end2.filled = size
  <2>1. /\ E(size).sufficient <=> end2.filled >= size
        /\ E(size).cost = end2.cost /\ E(size).filled = end2.filled
    BY <1>7, <1>8 DEF Walks
  <2> QED
    BY <1>2, <1>7, <2>1
<1>10. /\ g2 \in [D -> Nat] /\ \A i \in D : g2[i] <= levels[i].size
       /\ Tally(g2, D) = size
       /\ Tally([i \in D |-> g2[i] * levels[i].price], D) = end2.cost
  BY <1>4, <1>9 DEF Best
<1>11. /\ q1 * (size - end1.filled) <= Ranked(end2.cost, side) - Ranked(end1.cost, side)
       /\ end1.filled < less => size <= end1.filled
       /\ Ranked(end1.cost, side) <= q1 * end1.filled
  <2>1. \A h \in [D -> Nat] : (\A i \in D : h[i] <= levels[i].size) =>
         /\ q1 * (Tally(h, D) - end1.filled)
              <= Ranked(Tally([i \in D |-> h[i] * levels[i].price], D), side) - Ranked(end1.cost, side)
         /\ end1.filled < less => Tally(h, D) <= end1.filled
    BY <1>5 DEF Best
  <2>2. Ranked(end1.cost, side) <= q1 * end1.filled
    BY <1>5 DEF Best
  <2> HIDE DEF D
  <2> QED
    BY <1>10, <2>1, <2>2
<1>12. end1.filled = less
  BY <1>1, <1>7, <1>11
<1>13. E(less) = [end1 EXCEPT !.sufficient = TRUE]
  <2>1. ~ (end1.filled <= 0) /\ (end1.filled >= less) = TRUE
    BY <1>1, <1>12
  <2> QED
    BY <1>5, <2>1
<1>14. E(less).sufficient /\ E(less).cost = end1.cost /\ E(less).filled = less
  BY <1>7, <1>12, <1>13 DEF Walks
<1> DEFINE c == Ranked(end1.cost, side)
           d == Ranked(end2.cost, side)
           k == Ranked(t, side)
<1>15. c \in Int /\ d \in Int /\ k \in Int /\ t \in Int /\ MaxSlippage \in Int
  BY <1>6, <1>7, SlippageAssumption DEF Ranked
<1>16. c <= q1 * less /\ q1 * (size - less) <= d - c
  BY <1>11, <1>12
<1>17. (2 * d - size * k) * 10000 <= MaxSlippage * size * t
  BY <1>6, <1>9
<1>18. CheckSlippageOk(less, side) <=> (2 * c - less * k) * 10000 <= MaxSlippage * less * t
  BY <1>1, <1>6, <1>14
<1> HIDE DEF c, d, k
<1>19. c * size <= d * less
  BY <1>1, <1>7, <1>15, <1>16, CheaperUnits
<1>20. (2 * c - less * k) * 10000 <= MaxSlippage * less * t
  BY <1>1, <1>15, <1>17, <1>19, SmallerPasses
<1> QED
  BY <1>18, <1>20

\* The book does not change, and the estimate is of what was asked.
SlippageInv ==
    /\ SlippageTypeOK
    /\ BookOK
    /\ estimate = NoEstimate \/ estimate = EstimateSlippage(asked.size, asked.side)

\* estimate_slippage: its result has its type, and is what the book gives for the order.
LEMMA SlippageStep == ASSUME SlippageInv, [SlippageNext]_slippageVars PROVE SlippageInv'
<1>1. CASE UNCHANGED slippageVars
  <2>1. book' = book /\ asked' = asked /\ estimate' = estimate
    BY <1>1 DEF slippageVars
  <2>2. EstimateSlippage(asked.size, asked.side)' = EstimateSlippage(asked.size, asked.side)
    BY <2>1 DEF EstimateSlippage, Consumed
  <2> QED
    BY <2>1, <2>2 DEF SlippageInv, SlippageTypeOK, BookOK
<1>2. CASE SlippageNext
  <2>1. PICK size \in 0..MaxOrder, side \in {"BUY", "SELL"} : Estimate(size, side)
    BY <1>2 DEF SlippageNext
  <2>2. /\ asked' = [size |-> size, side |-> side] /\ book' = book
        /\ estimate' = EstimateSlippage(size, side)
    BY <2>1 DEF Estimate
  <2>3. EstimateSlippage(asked.size, asked.side)' = EstimateSlippage(size, side)
    BY <2>2 DEF EstimateSlippage, Consumed
  <2>4. size \in Nat /\ asked' \in [size : 0..MaxOrder, side : {"BUY", "SELL"}]
    BY <2>2, SlippageAssumption
  <2>5. EstimateSlippage(size, side) \in Walks
    BY <2>4, EstimateIs DEF SlippageInv
  <2> QED
    BY <2>2, <2>3, <2>4, <2>5 DEF SlippageInv, SlippageTypeOK, BookOK, Walks
<1> QED
  BY <1>1, <1>2

\* Nothing is estimated before the call.
LEMMA SlippageInitially == ASSUME SlippageInit PROVE SlippageInv
<1>1. MaxOrder \in Nat
  BY SlippageAssumption
<1> QED
  BY <1>1 DEF SlippageInit, SlippageInv, SlippageTypeOK, BookOK

\* Whatever the book, the order its levels arrive in and the order asked about.
LEMMA SlippageSafe == ASSUME SlippageInv PROVE EstimateIsBestExecution
<1> SUFFICES ASSUME estimate # NoEstimate, estimate # NoLiquidity
             PROVE  /\ estimate.cost = IF asked.side = "BUY"
                                       THEN Min(CostsOf(Consumed(asked.side), estimate.filled))
                                       ELSE Max(CostsOf(Consumed(asked.side), estimate.filled))
                    /\ CheckSlippageOk(asked.size, asked.side) =>
                         \A less \in 1..asked.size : CheckSlippageOk(less, asked.side)
  BY DEF EstimateIsBestExecution
<1>1. asked.size \in Nat /\ asked.side \in {"BUY", "SELL"} /\ BookOK
  BY SlippageAssumption DEF SlippageInv, SlippageTypeOK
<1>2. estimate = EstimateSlippage(asked.size, asked.side)
  BY DEF SlippageInv
<1> DEFINE levels == Consumed(asked.side)
           size == asked.size
           side == asked.side
<1>3. PICK q, g, end :
        /\ Best(end, levels, size, side, q, g)
        /\ estimate = IF end.filled <= 0 THEN NoLiquidity ELSE [end EXCEPT !.sufficient = end.filled >= size]
  BY <1>1, <1>2, EstimateIs
<1>4. estimate.cost = end.cost /\ estimate.filled = end.filled
  <2>1. end \in Walks
    BY <1>3 DEF Best
  <2>2. estimate = [end EXCEPT !.sufficient = end.filled >= size]
    BY <1>3
  <2> QED
    BY <2>1, <2>2 DEF Walks
<1>5. levels \in Sides \cup {<<>>}
  BY <1>1 DEF BookOK, Consumed
<1>6. Booked(levels)
  BY <1>5, SidesAreBooked
<1> HIDE DEF levels, size, side
<1>7. end.cost = IF side = "BUY" THEN Min(CostsOf(levels, end.filled))
                 ELSE Max(CostsOf(levels, end.filled))
  BY <1>1, <1>3, <1>6, BestCosts DEF size, side
<1>8. CheckSlippageOk(asked.size, asked.side) =>
        \A less \in 1..asked.size : CheckSlippageOk(less, asked.side)
  BY <1>1, SmallerOrderPasses
<1> QED
  BY <1>4, <1>7, <1>8 DEF levels, side

\* estimate_slippage is the best the book can do for any order, however the levels of the book
\* are presented, and a smaller order than one check_slippage_ok lets through passes it too.
THEOREM BookWalkIsBest == SlippageSpec => []EstimateIsBestExecution
<1>1. SlippageInit => SlippageInv
  BY SlippageInitially
<1>2. SlippageInv /\ [SlippageNext]_slippageVars => SlippageInv'
  BY SlippageStep
<1>3. SlippageInv => EstimateIsBestExecution
  BY SlippageSafe
<1> QED
  BY <1>1, <1>2, <1>3, PTL DEF SlippageSpec

-----------------------------------------------------------------------------
(* Twap: whatever is drawn, the slices make up the order.                  *)

\* What the slices of an order add up to is a total over their numbers.
LEMMA SlicesTally ==
  ASSUME NEW n \in Nat, NEW w \in [1..n -> Int]
  PROVE  SumFunction(w) = Tally(w, 1..n) /\ IsFiniteSet(1..n)
<1>1. IsFiniteSet(1..n)
  BY FS_Interval
<1>2. DOMAIN w = 1..n
  OBVIOUS
<1>3. SumFunction(w) = Tally(w, 1..n)
  BY <1>2 DEF SumFunction, SumFunctionOnSet, FoldFunctionOnSet, Tally, MapThenSumSet
<1> QED
  BY <1>1, <1>3

\* _build_slices: the last slice is what the drawn ones leave of the order.
LEMMA TwapInitially == TwapInit => TwapTypeOK
<1> SUFFICES ASSUME TwapInit PROVE TwapTypeOK
  OBVIOUS
<1>1. /\ NumSlices \in Nat /\ NumSlices >= 1 /\ SliceSize \in Nat /\ Jitter \in Int
      /\ Interval \in Nat /\ Interval >= 1
  BY TwapAssumption
<1>2. PICK draw \in [1..NumSlices - 1 -> SliceSize - Jitter..SliceSize + Jitter] :
        slices = [i \in Slices |->
              [size |-> IF i < NumSlices THEN draw[i] ELSE Total - SumFunction(draw),
               fill |-> 0, status |-> "pending"]]
  BY DEF TwapInit
<1> DEFINE n == NumSlices - 1
           A == 1..n
           B == 1..NumSlices
           w == [i \in Slices |-> slices[i].size]
<1>3. n \in Nat /\ A \subseteq B /\ NumSlices \in B /\ B \ {NumSlices} = A /\ NumSlices \notin A
  BY <1>1
<1>4. draw \in [A -> Int]
  <2>1. \A x \in SliceSize - Jitter..SliceSize + Jitter : x \in Int
    OBVIOUS
  <2> QED
    BY <2>1
<1>5. Total \in Int
  BY <1>1 DEF Total
<1> HIDE DEF n
<1>6. SumFunction(draw) = Tally(draw, A) /\ IsFiniteSet(A)
  BY <1>3, <1>4, SlicesTally
<1>7. Tally(draw, A) \in Int
  BY <1>4, <1>6, Tallies
<1>8. /\ w \in [B -> Int] /\ w[NumSlices] = Total - Tally(draw, A)
      /\ \A i \in A : w[i] = draw[i]
  <2>1. \A i \in B : w[i] = IF i < NumSlices THEN draw[i] ELSE Total - SumFunction(draw)
    BY <1>2 DEF Slices
  <2>2. w = [i \in B |-> w[i]]
    BY DEF Slices
  <2> HIDE DEF w
  <2>7. \A i \in A : i < NumSlices /\ draw[i] \in Int
    BY <1>1, <1>3, <1>4 DEF n
  <2>3. \A i \in B : i \in A \/ i = NumSlices
    BY <1>3
  <2>4. w[NumSlices] = Total - Tally(draw, A)
    <3>1. ~ (NumSlices < NumSlices)
      BY <1>1
    <3> QED
      BY <1>3, <1>6, <2>1, <3>1
  <2>5. \A i \in A : w[i] = draw[i]
    BY <1>3, <2>1, <2>7
  <2>6. \A i \in B : w[i] \in Int
    BY <1>5, <1>7, <2>3, <2>4, <2>5, <2>7
  <2> QED
    BY <2>2, <2>4, <2>5, <2>6
<1>9. SumFunction(w) = Total
  <2> HIDE DEF w
  <2>1. SumFunction(w) = Tally(w, B) /\ IsFiniteSet(B)
    BY <1>1, <1>8, SlicesTally
  <2>2. Tally(w, B) = w[NumSlices] + Tally(w, A)
    BY <1>3, <1>8, <2>1, Tallies
  <2>3. Tally(w, A) = Tally(draw, A)
    BY <1>3, <1>4, <1>6, <1>8, <2>1, SharedTally
  <2> QED
    BY <1>5, <1>7, <1>8, <2>1, <2>2, <2>3
<1>10. slices \in [Slices -> [size : Int, fill : Nat,
                              status : {"pending", "submitted", "filled", "failed"}]]
  <2>1. \A i \in Slices : w[i] \in Int /\ w[i] = IF i < NumSlices THEN draw[i] ELSE Total - SumFunction(draw)
    BY <1>2, <1>8 DEF Slices
  <2>2. slices = [i \in Slices |-> [size |-> w[i], fill |-> 0, status |-> "pending"]]
    BY <1>2, <2>1
  <2> HIDE DEF w
  <2> QED
    BY <2>1, <2>2
<1>11. nextIdx = 0 /\ age = Interval /\ cancelled = FALSE
  BY DEF TwapInit
<1>12. nextIdx \in 0..NumSlices /\ age \in 0..Interval /\ cancelled \in BOOLEAN
  <2>1. 0 \in 0..NumSlices /\ Interval \in 0..Interval
    BY <1>1
  <2> QED
    BY <1>11, <2>1, Zenon
<1> QED
  BY <1>9, <1>10, <1>12 DEF TwapTypeOK

\* No slice changes its size: what is reported of it, late, twice or after a cancel, is kept beside.
LEMMA TwapStep == TwapTypeOK /\ [TwapNext]_twapVars => TwapTypeOK'
<1> SUFFICES ASSUME TwapTypeOK, [TwapNext]_twapVars PROVE TwapTypeOK'
  OBVIOUS
<1> DEFINE Slice == [size : Int, fill : Nat, status : {"pending", "submitted", "filled", "failed"}]
<1>1. /\ slices \in [Slices -> Slice] /\ SumFunction([i \in Slices |-> slices[i].size]) = Total
      /\ nextIdx \in 0..NumSlices /\ age \in 0..Interval /\ cancelled \in BOOLEAN
  BY DEF TwapTypeOK
<1>2. NumSlices \in Nat /\ Interval \in Nat
  BY TwapAssumption
<1>3. ASSUME slices' \in [Slices -> Slice], \A i \in Slices : slices'[i].size = slices[i].size,
             nextIdx' \in 0..NumSlices, age' \in 0..Interval, cancelled' \in BOOLEAN
      PROVE  TwapTypeOK'
  <2>1. [i \in Slices |-> slices'[i].size] = [i \in Slices |-> slices[i].size]
    BY <1>3
  <2> QED
    BY <1>1, <1>3, <2>1 DEF TwapTypeOK, Total, Slices
<1>4. CASE NextSlice
  <2>1. /\ nextIdx < NumSlices /\ slices' = [slices EXCEPT ![nextIdx + 1].status = "submitted"]
        /\ nextIdx' = nextIdx + 1 /\ age' = 0 /\ cancelled' = cancelled
    BY <1>4 DEF NextSlice, SliceLeft
  <2>2. slices' \in [Slices -> Slice] /\ \A i \in Slices : slices'[i].size = slices[i].size
    BY <1>1, <2>1
  <2> QED
    BY <1>1, <1>2, <1>3, <2>1, <2>2
<1>5. ASSUME NEW i \in Slices, SliceFilled(i) PROVE TwapTypeOK'
  <2>1. PICK size \in Nat : slices' = [slices EXCEPT ![i].status = "filled", ![i].fill = size]
    BY <1>5 DEF SliceFilled
  <2>2. slices' \in [Slices -> Slice] /\ \A j \in Slices : slices'[j].size = slices[j].size
    BY <1>1, <2>1
  <2> QED
    BY <1>1, <1>3, <1>5, <2>2 DEF SliceFilled
<1>6. ASSUME NEW i \in Slices, SliceFailed(i) PROVE TwapTypeOK'
  <2>1. slices' = [slices EXCEPT ![i].status = "failed"]
    BY <1>6 DEF SliceFailed
  <2>2. slices' \in [Slices -> Slice] /\ \A j \in Slices : slices'[j].size = slices[j].size
    BY <1>1, <2>1
  <2> QED
    BY <1>1, <1>3, <1>6, <2>2 DEF SliceFailed
<1>7. CASE Cancel
  <2>1. slices' = [i \in Slices |->
          IF slices[i].status \in {"pending", "submitted"}
              THEN [slices[i] EXCEPT !.status = "failed"] ELSE slices[i]]
    BY <1>7 DEF Cancel
  <2>2. slices' \in [Slices -> Slice] /\ \A j \in Slices : slices'[j].size = slices[j].size
    BY <1>1, <2>1
  <2> QED
    BY <1>1, <1>3, <1>7, <2>2 DEF Cancel
<1>8. CASE Pass
  <2>1. age' \in 0..Interval
    BY <1>1, <1>2, <1>8 DEF Pass
  <2> QED
    BY <1>1, <1>3, <1>8, <2>1 DEF Pass
<1>9. CASE UNCHANGED twapVars
  BY <1>1, <1>3, <1>9 DEF twapVars
<1> QED
  BY <1>4, <1>5, <1>6, <1>7, <1>8, <1>9 DEF TwapNext

\* The slices of a TWAP order add up to the order for any draw of their sizes and whatever is
\* handed out, reported or cancelled, in any order.
THEOREM SlicesMakeUpTheOrder == TwapSpec => []TwapTypeOK
<1> QED
  BY TwapInitially, TwapStep, PTL DEF TwapSpec
=============================================================================
