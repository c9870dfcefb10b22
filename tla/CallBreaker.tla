---------------------------- MODULE CallBreaker -----------------------------
(***************************************************************************)
(* infra/circuit_breaker.py: CircuitBreaker.call around an awaited         *)
(* coroutine.  Calls admitted in one state may report in another.          *)
(***************************************************************************)
EXTENDS Clock

CONSTANTS Workers,           \* coroutines that may be inside call() at once
          TripAfter,         \* failure_threshold
          RecoveryTimeout,   \* recovery_timeout
          SuccessThreshold,  \* success_threshold
          MaxReports         \* bound: results reported in a run

ASSUME CallAssumption ==
    /\ TripAfter \in Nat \ {0} /\ SuccessThreshold \in Nat \ {0}
    /\ RecoveryTimeout \in Nat /\ MaxReports \in Nat

VARIABLES circuit,    \* _state, _failure_count, _success_count, _last_failure_time
          inCall,     \* coroutines awaiting their coro
          reports,    \* results reported
          probes      \* history: successes recorded since the circuit last left OPEN

callVars == <<circuit, inCall, reports, probes>>

CallTypeOK ==
    /\ circuit \in [state : {"CLOSED", "OPEN", "HALF_OPEN"}, failures : Nat,
                    successes : 0..SuccessThreshold, last : 0..Horizon]
    /\ inCall \subseteq Workers
    /\ reports \in 0..MaxReports
    /\ probes \in Nat

Reset == [state |-> "CLOSED", failures |-> 0, successes |-> 0, last |-> 0]

CallInit == circuit = Reset /\ inCall = {} /\ reports = 0 /\ probes = 0

\* Mutant of Polled: the successes of an earlier recovery still count.
PolledKeepsSuccesses ==
    IF circuit.state = "OPEN" /\ Since(circuit.last) >= RecoveryTimeout
        THEN [circuit EXCEPT !.state = "HALF_OPEN"] ELSE circuit

\* The `state` property: reading it is what moves OPEN to HALF_OPEN.
Polled ==
    IF circuit.state = "OPEN" /\ Since(circuit.last) >= RecoveryTimeout
        THEN [circuit EXCEPT !.state = "HALF_OPEN", !.successes = 0] ELSE circuit

\* record_success after the read of `state`: a success of a call that outlived a trip is
\* ignored while OPEN; in CLOSED it takes back one failure only.
Succeeded(b) ==
    CASE b.state = "HALF_OPEN" ->
           IF b.successes + 1 >= SuccessThreshold
               THEN [b EXCEPT !.state = "CLOSED", !.failures = 0, !.successes = @ + 1]
               ELSE [b EXCEPT !.successes = @ + 1]
      [] b.state = "CLOSED" -> [b EXCEPT !.failures = IF @ = 0 THEN 0 ELSE @ - 1]
      [] b.state = "OPEN" -> b

Failed(b) ==
    [b EXCEPT !.failures = @ + 1, !.last = now,
              !.state = IF b.failures + 1 >= TripAfter THEN "OPEN" ELSE @]

\* call(): CircuitBreakerOpen when the circuit is OPEN, else the coroutine is awaited.
Enter(w) ==
    /\ w \notin inCall
    /\ circuit' = Polled
    /\ inCall' = IF Polled.state = "OPEN" THEN inCall ELSE inCall \cup {w}
    /\ probes' = IF circuit.state = "OPEN" THEN 0 ELSE probes
    /\ UNCHANGED <<reports, now>>

Report(w) ==
    /\ w \in inCall /\ reports < MaxReports
    /\ reports' = reports + 1
    /\ inCall' = inCall \ {w}
    /\ \/ /\ circuit' = Succeeded(Polled)
          /\ probes' = (IF circuit.state = "OPEN" THEN 0 ELSE probes)
                         + (IF Polled.state = "HALF_OPEN" THEN 1 ELSE 0)
       \/ /\ circuit' = Failed(circuit)
          /\ UNCHANGED probes
    /\ UNCHANGED now

ResetCircuit == circuit # Reset /\ circuit' = Reset /\ probes' = 0 /\ UNCHANGED <<inCall, reports, now>>

CallTick == Tick /\ UNCHANGED callVars

CallNext == (\E w \in Workers : Enter(w) \/ Report(w)) \/ ResetCircuit \/ CallTick

CallSpec == now = 0 /\ CallInit /\ [][CallNext]_<<callVars, now>>

-----------------------------------------------------------------------------
\* Safety, action property.  A tripped circuit closes only after SuccessThreshold successes
\* observed since it last left OPEN (or by reset()): neither the successes of a recovery
\* that was cut short by a failure, nor a late success of a call admitted before the trip
\* and reported while OPEN, help to close it.
ProbesBeforeClose ==
    [][circuit.state # "CLOSED" /\ circuit'.state = "CLOSED"
          => circuit' = Reset \/ probes' >= SuccessThreshold]_<<callVars, now>>
=============================================================================
