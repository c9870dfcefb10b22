---------------------------- MODULE RateLimiter -----------------------------
(***************************************************************************)
(* infra/rate_limiter.py: coroutines that acquire() from one token bucket. *)
(* The asyncio.Lock is held over the sleep, so requesters queue on it in   *)
(* order.  One token takes Period units of time; tokens are counted in     *)
(* units of 1 / Period, which makes the arithmetic of the code exact.      *)
(***************************************************************************)
EXTENDS Clock, Sequences

CONSTANTS Requesters,   \* coroutines that share the limiter
          Period,       \* 1 / rate
          Burst,        \* burst
          MaxGrants     \* bound: requests granted in a run

ASSUME LimiterAssumption ==
    Period \in Nat \ {0} /\ Burst \in Nat \ {0} /\ MaxGrants \in Nat

VARIABLES bucket,    \* _tokens (in 1 / Period) and _last_refill
          line,      \* requesters at the lock, its holder first
          wakeAt,    \* when the holder's sleep ends; -1 when the holder is not asleep
          granted    \* requests granted so far

limiterVars == <<bucket, line, wakeAt, granted>>

LimiterTypeOK ==
    /\ bucket \in [tokens : 0..Burst * Period, last : 0..Horizon]
    /\ line \in Seq(Requesters)
    /\ wakeAt \in -1..Horizon + Period
    /\ granted \in 0..MaxGrants

LimiterInit ==
    /\ bucket = [tokens |-> Burst * Period, last |-> 0]
    /\ line = <<>> /\ wakeAt = -1 /\ granted = 0

\* Mutant of Refilled: _last_refill moves only when the bucket is short of a token.
RefilledWhenShort ==
    LET t == bucket.tokens + Since(bucket.last) IN
    [tokens |-> IF t > Burst * Period THEN Burst * Period ELSE t,
     last |-> IF t >= Period THEN bucket.last ELSE now]

\* Mutant of Refilled: the bucket has no capacity.
RefilledUncapped == [tokens |-> bucket.tokens + Since(bucket.last), last |-> now]

Refilled ==
    LET t == bucket.tokens + Since(bucket.last) IN
    [tokens |-> IF t > Burst * Period THEN Burst * Period ELSE t, last |-> now]

Queue(r) ==
    /\ \A i \in DOMAIN line : line[i] # r
    /\ line' = Append(line, r)
    /\ UNCHANGED <<bucket, wakeAt, granted, now>>

\* The head of the line takes the lock and finds a token ...
Grant ==
    /\ line # <<>> /\ wakeAt = -1 /\ Refilled.tokens >= Period /\ granted < MaxGrants
    /\ bucket' = [Refilled EXCEPT !.tokens = @ - Period]
    /\ line' = Tail(line) /\ granted' = granted + 1
    /\ UNCHANGED <<wakeAt, now>>

\* ... or sleeps, with the lock, for the missing part of one.
Sleep ==
    /\ line # <<>> /\ wakeAt = -1 /\ Refilled.tokens < Period
    /\ bucket' = Refilled
    /\ wakeAt' = now + Period - Refilled.tokens
    /\ UNCHANGED <<line, granted, now>>

\* The sleep may overrun.  It empties the bucket and leaves _last_refill where it was before it.
Wake ==
    /\ wakeAt # -1 /\ now >= wakeAt /\ granted < MaxGrants
    /\ bucket' = [bucket EXCEPT !.tokens = 0]
    /\ line' = Tail(line) /\ wakeAt' = -1 /\ granted' = granted + 1
    /\ UNCHANGED now

\* A requester is cancelled, at the lock or in its sleep: `async with` gives the lock back.
CancelRequest(i) ==
    /\ i \in DOMAIN line
    /\ line' = SubSeq(line, 1, i - 1) \o SubSeq(line, i + 1, Len(line))
    /\ wakeAt' = IF i = 1 THEN -1 ELSE wakeAt
    /\ UNCHANGED <<bucket, granted, now>>

LimiterTick == Tick /\ UNCHANGED limiterVars

LimiterNext ==
    \/ \E r \in Requesters : Queue(r)
    \/ Grant \/ Sleep \/ Wake \/ LimiterTick
    \/ \E i \in 1..Len(line) : CancelRequest(i)

LimiterSpec == now = 0 /\ LimiterInit /\ [][LimiterNext]_<<limiterVars, now>>

-----------------------------------------------------------------------------
\* Safety.  What the limiter does guarantee, whatever the arrivals, overruns and
\* cancellations: after the burst at most two requests per Period.
GrantsWithinTwiceTheRate == granted * Period <= Burst * Period + 2 * now

\* What a token bucket of this rate promises ("requests_per_minute: Maximum requests per
\* minute"): the burst, and then one request per Period.  The code credits the time of a
\* sleep twice, once as the token the sleeper waited for and once at the next refill.
GrantsWithinRate == granted * Period <= Burst * Period + now
=============================================================================
