SPECIFICATION LimiterSpec
CONSTANTS
    Horizon = 8
    Requesters = {r1, r2}
    Period = 2
    Burst = 1
    MaxGrants = 8
INVARIANT GrantsWithinRate
CHECK_DEADLOCK FALSE
