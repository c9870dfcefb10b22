SPECIFICATION WsSpec
CONSTANTS
    Tokens = {t1}
    Prices = {40, 41}
    MaxDelay = 4
INVARIANT BestAskIsLowest
CHECK_DEADLOCK FALSE
