\* Two requests against one limiter.
CONSTANTS
    c1 = c1  c2 = c2
    Calls <- MCCalls
    Raw <- MCRaw
    MaxRetries = 3
    MaxWait = 2
    Backoff = 1
    Pause = 1
    LowBudget = 0
    Waits <- MCWaits
    Absent = Absent
    Burst = 1
SPECIFICATION FairSpec
INVARIANTS TypeOK HandledAtMostOnce DataIsGenuine LimitedOnlyWhenExhausted SleepIsBounded
PROPERTIES EveryStepCounts RequestEnds
