SPECIFICATION ConnectionSpec
CONSTANTS
    Limit = 1
    MaxSends = 5
INVARIANTS CounterIsQueue StalledBacklogIsBounded UpgradeIsJudged DialIsSettled
PROPERTIES GaveUpIsHeard
CHECK_DEADLOCK FALSE
