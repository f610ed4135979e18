SPECIFICATION Spec
CONSTANTS
    t1 = t1
    p1 = p1
    Trans = {t1}
    Parts = {p1}
    TransOf <- MCTransOf
    RuntimeRetryMax = 1
    Workers = {w1, w2}
    RetryMax = 2
    RetryInputs = {0, 2, 3}
    MaxFaults = 1
    Browsers = {b1, b2}
    MaxCalls = 2
    Admins = {a1, a2}
    MaxLosses = 2
    MaxInterceptors = 2
    Keys = {"one", "other"}
    None = "none"
    MaxSwitches = 2
PROPERTIES
    EditRevives
    EveryRequestAnswered
    EveryStartEnds
    EveryCallbackRuns
CHECK_DEADLOCK FALSE
