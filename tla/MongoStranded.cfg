SPECIFICATION Spec
CONSTANTS
    t1 = t1
    p1 = p1
    p2 = p2
    w1 = w1
    w2 = w2
    Trans = {t1}
    Parts = {p1}
    Workers = {w1}
    TransOf <- MCTransOf
    RuntimeRetryMax = 1
    RetryMax = 2
    RetryInputs = {0, 2, 3}
    MaxFaults = 1
INVARIANT
    NoneStranded
