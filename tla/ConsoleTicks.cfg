SPECIFICATION Spec
CONSTANTS
    t1 = t1
    p1 = p1
    p2 = p2
    c1 = c1
    c2 = c2
    NoPart = NoPart
    Trans = {t1}
    Parts = {p1, p2}
    TransOf <- MCTransOf
    Pages = {1, 2}
    PageOf <- MCPageOf
    Counts = {0, 1}
    RetryMax = 1
    Connections = {c1}
INVARIANT
    RemovesWhatIsTicked
