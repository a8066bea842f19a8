SPECIFICATION Spec
CONSTANTS
    Runs = {r1, r2}
    Schedulers = {s1}
    Handlers = {h1, h2}
    Bars = 1
    MaxUnfinished = 1
    MaxOutages = 0
    None = None
INVARIANT
    UnfinishedLimit
CHECK_DEADLOCK FALSE
