\* Two runs of one user, two backends with a scheduler, two creation workers,
\* two trading days, one unfinished run allowed, one outage.
SPECIFICATION Spec
CONSTANTS
    Runs = {r1, r2}
    Schedulers = {s1, s2}
    Handlers = {h1, h2}
    Bars = 2
    MaxUnfinished = 1
    MaxOutages = 1
    None = None
INVARIANTS
    TypeOK
    JournalMatchesCursor
    EventTellsStatus
PROPERTIES
    AdvancesWhenDue
    EndIsFinal
    PlainCreationsKeepLimit
    RunningEnds
\* Once every request key is used and every run has ended, nothing is left to do.
CHECK_DEADLOCK FALSE
