\* Two keys, two symbols, two sessions, three changes, two ticks and one lost connection.
SPECIFICATION Spec
CONSTANTS
    Keys = {k1, k2}
    Tickers = {t1, t2}
    Sessions = {a1, a2}
    MaxChanges = 3
    MaxTicks = 2
    MaxDrops = 1
    None = None
INVARIANTS
    TypeOK
    ShownIsCurrent
PROPERTY
    Settles
CHECK_DEADLOCK FALSE
