SPECIFICATION Spec
SYMMETRY Symmetry
CONSTANTS
    Workers = {w1, w2}
    Keys = {k1, k2, k3}
    buy = buy
    timeout = timeout
    Bodies = {buy, timeout}
    Configs = {c1, c2}
    older = older
    newer = newer
    Calculators = {older, newer}
    Rejects <- MCRejects
    Revised <- MCRevised
    Shows <- MCShows
    MaxCommands = 2
    None = None
INVARIANTS
    TypeOK
    StateMatchesJournal
    IncidentsMatchState
PROPERTIES
    MismatchFreezes
    ImplementsJournal
