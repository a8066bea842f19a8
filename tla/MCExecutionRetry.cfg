SPECIFICATION Spec
CONSTANTS
    Workers = {w1, w2}
    Keys = {k1}
    buy = buy
    timeout = timeout
    Bodies = {buy}
    Configs = {c1}
    older = older
    newer = newer
    Calculators = {older}
    Rejects = {}
    Revised = {}
    Shows <- MCShows
    MaxCommands = 2
    None = None
PROPERTY
    RetryResolvesFailure
