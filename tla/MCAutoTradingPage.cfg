\* Two runs with one change each, two keys and two commands.
SPECIFICATION Spec
CONSTANTS
    MaxRuns = 2
    MaxRev = 2
    MaxKeys = 2
    MaxCommands = 2
    Saved = Saved
    Refused = Refused
    None = None
INVARIANTS
    TypeOK
    OneEffectPerWish
    JournalOfShownRun
PROPERTIES
    ShownNeverOlder
    CatchesUp
CHECK_DEADLOCK FALSE
