\* Two portfolios and one to be created, a trade, a strategy change each, and any two forms.
SPECIFICATION Spec
CONSTANTS
    Existing = 2
    MaxCreated = 1
    MaxTrades = 1
    MaxSaves = 1
    MaxForms = 2
    None = None
INVARIANTS
    TypeOK
    PageOfSelected
CHECK_DEADLOCK FALSE
