\* Two rows and one to be added, three commands, and one refresh of the session.
SPECIFICATION RowsSpec
CONSTANTS
    Existing = 2
    MaxCreated = 1
    MaxCommands = 3
    MaxReloads = 1
    NoRow = NoRow
INVARIANTS
    RowTypeOK
    ListFollowsServer
CHECK_DEADLOCK FALSE
