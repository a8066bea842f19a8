\* Three requests and two sets of conditions, for each of the six panels.
SPECIFICATION Spec
CONSTANTS
    MaxKeys = 3
    Conditions = {c1, c2}
    Live = Live
    Refused = Refused
    None = None
INVARIANTS
    TypeOK
    OneRecordPerWish
PROPERTIES
    ShownAsSaid
CHECK_DEADLOCK FALSE
