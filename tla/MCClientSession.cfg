\* Two accounts, two requests; the first page load and two more things the user
\* asks for; the pair restored or a first one, and two more.
SPECIFICATION Spec
CONSTANTS
    Users = {u1, u2}
    Requests = {r1, r2}
    MaxVersion = 3
    MaxIssued = 3
    Lost = Lost
    None = None
INVARIANTS
    TypeOK
    SignedInAsAsked
PROPERTIES
    RequestKeepsItsAccount
    DroppedOnlyByItsOwnRefusal
    Settles
CHECK_DEADLOCK FALSE
