CONSTANTS
    Sender = {alice}
    Label = label
    RemoteKey = {k1}
    NoKey = NoKey
    PageSize = 2
    MaxSlots = 1
    MaxSaved = 2
    MaxSent = 3
SPECIFICATION Spec
INVARIANT DelegatedKeyPlaced
CHECK_DEADLOCK FALSE
