CONSTANTS
    Request = {r1, r2, r3}
    Path = {dflt, pathA, pathB}
    DefaultPath = dflt
    NoPath = NoPath
    Entry = {e1}
    Nobody = Nobody
    MaxFaults = 1
    MaxOutside = 0
SPECIFICATION Spec
INVARIANT DataFollowsPath
CHECK_DEADLOCK FALSE
