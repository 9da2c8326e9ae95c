CONSTANTS
    Users = {u1}
    Pairs = {p1}
    Sessions = {s1}
    MaxChanges = 1
    None = None
SPECIFICATION Spec
PROPERTY SuspendedMeansSuspended
CHECK_DEADLOCK FALSE
