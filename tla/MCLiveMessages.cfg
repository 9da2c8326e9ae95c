CONSTANTS
    Instances = {i1, i2}
    Sockets = {s1}
    Messages = {m1}
    MaxRestarts = 1
    None = None
    Sessions = {c1, c2}
    PageSize = 1
    MaxMessages = 3
    Processes = {p1, p2}
    Ttl = 1
    MaxUpdates = 2
SPECIFICATION MCSpec
INVARIANTS MCTypeOK OneCopy ReadWasShown CacheIsFresh
PROPERTIES SocketsLeave ListenerRecovers LiveDelivery SettingsConverge
CHECK_DEADLOCK FALSE
